-------------------------- MODULE ClockRace_proofs --------------------------
(***************************************************************************)
(* Proofs about ClockRace, for every set of factors, every epoch and every  *)
(* order of the loads and stores, as long as the calls of the writers do    *)
(* not overlap.                                                             *)
(***************************************************************************)
EXTENDS ClockRace, TLAPS

-----------------------------------------------------------------------------
(***************************************************************************)
(* The invariant                                                            *)
(***************************************************************************)

Places == {"idle", "test", "standing", "getclock", "loading", "stopping",
           "starttime", "starting"}

Memory == [offset : Int, restart : Nat, enabled : BOOLEAN, tdf : Tdfs]

Registers == [ti : Nat, clock : Int, offset : Int, restart : Nat,
              enabled : BOOLEAN, tdf : Tdfs]

Shape ==
  /\ hostClock \in Nat
  /\ mem \in Memory
  /\ pc \in [Threads -> Places]
  /\ todo \in [Threads -> SUBSET {"offset", "restart", "enabled", "tdf", "rebase"}]
  /\ reg \in [Threads -> Registers]
  /\ phase \in {"start", "wait", "settdf", "restart"}
  /\ since \in Int

\* Writers take turns: no other one is in one of the clock's functions.
Turn(w) == \A v \in Writers \ {w} : pc[v] = "idle"

\* What the fields hold between two calls.
Settled ==
  IF mem.enabled
  THEN mem.restart + mem.offset >= 0 /\ mem.restart <= hostClock
  ELSE mem.offset >= 0

\* The VirtualTime thread stops the clock in its cycle, Protocol 30 while that
\* thread waits.
StopsIn(w) == phase = IF w = "VT" THEN "settdf" ELSE "wait"

AsIdle(w) ==
  pc[w] = "idle" => Settled /\ (phase # "wait" => ~mem.enabled)

AsTesting(w) ==
  pc[w] \in {"test", "getclock"} => Settled /\ mem.enabled /\ StopsIn(w)

AsLoading(w) ==
  pc[w] = "loading" =>
    /\ Settled /\ mem.enabled /\ StopsIn(w)
    /\ mem.restart <= reg[w].ti /\ reg[w].ti <= hostClock
    /\ \A f \in {"offset", "restart", "tdf"} \ todo[w] : reg[w][f] = mem[f]
    /\ "enabled" \notin todo[w] /\ "rebase" \notin todo[w]

AsStopping(w) ==
  pc[w] = "stopping" =>
    /\ StopsIn(w)
    /\ todo[w] # {} /\ todo[w] \subseteq {"offset", "enabled"}
    /\ reg[w].clock \in Nat
    /\ "offset" \notin todo[w] => mem.offset = reg[w].clock
    /\ mem.enabled <=> "enabled" \in todo[w]

AsStarttime(w) ==
  pc[w] = "starttime" => Settled /\ ~mem.enabled /\ w = "VT" /\ phase = "wait"

AsStarting(w) ==
  pc[w] = "starting" =>
    /\ w = "VT" /\ phase = "wait"
    /\ todo[w] # {} /\ todo[w] \subseteq {"rebase", "offset", "restart", "enabled"}
    /\ ~("rebase" \in todo[w] /\ "offset" \in todo[w])
    /\ reg[w].ti <= hostClock
    /\ "offset" \in todo[w] => reg[w].offset = mem.offset
    /\ "restart" \notin todo[w] => mem.restart = reg[w].ti
    /\ mem.enabled <=> "enabled" \notin todo[w]
    /\ IF "rebase" \in todo[w] \/ "offset" \in todo[w]
       THEN mem.offset >= 0
       ELSE mem.offset + reg[w].ti >= 0

\* Where w is, and what it and the fields hold there.
WriterOK(w) ==
  /\ pc[w] # "standing"
  /\ AsIdle(w) /\ AsTesting(w) /\ AsLoading(w)
  /\ AsStopping(w) /\ AsStarttime(w) /\ AsStarting(w)

WritersOK == \E w \in Writers : Turn(w) /\ WriterOK(w)

\* A call that no writer's call overlaps reads the fields of one moment, and the
\* host's clock at one of the call.
GuestOK ==
  pc["guest"] # "idle" /\ ~disturbed =>
    /\ ~AtWork
    /\ pc["guest"] \in {"test", "standing", "getclock", "loading"}
    /\ since <= Ideal!Now
    /\ pc["guest"] \in {"getclock", "loading"} => mem.enabled
    /\ pc["guest"] = "standing" => ~mem.enabled
    /\ pc["guest"] = "loading" =>
         /\ mem.restart <= reg["guest"].ti /\ reg["guest"].ti <= hostClock
         /\ since <= Dilated(mem, reg["guest"].ti)
         /\ \A f \in Fields \ todo["guest"] : reg["guest"][f] = mem[f]

RaceInv == Shape /\ WritersOK /\ GuestOK
(***************************************************************************)
(* Integer division by a variable                                           *)
(***************************************************************************)

\* The quotient is a natural number between (n - d) / d and n / d.
LEMMA DivisionBounds ==
  ASSUME NEW n \in Nat, NEW d \in Nat \ {0}
  PROVE  n \div d \in Nat /\ d * (n \div d) <= n /\ n < d * (n \div d) + d
BY Z3

\* ... and the only one.
LEMMA DivisionUnique ==
  ASSUME NEW n \in Nat, NEW d \in Nat \ {0}, NEW q \in Nat,
         d * q <= n, n < d * q + d
  PROVE  n \div d = q
BY Z3

\* Whole multiples of the divisor pass through the division.
LEMMA DivisionShift ==
  ASSUME NEW n \in Nat, NEW d \in Nat \ {0}, NEW b \in Nat
  PROVE  (b * d + n) \div d = b + n \div d
<1> DEFINE q == n \div d
<1>1. q \in Nat /\ d * q <= n /\ n < d * q + d
  BY DivisionBounds
<1> HIDE DEF q
<1>2. b * d + n \in Nat /\ b + q \in Nat /\ d * (b + q) = b * d + d * q
  BY <1>1
<1>3. d * (b + q) <= b * d + n /\ b * d + n < d * (b + q) + d
  BY <1>1, <1>2
<1>4. (b * d + n) \div d = b + q
  BY <1>2, <1>3, DivisionUnique
<1> QED
  BY <1>4 DEF q

\* Division does not reverse an order.
LEMMA DivisionMonotone ==
  ASSUME NEW m \in Nat, NEW n \in Nat, NEW d \in Nat \ {0}, m <= n
  PROVE  m \div d <= n \div d
<1>1. /\ m \div d \in Nat /\ d * (m \div d) <= m
      /\ n \div d \in Nat /\ n < d * (n \div d) + d
  BY DivisionBounds
<1> QED
  BY <1>1

\* ... and neither does multiplication.
LEMMA ProductMonotone ==
  ASSUME NEW m \in Nat, NEW n \in Nat, NEW c \in Nat, m <= n
  PROVE  m * c <= n * c
<1> DEFINE k == n - m
<1>1. k \in Nat /\ n = m + k
  OBVIOUS
<1> HIDE DEF k
<1>2. n * c = m * c + k * c /\ k * c \in Nat /\ m * c \in Nat
  BY <1>1
<1> QED
  BY <1>2

\* A factor applied to the host time since the restart drops one fraction.
LEMMA Dilation ==
  ASSUME NEW b \in Nat, NEW k \in Nat, NEW d \in Tdfs
  PROVE  /\ d \in Nat \ {0} /\ k * One \in Nat /\ (k * One) \div d \in Nat
         /\ Truncated(b * d + k * One, d) = b + (k * One) \div d
<1> DEFINE n == k * One
<1>1. One \in Nat /\ d \in Nat \ {0}
  BY RaceAssumption
<1>2. n \in Nat
  BY <1>1
<1> HIDE DEF n
<1>3. n \div d \in Nat /\ (b * d + n) \div d = b + n \div d
  BY <1>1, <1>2, DivisionBounds, DivisionShift
<1>4. b * d + n >= 0
  <2>1. b * d \in Nat
    BY <1>1
  <2> QED
    BY <1>2, <2>1
<1>5. Truncated(b * d + n, d) = (b * d + n) \div d
  BY <1>4 DEF Truncated
<1> QED
  BY <1>1, <1>2, <1>3, <1>5 DEF n

\* ... and does not reverse the order of two host times.
LEMMA DilationMonotone ==
  ASSUME NEW j \in Nat, NEW k \in Nat, NEW d \in Tdfs, j <= k
  PROVE  (j * One) \div d <= (k * One) \div d
<1>1. One \in Nat /\ d \in Nat \ {0}
  BY RaceAssumption
<1>2. j * One \in Nat /\ k * One \in Nat /\ j * One <= k * One
  BY <1>1, ProductMonotone
<1> QED
  BY <1>1, <1>2, DivisionMonotone

\* What a thread computes from the fields of a clock that runs.
LEMMA RunningReading ==
  ASSUME NEW r, NEW ti \in Nat,
         r.restart \in Nat, r.offset \in Int, r.tdf \in Tdfs,
         r.restart + r.offset >= 0, r.restart <= ti
  PROVE  /\ Dilated(r, ti) = (r.restart + r.offset) + ((ti - r.restart) * One) \div r.tdf
         /\ Dilated(r, ti) \in Nat
         /\ r.restart + r.offset <= Dilated(r, ti)
<1> DEFINE b == r.restart + r.offset
           k == ti - r.restart
           d == r.tdf
<1>1. b \in Nat /\ k \in Nat /\ d \in Tdfs
  OBVIOUS
<1>2. Dilated(r, ti) = Truncated(b * d + k * One, d)
  BY DEF Dilated
<1> HIDE DEF b, k, d
<1>3. Dilated(r, ti) = b + (k * One) \div d /\ (k * One) \div d \in Nat
  BY <1>1, <1>2, Dilation
<1>4. Dilated(r, ti) \in Nat /\ b <= Dilated(r, ti)
  BY <1>1, <1>3
<1> QED
  BY <1>3, <1>4 DEF b, k, d

\* No time passes in no host time.
LEMMA NoTime ==
  ASSUME NEW d \in Tdfs
  PROVE  (0 * One) \div d = 0
<1>1. One \in Nat /\ d \in Nat \ {0} /\ 0 * One = 0
  BY RaceAssumption
<1> QED
  BY <1>1, DivisionUnique

LEMMA DilatedIsInt ==
  ASSUME NEW r, NEW ti \in Nat, r.restart \in Nat, r.offset \in Int, r.tdf \in Tdfs
  PROVE  Dilated(r, ti) \in Int
<1> DEFINE n == (r.restart + r.offset) * r.tdf + (ti - r.restart) * One
           d == r.tdf
<1>0. d \in Nat \ {0} /\ One \in Int
  <2>1. d \in Tdfs
    OBVIOUS
  <2> HIDE DEF n, d
  <2> QED
    BY <2>1, RaceAssumption
<1>1. n \in Int
  <2>1. \A x, y \in Int : x * y \in Int
    OBVIOUS
  <2>2. /\ (r.restart + r.offset) * d \in Int
        /\ (ti - r.restart) * One \in Int
    BY <1>0, <2>1
  <2> QED
    BY <2>2
<1>2. Dilated(r, ti) = Truncated(n, d)
  BY DEF Dilated
<1> HIDE DEF n, d
<1>3. CASE n >= 0
  BY <1>0, <1>1, <1>2, <1>3, DivisionBounds DEF Truncated
<1>4. CASE ~(n >= 0)
  <2>1. -n \in Nat
    BY <1>1, <1>4
  <2>2. (-n) \div d \in Nat
    BY <1>0, <2>1, DivisionBounds
  <2> QED
    BY <1>2, <1>4, <2>2 DEF Truncated
<1> QED
  BY <1>3, <1>4

-----------------------------------------------------------------------------
(***************************************************************************)
(* The promised clock, seen from the thread that has the turn               *)
(***************************************************************************)

BaseAt(w) ==
  CASE pc[w] = "starting" -> IF "rebase" \in todo[w] \/ "offset" \in todo[w]
                             THEN mem.offset ELSE mem.offset + reg[w].ti
    [] pc[w] = "loading"  -> Dilated(mem, reg[w].ti)
    [] pc[w] = "stopping" -> reg[w].clock
    [] OTHER -> IF mem.enabled THEN mem.restart + mem.offset ELSE mem.offset

RunAt(w) ==
  CASE pc[w] = "starting" -> hostClock - reg[w].ti
    [] pc[w] \in {"loading", "stopping"} -> 0
    [] OTHER -> IF mem.enabled THEN hostClock - mem.restart ELSE 0

RunningAt(w) ==
  pc[w] = "starting" \/ (mem.enabled /\ pc[w] \notin {"loading", "stopping"})

LEMMA SeenFromTurn ==
  \A w \in Writers : Turn(w) =>
    Base = BaseAt(w) /\ Run = RunAt(w) /\ (Running <=> RunningAt(w))
<1> SUFFICES ASSUME NEW w \in Writers, Turn(w)
             PROVE  Base = BaseAt(w) /\ Run = RunAt(w) /\ (Running <=> RunningAt(w))
  OBVIOUS
<1>1. \A v \in Writers : pc[v] # "idle" => v = w
  BY DEF Turn
<1>2. CASE pc[w] = "starting"
  <2>1. Started /\ Starter = w /\ ~Stopped
    BY <1>1, <1>2 DEF Started, Starter, Stopped
  <2> QED
    BY <1>2, <2>1 DEF Base, BaseAt, Run, RunAt, Running, RunningAt
<1>3. CASE pc[w] \in {"loading", "stopping"}
  <2>1. ~Started /\ Stopper = w /\ Stopped
    BY <1>1, <1>3 DEF Started, Stopper, Stopped
  <2> QED
    BY <1>3, <2>1 DEF Base, BaseAt, Run, RunAt, Running, RunningAt
<1>4. CASE pc[w] \notin {"starting", "loading", "stopping"}
  <2>1. ~Started /\ ~Stopped
    BY <1>1, <1>4 DEF Started, Stopped
  <2> QED
    BY <1>4, <2>1 DEF Base, BaseAt, Run, RunAt, Running, RunningAt
<1> QED
  BY <1>2, <1>3, <1>4

LEMMA SeenFromTurnNext ==
  \A w \in Writers : Turn(w)' =>
    Base' = BaseAt(w)' /\ Run' = RunAt(w)' /\ (Running' <=> RunningAt(w)')
<1>1. (\A w \in Writers : Turn(w) =>
        Base = BaseAt(w) /\ Run = RunAt(w) /\ (Running <=> RunningAt(w)))'
  BY SeenFromTurn, PTL
<1> QED
  BY <1>1

\* Between the writers' calls anybody has the turn, and the promised clock shows
\* what a guest would read.
LEMMA BetweenCalls ==
  Shape /\ WritersOK /\ ~AtWork =>
    /\ \A w \in Writers : Turn(w) /\ WriterOK(w)
    /\ Settled
    /\ Ideal!Now = IF mem.enabled THEN Dilated(mem, hostClock) ELSE mem.offset
    /\ Ideal!Now \in Nat
<1> SUFFICES ASSUME Shape, WritersOK, ~AtWork
             PROVE  /\ \A w \in Writers : Turn(w) /\ WriterOK(w)
                    /\ Settled
                    /\ Ideal!Now = IF mem.enabled THEN Dilated(mem, hostClock)
                                                  ELSE mem.offset
                    /\ Ideal!Now \in Nat
  OBVIOUS
<1>1. \A w \in Writers : pc[w] = "idle"
  BY DEF AtWork
<1>2. Settled /\ (phase # "wait" => ~mem.enabled)
  BY <1>1 DEF WritersOK, WriterOK, AsIdle
<1>3. \A w \in Writers : Turn(w) /\ WriterOK(w)
  BY <1>1, <1>2
  DEF Turn, WriterOK, AsIdle, AsTesting, AsLoading, AsStopping, AsStarttime, AsStarting
<1>4. /\ Base = IF mem.enabled THEN mem.restart + mem.offset ELSE mem.offset
      /\ Run = IF mem.enabled THEN hostClock - mem.restart ELSE 0
  <2>1. "VT" \in Writers
    BY RaceAssumption
  <2> QED
    BY <1>1, <1>3, <2>1, SeenFromTurn DEF BaseAt, RunAt
<1>5. /\ hostClock \in Nat /\ mem.restart \in Nat /\ mem.offset \in Int
      /\ mem.tdf \in Tdfs
  BY DEF Shape, Memory
<1>6. Ideal!Now = Base + (Run * One) \div mem.tdf
  BY DEF Ideal!Now
<1>7. CASE mem.enabled
  <2>1. /\ Dilated(mem, hostClock) \in Nat
        /\ Dilated(mem, hostClock)
             = (mem.restart + mem.offset)
               + ((hostClock - mem.restart) * One) \div mem.tdf
    BY <1>2, <1>5, <1>7, RunningReading DEF Settled
  <2>2. Ideal!Now = Dilated(mem, hostClock)
    BY <1>4, <1>6, <1>7, <2>1
  <2> QED
    BY <1>2, <1>3, <1>7, <2>1, <2>2
<1>8. CASE ~mem.enabled
  <2>1. mem.offset \in Nat
    BY <1>2, <1>5, <1>8 DEF Settled
  <2>2. Ideal!Now = mem.offset + (0 * One) \div mem.tdf
    BY <1>4, <1>6, <1>8
  <2>3. Ideal!Now = mem.offset
    BY <1>5, <2>1, <2>2, NoTime
  <2> QED
    BY <1>2, <1>3, <1>8, <2>1, <2>3
<1> QED
  BY <1>7, <1>8

-----------------------------------------------------------------------------
(***************************************************************************)
(* Types                                                                    *)
(***************************************************************************)

\* The guest is no writer.
LEMMA GuestApart ==
  "guest" \notin Writers /\ "guest" \in Threads /\ "VT" \in Writers /\ Writers \subseteq Threads
BY RaceAssumption DEF Threads

\* Loading a field of the memory into a register.
With(r, m, f) == [r EXCEPT ![f] = m[f]]

LEMMA LoadField ==
  ASSUME NEW r \in Registers, NEW m \in Memory, NEW f \in Fields
  PROVE  /\ With(r, m, f) \in Registers /\ With(r, m, f).ti = r.ti
         /\ \A g \in Fields : With(r, m, f)[g] = IF g = f THEN m[g] ELSE r[g]
<1>1. CASE f = "offset"
  BY <1>1 DEF Registers, Memory, Fields, With
<1>2. CASE f = "restart"
  BY <1>2 DEF Registers, Memory, Fields, With
<1>3. CASE f = "enabled"
  BY <1>3 DEF Registers, Memory, Fields, With
<1>4. CASE f = "tdf"
  BY <1>4 DEF Registers, Memory, Fields, With
<1> QED
  BY <1>1, <1>2, <1>3, <1>4 DEF Fields

LEMMA BlankRegisters ==
  /\ Blank \in Registers
  /\ \A c \in Int : [Blank EXCEPT !.clock = c] \in Registers
                    /\ [Blank EXCEPT !.clock = c].clock = c
<1>1. Blank \in Registers
  BY RaceAssumption DEF Blank, Registers
<1>2. ASSUME NEW c \in Int
      PROVE  [Blank EXCEPT !.clock = c] \in Registers
             /\ [Blank EXCEPT !.clock = c].clock = c
  <2>1. \A r \in Registers : [r EXCEPT !.clock = c] \in Registers
                             /\ [r EXCEPT !.clock = c].clock = c
    BY DEF Registers
  <2> QED
    BY <1>1, <2>1
<1> QED
  BY <1>1, <1>2

\* The steps of one thread inside the clock's functions keep the shape.
LEMMA ReadKeepsShape ==
  ASSUME Shape, NEW p \in Threads, ReadClock(p)
  PROVE  Shape'
<1> USE DEF Shape, ghosts
<1>0. Fields \subseteq {"offset", "restart", "enabled", "tdf", "rebase"}
  BY DEF Fields
<1>1. CASE Test(p)
  <2>1. pc' \in [Threads -> Places]
    BY <1>1 DEF Test, GoTo, Places
  <2> QED
    BY <1>1, <2>1 DEF Test
<1>2. \A c : WriterComputed(p, c) /\ c \in Int
             => /\ pc' \in [Threads -> Places]
                /\ todo' \in [Threads -> SUBSET {"offset", "restart", "enabled",
                                                 "tdf", "rebase"}]
                /\ reg' \in [Threads -> Registers] /\ since' \in Int
  <2> SUFFICES ASSUME NEW c \in Int, WriterComputed(p, c)
               PROVE  /\ pc' \in [Threads -> Places]
                      /\ todo' \in [Threads -> SUBSET {"offset", "restart", "enabled",
                                                       "tdf", "rebase"}]
                      /\ reg' \in [Threads -> Registers] /\ since' \in Int
    OBVIOUS
  <2>1. pc' \in [Threads -> Places]
    BY DEF WriterComputed, Places
  <2>2. todo' \in [Threads -> SUBSET {"offset", "restart", "enabled", "tdf", "rebase"}]
    BY DEF WriterComputed
  <2>3. reg' \in [Threads -> Registers]
    BY BlankRegisters DEF WriterComputed
  <2> QED
    BY <2>1, <2>2, <2>3 DEF WriterComputed
<1>3. \A c : GuestReturns(c)
             => /\ pc' \in [Threads -> Places]
                /\ reg' \in [Threads -> Registers] /\ since' \in Int
  <2> SUFFICES ASSUME NEW c, GuestReturns(c)
               PROVE  /\ pc' \in [Threads -> Places]
                      /\ reg' \in [Threads -> Registers] /\ since' \in Int
    OBVIOUS
  <2>1. pc' \in [Threads -> Places]
    BY DEF GuestReturns, Places
  <2>2. reg' \in [Threads -> Registers]
    BY BlankRegisters DEF GuestReturns
  <2> QED
    BY <2>1, <2>2, RaceAssumption DEF GuestReturns
<1>4. \A from, to : GoTo(p, from, to) /\ to \in Places => pc' \in [Threads -> Places]
  BY DEF GoTo
<1>5. CASE LoadStanding(p)
  <2>1. mem.offset \in Int
    BY DEF Memory
  <2>2. "getclock" \in Places
    BY DEF Places
  <2> QED
    BY <1>5, <1>2, <1>3, <1>4, <2>1, <2>2 DEF LoadStanding
<1>6. CASE GetClock(p)
  <2>1. "loading" \in Places
    BY DEF Places
  <2>2. reg' \in [Threads -> Registers]
    <3>1. \A r \in Registers : [r EXCEPT !.ti = hostClock] \in Registers
      BY DEF Registers
    <3> QED
      BY <1>6, <3>1 DEF GetClock
  <2>3. todo' \in [Threads -> SUBSET {"offset", "restart", "enabled", "tdf", "rebase"}]
    BY <1>0, <1>6 DEF GetClock
  <2> QED
    BY <1>4, <1>6, <2>1, <2>2, <2>3 DEF GetClock
<1>7. CASE Load(p)
  <2> PICK f \in todo[p] : /\ reg' = [reg EXCEPT ![p][f] = mem[f]]
                           /\ todo' = [todo EXCEPT ![p] = @ \ {f}]
    BY <1>7 DEF Load
  <2>1. todo' \in [Threads -> SUBSET {"offset", "restart", "enabled", "tdf", "rebase"}]
    OBVIOUS
  <2>2. reg[p] \in Registers /\ reg' = [reg EXCEPT ![p] = With(reg[p], mem, f)]
    BY DEF With
  <2>3. With(reg[p], mem, f) \in Registers
    <3>1. CASE f \in Fields
      BY <2>2, <3>1, LoadField
    <3>2. CASE f = "rebase"
      BY <2>2, <3>2 DEF Registers, With
    <3> QED
      BY <3>1, <3>2 DEF Fields
  <2>4. reg' \in [Threads -> Registers]
    BY <2>2, <2>3
  <2> QED
    BY <1>7, <2>1, <2>4 DEF Load
<1>8. CASE Loaded(p)
  <2>1. Dilated(reg[p], reg[p].ti) \in Int
    <3>1. /\ reg[p].ti \in Nat /\ reg[p].restart \in Nat
          /\ reg[p].offset \in Int /\ reg[p].tdf \in Tdfs
      BY DEF Registers
    <3> QED
      BY <3>1, DilatedIsInt
  <2>2. "test" \in Places /\ "standing" \in Places
    BY DEF Places
  <2> QED
    BY <1>8, <1>2, <1>3, <1>4, <2>1, <2>2 DEF Loaded
<1> QED
  BY <1>1, <1>5, <1>6, <1>7, <1>8 DEF ReadClock

\* A writer in one of the clock's functions has the turn.
LEMMA AtWorkHasTurn ==
  ASSUME WritersOK, NEW w \in Writers, pc[w] # "idle"
  PROVE  Turn(w) /\ WriterOK(w)
BY DEF WritersOK, Turn

LEMMA WriteKeepsShape ==
  ASSUME Shape, WritersOK, NEW w \in Writers, WriteClock(w)
  PROVE  Shape'
<1> USE DEF Shape, ghosts
<1>0. w \in Threads
  BY GuestApart
<1>1. \A f : Stored(w, f)
             => /\ pc' \in [Threads -> Places]
                /\ todo' \in [Threads -> SUBSET {"offset", "restart", "enabled",
                                                 "tdf", "rebase"}]
                /\ reg' \in [Threads -> Registers]
  <2> SUFFICES ASSUME NEW f, Stored(w, f)
               PROVE  /\ pc' \in [Threads -> Places]
                      /\ todo' \in [Threads -> SUBSET {"offset", "restart", "enabled",
                                                       "tdf", "rebase"}]
                      /\ reg' \in [Threads -> Registers]
    OBVIOUS
  <2>1. todo' \in [Threads -> SUBSET {"offset", "restart", "enabled", "tdf", "rebase"}]
    BY <1>0 DEF Stored
  <2>2. CASE todo[w] = {f}
    BY <1>0, <2>1, <2>2, BlankRegisters DEF Stored, Places
  <2>3. CASE todo[w] # {f}
    BY <2>1, <2>3 DEF Stored
  <2> QED
    BY <2>2, <2>3
<1>2. reg[w].ti \in Nat /\ reg[w].clock \in Int /\ reg[w].offset \in Int
  BY <1>0 DEF Registers
<1>3. /\ \A c \in Int : [mem EXCEPT !.offset = c] \in Memory
      /\ \A t \in Nat : [mem EXCEPT !.restart = t] \in Memory
      /\ \A b \in BOOLEAN : [mem EXCEPT !.enabled = b] \in Memory
  BY DEF Memory
<1>4. CASE StoreStopped(w)
  BY <1>4, <1>1, <1>2, <1>3 DEF StoreStopped
<1>5. CASE StartTime(w)
  <2>1. pc' \in [Threads -> Places]
    BY <1>5 DEF StartTime, GoTo, Places
  <2>2. reg' \in [Threads -> Registers]
    <3>1. \A r \in Registers : [r EXCEPT !.ti = hostClock] \in Registers
      BY DEF Registers
    <3> QED
      BY <1>0, <1>5, <3>1 DEF StartTime
  <2>3. todo' \in [Threads -> SUBSET {"offset", "restart", "enabled", "tdf", "rebase"}]
    BY <1>5 DEF StartTime
  <2> QED
    BY <1>5, <2>1, <2>2, <2>3 DEF StartTime
<1>6. CASE LoadRebase(w)
  <2>1. mem.offset \in Int
    BY DEF Memory
  <2>2. reg' \in [Threads -> Registers]
    <3>1. \A r \in Registers : [r EXCEPT !.offset = mem.offset] \in Registers
      BY <2>1 DEF Registers
    <3> QED
      BY <1>0, <1>6, <3>1 DEF LoadRebase
  <2>3. todo' \in [Threads -> SUBSET {"offset", "restart", "enabled", "tdf", "rebase"}]
    BY <1>6 DEF LoadRebase
  <2> QED
    BY <1>6, <2>2, <2>3 DEF LoadRebase
<1>7. CASE StoreStarted(w)
  <2> PICK f \in todo[w] \ {"rebase"} :
        /\ mem' = CASE f = "offset"  -> [mem EXCEPT !.offset = reg[w].offset - reg[w].ti]
                    [] f = "restart" -> [mem EXCEPT !.restart = reg[w].ti]
                    [] f = "enabled" -> [mem EXCEPT !.enabled = TRUE]
        /\ Stored(w, f)
    BY <1>7 DEF StoreStarted
  <2>1. mem' \in Memory
    <3>1. f \in {"offset", "restart", "enabled"}
      <4>1. AsStarting(w) /\ pc[w] = "starting"
        BY <1>7, AtWorkHasTurn DEF StoreStarted, WriterOK
      <4> QED
        BY <4>1 DEF AsStarting
    <3>2. CASE f = "offset"
      BY <1>2, <1>3, <3>2
    <3>3. CASE f = "restart"
      BY <1>2, <1>3, <3>3
    <3>4. CASE f = "enabled"
      BY <1>2, <1>3, <3>4
    <3> QED
      BY <3>1, <3>2, <3>3, <3>4
  <2> QED
    BY <1>1, <1>7, <2>1 DEF StoreStarted
<1> QED
  BY <1>4, <1>5, <1>6, <1>7 DEF WriteClock

LEMMA ShapeInit == Init => Shape
<1> SUFFICES ASSUME Init PROVE Shape
  OBVIOUS
<1>1. pc \in [Threads -> Places]
  BY DEF Init, Places
<1>2. todo \in [Threads -> SUBSET {"offset", "restart", "enabled", "tdf", "rebase"}]
  BY DEF Init
<1>3. reg \in [Threads -> Registers]
  BY BlankRegisters DEF Init
<1>4. mem \in Memory
  BY RaceAssumption DEF Init, Memory
<1> QED
  BY <1>1, <1>2, <1>3, <1>4, RaceAssumption DEF Init, Shape

LEMMA ShapeStep ==
  ASSUME RaceInv, [Next]_vars
  PROVE  Shape'
<1> USE DEF Shape, ghosts
<1>0. Shape /\ WritersOK
  BY DEF RaceInv
<1>1. CASE HostAdvance
  BY <1>0, <1>1 DEF HostAdvance
<1>2. \A p, from, to : GoTo(p, from, to) /\ to \in Places => pc' \in [Threads -> Places]
  BY <1>0 DEF GoTo
<1>3. CASE VTCalls \/ IOCalls
  <2>1. "test" \in Places /\ "starttime" \in Places
    BY DEF Places
  <2>2. pc' \in [Threads -> Places]
    BY <1>0, <1>2, <1>3, <2>1 DEF VTCalls, IOCalls, Enable, Disable
  <2>3. since' \in Int
    BY <1>3, RaceAssumption DEF VTCalls, IOCalls, Enable, Disable, Disturbs
  <2> QED
    BY <1>0, <1>3, <2>2, <2>3 DEF VTCalls, IOCalls, Enable, Disable
<1>4. CASE VTSetTdf
  <2>1. mem' \in Memory
    BY <1>0, <1>4 DEF VTSetTdf, Memory
  <2>2. since' \in Int
    BY <1>4, RaceAssumption DEF VTSetTdf, Disturbs
  <2> QED
    BY <1>0, <1>4, <2>1, <2>2 DEF VTSetTdf
<1>5. CASE GuestCalls
  <2>1. since' \in Int
    BY <1>0, <1>5, BetweenCalls, RaceAssumption DEF GuestCalls
  <2>2. "test" \in Places
    BY DEF Places
  <2> QED
    BY <1>0, <1>2, <1>5, <2>1, <2>2 DEF GuestCalls
<1>6. CASE \E p \in Threads : ReadClock(p)
  BY <1>0, <1>6, ReadKeepsShape
<1>7. CASE \E w \in Writers : WriteClock(w)
  BY <1>0, <1>7, WriteKeepsShape
<1>8. CASE UNCHANGED vars
  BY <1>0, <1>8 DEF vars
<1> QED
  BY <1>1, <1>3, <1>4, <1>5, <1>6, <1>7, <1>8 DEF Next

-----------------------------------------------------------------------------
(***************************************************************************)
(* The steps of the writers                                                 *)
(***************************************************************************)

\* The turn is kept, and the promised clock stands still or takes a step.
Keeps(w) == Turn(w)' /\ WriterOK(w)' /\ [Ideal!Next]_Ideal!clock

\* The promised clock does not notice a step.
LEMMA Unnoticed ==
  ASSUME NEW w \in Writers, Turn(w), Turn(w)', mem'.tdf = mem.tdf,
         BaseAt(w)' = BaseAt(w), RunAt(w)' = RunAt(w), RunningAt(w)' <=> RunningAt(w)
  PROVE  UNCHANGED Ideal!clock
<1>1. /\ Base = BaseAt(w) /\ Run = RunAt(w) /\ (Running <=> RunningAt(w))
      /\ Base' = BaseAt(w)' /\ Run' = RunAt(w)' /\ (Running' <=> RunningAt(w)')
  BY SeenFromTurn, SeenFromTurnNext
<1>2. Base' = Base /\ Run' = Run
  BY <1>1
<1>3. Running' = Running
  <2>1. Running \in BOOLEAN /\ Running' \in BOOLEAN
    BY DEF Running
  <2> HIDE DEF Running
  <2> QED
    BY <1>1, <2>1
<1> QED
  BY <1>2, <1>3 DEF Ideal!clock

\* A writer calls: it has the turn, and what it does first shows nothing.
LEMMA CallKeeps ==
  ASSUME RaceInv, ~Overlap, NEW w \in Writers, w = "VT" \/ phase = "wait",
         \/ Disable(w) /\ StopsIn(w)'
         \/ Enable(w) /\ w = "VT" /\ phase # "wait" /\ phase' = "wait"
  PROVE  Keeps(w)
<1>1. ~AtWork
  BY DEF Disable, Enable, MayCall
<1>2. Turn(w) /\ WriterOK(w) /\ Settled
  BY <1>1, BetweenCalls DEF RaceInv
<1>3. pc[w] = "idle" /\ UNCHANGED <<hostClock, mem, todo, reg>>
  BY DEF Disable, Enable, GoTo
<1>4. phase # "wait" => ~mem.enabled
  BY <1>2, <1>3 DEF WriterOK, AsIdle
<1>5. pc \in [Threads -> Places] /\ w \in Threads /\ Writers \subseteq Threads
  BY GuestApart DEF RaceInv, Shape
<1>6. \/ mem.enabled /\ pc'[w] = "test" /\ StopsIn(w)'
      \/ ~mem.enabled /\ pc'[w] = "idle"
      \/ ~mem.enabled /\ pc'[w] = "starttime" /\ w = "VT" /\ phase' = "wait"
  BY <1>3, <1>4, <1>5 DEF Disable, Enable, GoTo
<1>7. Settled'
  BY <1>2, <1>3 DEF Settled
<1>8. Turn(w)'
  BY <1>2, <1>5 DEF Turn, Disable, Enable, GoTo
<1>9. WriterOK(w)'
  BY <1>3, <1>6, <1>7
  DEF WriterOK, AsIdle, AsTesting, AsLoading, AsStopping, AsStarttime, AsStarting, StopsIn
<1>10. UNCHANGED Ideal!clock
  BY <1>2, <1>3, <1>6, <1>8, Unnoticed DEF BaseAt, RunAt, RunningAt
<1> QED
  BY <1>8, <1>9, <1>10 DEF Keeps

\* The factor changes while the clock stands and nobody is at work.
LEMMA RetuneKeeps ==
  ASSUME RaceInv, VTSetTdf
  PROVE  ~AtWork /\ ~mem.enabled /\ Keeps("VT")
<1> DEFINE w == "VT"
<1>0. w \in Writers
  BY GuestApart
<1>1. phase = "settdf" /\ phase' = "restart" /\ pc[w] = "idle"
      /\ UNCHANGED <<hostClock, pc, todo, reg>>
  BY DEF VTSetTdf
<1>2. ~AtWork
  <2> PICK v \in Writers : Turn(v) /\ WriterOK(v)
    BY DEF RaceInv, WritersOK
  <2>1. v = w \/ pc[v] = "idle"
    BY <1>1, RaceAssumption
    DEF WriterOK, AsTesting, AsLoading, AsStopping, AsStarttime, AsStarting, StopsIn,
        RaceInv, Shape, Places, Threads
  <2> QED
    BY <1>0, <1>1, <2>1 DEF AtWork, Turn
<1>3. Turn(w) /\ WriterOK(w) /\ Settled
  BY <1>0, <1>2, BetweenCalls DEF RaceInv
<1>4. ~mem.enabled
  BY <1>1, <1>3 DEF WriterOK, AsIdle
<1>5. /\ mem'.offset = mem.offset /\ mem'.restart = mem.restart
      /\ mem'.enabled = mem.enabled /\ mem'.tdf \in Tdfs
  BY DEF VTSetTdf, RaceInv, Shape, Memory
<1>6. Turn(w)'
  BY <1>1, <1>3 DEF Turn
<1>7. WriterOK(w)'
  BY <1>1, <1>3, <1>4, <1>5
  DEF WriterOK, AsIdle, AsTesting, AsLoading, AsStopping, AsStarttime, AsStarting, Settled
<1>8. Ideal!Retune
  <2>1. /\ Base = BaseAt(w) /\ Run = RunAt(w) /\ (Running <=> RunningAt(w))
        /\ Base' = BaseAt(w)' /\ Run' = RunAt(w)' /\ (Running' <=> RunningAt(w)')
    BY <1>0, <1>3, <1>6, SeenFromTurn, SeenFromTurnNext
  <2>2. ~Running /\ ~Running' /\ Base' = Base /\ Run' = Run
    BY <1>1, <1>4, <1>5, <2>1 DEF BaseAt, RunAt, RunningAt
  <2>3. Running' = Running
    <3>1. Running = FALSE /\ Running' = FALSE
      BY <2>2 DEF Running
    <3> QED
      BY <3>1, Zenon
  <2> QED
    BY <1>5, <2>2, <2>3 DEF Ideal!Retune
<1> QED
  BY <1>2, <1>4, <1>6, <1>7, <1>8 DEF Keeps, Ideal!Next

\* Host time passes: a clock that runs shows it.
LEMMA AdvanceKeeps ==
  ASSUME RaceInv, HostAdvance, NEW w \in Writers, Turn(w), WriterOK(w)
  PROVE  Keeps(w)
<1>1. /\ hostClock \in Nat /\ hostClock' = hostClock + 1
      /\ mem.restart \in Nat /\ w \in Threads /\ reg[w].ti \in Nat
      /\ UNCHANGED <<mem, pc, todo, reg, phase>>
  BY GuestApart DEF HostAdvance, RaceInv, Shape, Memory, Registers
<1>2. Turn(w)'
  BY <1>1 DEF Turn
<1>3. Settled => Settled'
  BY <1>1 DEF Settled
<1>4. WriterOK(w)'
  <2>1. /\ AsIdle(w)' /\ AsTesting(w)' /\ AsStarttime(w)' /\ AsStopping(w)'
        /\ pc'[w] # "standing"
    BY <1>1, <1>3 DEF WriterOK, AsIdle, AsTesting, AsStarttime, AsStopping, StopsIn
  <2>2. AsLoading(w)'
    BY <1>1, <1>3 DEF WriterOK, AsLoading, StopsIn
  <2>3. AsStarting(w)'
    BY <1>1 DEF WriterOK, AsStarting
  <2> QED
    BY <2>1, <2>2, <2>3 DEF WriterOK
<1>5. /\ Base = BaseAt(w) /\ Run = RunAt(w) /\ (Running <=> RunningAt(w))
      /\ Base' = BaseAt(w)' /\ Run' = RunAt(w)' /\ (Running' <=> RunningAt(w)')
  BY <1>2, SeenFromTurn, SeenFromTurnNext
<1>6. BaseAt(w)' = BaseAt(w) /\ (RunningAt(w)' <=> RunningAt(w))
  BY <1>1 DEF BaseAt, RunningAt, Dilated
<1>7. CASE RunningAt(w)
  <2>1. RunAt(w)' = RunAt(w) + 1 /\ RunAt(w) \in Nat
    BY <1>1, <1>7 DEF RunAt, RunningAt, WriterOK, AsIdle, AsTesting, AsStarttime,
                      AsStarting, Settled, RaceInv, Shape, Places
  <2>2. Running /\ Running' /\ Base' = Base /\ Run' \in Nat /\ Run' > Run
    BY <1>5, <1>6, <1>7, <2>1
  <2>3. Running' = Running
    <3>1. Running = TRUE /\ Running' = TRUE
      BY <2>2 DEF Running
    <3> QED
      BY <3>1, Zenon
  <2>4. Ideal!Advance
    BY <1>1, <2>2, <2>3 DEF Ideal!Advance
  <2> QED
    BY <1>2, <1>4, <2>4 DEF Keeps, Ideal!Next
<1>8. CASE ~RunningAt(w)
  <2>1. RunAt(w)' = RunAt(w)
    BY <1>1, <1>8 DEF RunAt, RunningAt
  <2> QED
    BY <1>1, <1>2, <1>4, <1>6, <2>1, Unnoticed DEF Keeps
<1> QED
  BY <1>7, <1>8

\* __cpu_get_clock, called to stop the clock: the clock stops when the host's
\* is read, at the value computed later.
LEMMA WriterReadKeeps ==
  ASSUME RaceInv, NEW w \in Writers, ReadClock(w)
  PROVE  Keeps(w)
<1>0. w \in Threads /\ w # "guest" /\ Writers \subseteq Threads
  BY GuestApart
<1>1. pc[w] # "idle" /\ pc[w] \in {"test", "standing", "getclock", "loading"}
  BY DEF ReadClock, Test, LoadStanding, GetClock, Load, Loaded, GoTo
<1>2. Turn(w) /\ WriterOK(w)
  BY <1>1, AtWorkHasTurn DEF RaceInv
<1>3. /\ hostClock \in Nat /\ mem.restart \in Nat /\ mem.offset \in Int
      /\ mem.tdf \in Tdfs /\ reg[w] \in Registers /\ reg[w].ti \in Nat
      /\ pc \in [Threads -> Places] /\ reg \in [Threads -> Registers]
      /\ todo \in [Threads -> SUBSET {"offset", "restart", "enabled", "tdf", "rebase"}]
  BY <1>0 DEF RaceInv, Shape, Memory, Registers
<1>4. UNCHANGED <<hostClock, mem, phase>>
  BY DEF ReadClock, Test, LoadStanding, GetClock, Load, Loaded
<1>5. Settled /\ Settled' /\ mem.enabled /\ StopsIn(w) /\ StopsIn(w)'
  BY <1>1, <1>2, <1>4 DEF WriterOK, AsTesting, AsLoading, Settled, StopsIn
<1>6. mem.restart <= hostClock /\ mem.restart + mem.offset >= 0
  BY <1>5 DEF Settled
<1>7. ASSUME NEW x, pc' = [pc EXCEPT ![w] = x]
      PROVE  Turn(w)' /\ pc'[w] = x
  BY <1>0, <1>2, <1>3, <1>7 DEF Turn
<1>8. CASE Test(w)
  <2>1. pc' = [pc EXCEPT ![w] = "getclock"] /\ pc[w] = "test"
    BY <1>5, <1>8 DEF Test, GoTo
  <2>2. WriterOK(w)'
    BY <1>4, <1>5, <1>7, <2>1
    DEF WriterOK, AsIdle, AsTesting, AsLoading, AsStopping, AsStarttime, AsStarting
  <2>3. UNCHANGED Ideal!clock
    BY <1>2, <1>4, <1>7, <2>1, Unnoticed DEF BaseAt, RunAt, RunningAt
  <2> QED
    BY <1>7, <2>1, <2>2, <2>3 DEF Keeps
<1>9. CASE GetClock(w)
  <2>1. /\ pc' = [pc EXCEPT ![w] = "loading"] /\ pc[w] = "getclock"
        /\ reg'[w] = [reg[w] EXCEPT !.ti = hostClock]
        /\ todo'[w] = {"offset", "restart", "tdf"}
    BY <1>0, <1>3, <1>9 DEF GetClock, GoTo, Fields
  <2>2. reg'[w].ti = hostClock
    BY <1>3, <2>1 DEF Registers
  <2>3. WriterOK(w)'
    BY <1>3, <1>4, <1>5, <1>6, <1>7, <2>1, <2>2
    DEF WriterOK, AsIdle, AsTesting, AsLoading, AsStopping, AsStarttime, AsStarting
  <2>4. Ideal!Stop
    <3>1. /\ Base = BaseAt(w) /\ Run = RunAt(w) /\ (Running <=> RunningAt(w))
          /\ Base' = BaseAt(w)' /\ Run' = RunAt(w)' /\ (Running' <=> RunningAt(w)')
      BY <1>2, <1>7, <2>1, SeenFromTurn, SeenFromTurnNext
    <3>2. /\ Base = mem.restart + mem.offset /\ Run = hostClock - mem.restart
          /\ Running
      BY <1>5, <2>1, <3>1 DEF BaseAt, RunAt, RunningAt
    <3>3. Dilated(mem', hostClock) = Dilated(mem, hostClock)
      BY <1>4
    <3>4. Base' = Dilated(mem, hostClock) /\ Run' = 0 /\ ~Running'
      BY <1>4, <1>7, <2>1, <2>2, <3>1, <3>3 DEF BaseAt, RunAt, RunningAt
    <3>5. Running' = FALSE
      BY <3>4 DEF Running
    <3>6. Base' = Ideal!Now
      BY <1>3, <1>6, <3>2, <3>4, RunningReading DEF Ideal!Now
    <3> QED
      BY <1>4, <3>2, <3>4, <3>5, <3>6 DEF Ideal!Stop
  <2> QED
    BY <1>7, <2>1, <2>3, <2>4 DEF Keeps, Ideal!Next
<1>10. CASE Load(w)
  <2> PICK f \in todo[w] : /\ reg' = [reg EXCEPT ![w][f] = mem[f]]
                           /\ todo' = [todo EXCEPT ![w] = @ \ {f}]
    BY <1>10 DEF Load
  <2>1. pc[w] = "loading" /\ pc' = pc
    BY <1>10 DEF Load
  <2>2. f \in {"offset", "restart", "tdf"}
    BY <1>0, <1>2, <1>3, <2>1 DEF WriterOK, AsLoading
  <2>3. /\ reg'[w] = With(reg[w], mem, f)
        /\ todo'[w] = todo[w] \ {f}
    BY <1>0, <1>3 DEF With
  <2>4. /\ reg'[w].ti = reg[w].ti
        /\ \A g \in Fields : reg'[w][g] = IF g = f THEN mem[g] ELSE reg[w][g]
    <3>1. mem \in Memory /\ f \in Fields
      BY <2>2 DEF RaceInv, Shape, Fields
    <3>2. reg[w] \in Registers /\ reg'[w] = With(reg[w], mem, f)
      BY <1>3, <2>3
    <3>3. With(reg[w], mem, f).ti = reg[w].ti
      BY <3>1, <3>2, LoadField
    <3>4. \A g \in Fields :
            With(reg[w], mem, f)[g] = IF g = f THEN mem[g] ELSE reg[w][g]
      BY <3>1, <3>2, LoadField
    <3> QED
      BY <3>2, <3>3, <3>4
  <2>5. Turn(w)'
    BY <1>2, <2>1 DEF Turn
  <2>6. AsLoading(w)'
    <3>1. \A g \in {"offset", "restart", "tdf"} \ todo'[w] : reg'[w][g] = mem'[g]
      BY <1>2, <1>4, <2>1, <2>3, <2>4 DEF WriterOK, AsLoading, Fields
    <3>2. /\ mem'.restart <= reg'[w].ti /\ reg'[w].ti <= hostClock'
          /\ "enabled" \notin todo'[w] /\ "rebase" \notin todo'[w]
      BY <1>2, <1>4, <2>1, <2>3, <2>4 DEF WriterOK, AsLoading
    <3> QED
      BY <1>4, <1>5, <3>1, <3>2 DEF AsLoading
  <2>7. WriterOK(w)'
    BY <2>1, <2>6 DEF WriterOK, AsIdle, AsTesting, AsStopping, AsStarttime, AsStarting
  <2>8. UNCHANGED Ideal!clock
    <3>1. BaseAt(w)' = BaseAt(w)
      <4>1. BaseAt(w) = Dilated(mem, reg[w].ti)
        BY <2>1 DEF BaseAt
      <4>2. BaseAt(w)' = Dilated(mem', reg'[w].ti)
        BY <2>1 DEF BaseAt
      <4> QED
        BY <1>4, <2>4, <4>1, <4>2
    <3>2. RunAt(w)' = RunAt(w) /\ (RunningAt(w)' <=> RunningAt(w))
      BY <1>4, <2>1 DEF RunAt, RunningAt
    <3> QED
      BY <1>2, <1>4, <2>5, <3>1, <3>2, Unnoticed
  <2> QED
    BY <2>5, <2>7, <2>8 DEF Keeps
<1>11. CASE Loaded(w)
  <2>1. /\ pc[w] = "loading" /\ todo[w] = {}
        /\ WriterComputed(w, Dilated(reg[w], reg[w].ti))
    BY <1>0, <1>11 DEF Loaded
  <2>2. Dilated(reg[w], reg[w].ti) = Dilated(mem, reg[w].ti)
    <3>1. /\ reg[w].offset = mem.offset /\ reg[w].restart = mem.restart
          /\ reg[w].tdf = mem.tdf
      BY <1>2, <2>1 DEF WriterOK, AsLoading
    <3> QED
      BY <3>1 DEF Dilated
  <2>3. Dilated(mem, reg[w].ti) \in Nat
    BY <1>2, <1>3, <1>6, <2>1, RunningReading DEF WriterOK, AsLoading
  <2>4. /\ pc' = [pc EXCEPT ![w] = "stopping"]
        /\ todo'[w] = {"offset", "enabled"}
        /\ reg'[w].clock = Dilated(mem, reg[w].ti)
    BY <1>0, <1>3, <2>1, <2>2, <2>3, BlankRegisters DEF WriterComputed
  <2>5. WriterOK(w)'
    BY <1>4, <1>5, <1>7, <2>3, <2>4
    DEF WriterOK, AsIdle, AsTesting, AsLoading, AsStopping, AsStarttime, AsStarting
  <2>6. UNCHANGED Ideal!clock
    BY <1>2, <1>4, <1>7, <2>1, <2>4, Unnoticed DEF BaseAt, RunAt, RunningAt
  <2> QED
    BY <1>7, <2>4, <2>5, <2>6 DEF Keeps
<1>12. ~LoadStanding(w)
  BY <1>2 DEF WriterOK, LoadStanding
<1> QED
  BY <1>8, <1>9, <1>10, <1>11, <1>12 DEF ReadClock

\* What a store leaves the thread with.
LEMMA AfterStore ==
  ASSUME Shape, NEW w \in Writers, Turn(w), NEW f \in todo[w], Stored(w, f)
  PROVE  /\ Turn(w)' /\ todo'[w] = todo[w] \ {f}
         /\ \/ todo'[w] = {} /\ pc'[w] = "idle"
            \/ todo'[w] # {} /\ pc'[w] = pc[w] /\ reg'[w] = reg[w]
<1>1. w \in Threads /\ Writers \subseteq Threads
  BY GuestApart
<1>2. todo'[w] = todo[w] \ {f}
  BY <1>1 DEF Shape, Stored
<1>3. CASE todo[w] = {f}
  BY <1>1, <1>2, <1>3 DEF Shape, Stored, Turn
<1>4. CASE todo[w] # {f}
  BY <1>1, <1>2, <1>4 DEF Shape, Stored, Turn
<1> QED
  BY <1>3, <1>4

\* cpu_disable_ticks stores the clock and clears the flag, in either order, and
\* the promised clock stands at the value it stores.
LEMMA StopKeeps ==
  ASSUME RaceInv, NEW w \in Writers, StoreStopped(w)
  PROVE  Keeps(w)
<1>1. pc[w] = "stopping" /\ UNCHANGED <<hostClock, phase>>
  BY DEF StoreStopped
<1>2. Shape /\ Turn(w) /\ WriterOK(w)
  BY <1>1, AtWorkHasTurn DEF RaceInv
<1> PICK f \in todo[w] :
      /\ mem' = IF f = "offset" THEN [mem EXCEPT !.offset = reg[w].clock]
                                ELSE [mem EXCEPT !.enabled = FALSE]
      /\ Stored(w, f)
  BY DEF StoreStopped
<1>3. /\ StopsIn(w) /\ reg[w].clock \in Nat
      /\ todo[w] # {} /\ todo[w] \subseteq {"offset", "enabled"}
      /\ "offset" \notin todo[w] => mem.offset = reg[w].clock
      /\ mem.enabled <=> "enabled" \in todo[w]
  BY <1>1, <1>2 DEF WriterOK, AsStopping
<1>4. /\ Turn(w)' /\ todo'[w] = todo[w] \ {f}
      /\ \/ todo'[w] = {} /\ pc'[w] = "idle"
         \/ todo'[w] # {} /\ pc'[w] = pc[w] /\ reg'[w] = reg[w]
  BY <1>2, AfterStore
<1>5. /\ mem'.tdf = mem.tdf
      /\ "offset" \notin todo'[w] => mem'.offset = reg[w].clock
      /\ mem'.enabled <=> "enabled" \in todo'[w]
  <2>1. CASE f = "offset"
    BY <1>2, <1>3, <1>4, <2>1 DEF Shape, Memory
  <2>2. CASE f = "enabled"
    BY <1>2, <1>3, <1>4, <2>2 DEF Shape, Memory
  <2> QED
    BY <1>3, <2>1, <2>2
<1>6. StopsIn(w)'
  BY <1>1, <1>3 DEF StopsIn
<1>7. CASE todo'[w] = {} /\ pc'[w] = "idle"
  <2>1. Settled' /\ mem'.offset = reg[w].clock /\ ~mem'.enabled
    BY <1>3, <1>5, <1>7 DEF Settled
  <2>2. WriterOK(w)'
    BY <1>7, <2>1
    DEF WriterOK, AsIdle, AsTesting, AsLoading, AsStopping, AsStarttime, AsStarting
  <2>3. UNCHANGED Ideal!clock
    BY <1>1, <1>2, <1>4, <1>5, <1>7, <2>1, Unnoticed DEF BaseAt, RunAt, RunningAt
  <2> QED
    BY <1>4, <2>2, <2>3 DEF Keeps
<1>8. CASE todo'[w] # {} /\ pc'[w] = pc[w] /\ reg'[w] = reg[w]
  <2>1. WriterOK(w)'
    BY <1>1, <1>3, <1>4, <1>5, <1>6, <1>8
    DEF WriterOK, AsIdle, AsTesting, AsLoading, AsStopping, AsStarttime, AsStarting
  <2>2. UNCHANGED Ideal!clock
    BY <1>1, <1>2, <1>4, <1>5, <1>8, Unnoticed DEF BaseAt, RunAt, RunningAt
  <2> QED
    BY <1>4, <2>1, <2>2 DEF Keeps
<1> QED
  BY <1>4, <1>7, <1>8

\* cpu_enable_ticks: the clock starts when the host's is read.
LEMMA StartTimeKeeps ==
  ASSUME RaceInv, NEW w \in Writers, StartTime(w)
  PROVE  Keeps(w)
<1>0. w \in Threads /\ Writers \subseteq Threads
  BY GuestApart
<1>1. /\ pc[w] = "starttime" /\ pc' = [pc EXCEPT ![w] = "starting"]
      /\ UNCHANGED <<hostClock, mem, phase>>
  BY DEF StartTime, GoTo
<1>2. Shape /\ Turn(w) /\ WriterOK(w)
  BY <1>1, AtWorkHasTurn DEF RaceInv
<1>3. Settled /\ ~mem.enabled /\ w = "VT" /\ phase = "wait"
  BY <1>1, <1>2 DEF WriterOK, AsStarttime
<1>4. hostClock \in Nat /\ mem.offset >= 0
  BY <1>2, <1>3 DEF Shape, Settled
<1>5. pc'[w] = "starting" /\ Turn(w)'
  BY <1>0, <1>1, <1>2 DEF Turn, Shape
<1>6. /\ todo'[w] = {"rebase", "restart", "enabled"}
      /\ reg'[w].ti = hostClock
  BY <1>0, <1>2 DEF StartTime, Shape, Registers
<1>7. WriterOK(w)'
  BY <1>1, <1>3, <1>4, <1>5, <1>6
  DEF WriterOK, AsIdle, AsTesting, AsLoading, AsStopping, AsStarttime, AsStarting
<1>8. Ideal!Start
  <2>1. /\ Base = BaseAt(w) /\ Run = RunAt(w) /\ (Running <=> RunningAt(w))
        /\ Base' = BaseAt(w)' /\ Run' = RunAt(w)' /\ (Running' <=> RunningAt(w)')
    BY <1>2, <1>5, SeenFromTurn, SeenFromTurnNext
  <2>2. Base = mem.offset /\ Run = 0 /\ ~Running
    BY <1>1, <1>3, <2>1 DEF BaseAt, RunAt, RunningAt
  <2>3. Base' = mem.offset /\ Run' = 0 /\ Running'
    BY <1>1, <1>4, <1>5, <1>6, <2>1 DEF BaseAt, RunAt, RunningAt
  <2>4. Running' = TRUE
    BY <2>3 DEF Running
  <2> QED
    BY <1>1, <2>2, <2>3, <2>4 DEF Ideal!Start
<1> QED
  BY <1>5, <1>7, <1>8 DEF Keeps, Ideal!Next

\* cpu_clock_offset -= real_clock loads the offset ...
LEMMA LoadRebaseKeeps ==
  ASSUME RaceInv, NEW w \in Writers, LoadRebase(w)
  PROVE  Keeps(w)
<1>0. w \in Threads /\ Writers \subseteq Threads
  BY GuestApart
<1>1. /\ pc[w] = "starting" /\ "rebase" \in todo[w]
      /\ UNCHANGED <<hostClock, mem, pc, phase>>
  BY DEF LoadRebase
<1>2. Shape /\ Turn(w) /\ WriterOK(w)
  BY <1>1, AtWorkHasTurn DEF RaceInv
<1>3. /\ todo'[w] = (todo[w] \ {"rebase"}) \cup {"offset"}
      /\ reg'[w].ti = reg[w].ti /\ reg'[w].offset = mem.offset
  BY <1>0, <1>2 DEF LoadRebase, Shape, Registers
<1>4. Turn(w)'
  BY <1>1, <1>2 DEF Turn
<1>5. WriterOK(w)'
  BY <1>1, <1>2, <1>3
  DEF WriterOK, AsIdle, AsTesting, AsLoading, AsStopping, AsStarttime, AsStarting
<1>6. UNCHANGED Ideal!clock
  BY <1>1, <1>2, <1>3, <1>4, Unnoticed DEF BaseAt, RunAt, RunningAt
<1> QED
  BY <1>4, <1>5, <1>6 DEF Keeps

\* ... and the three stores, in any order, leave a clock that runs since then.
LEMMA StartKeeps ==
  ASSUME RaceInv, NEW w \in Writers, StoreStarted(w)
  PROVE  Keeps(w)
<1>1. pc[w] = "starting" /\ UNCHANGED <<hostClock, phase>>
  BY DEF StoreStarted
<1>2. Shape /\ Turn(w) /\ WriterOK(w)
  BY <1>1, AtWorkHasTurn DEF RaceInv
<1>f. PICK f \in todo[w] \ {"rebase"} :
      /\ mem' = CASE f = "offset"  -> [mem EXCEPT !.offset = reg[w].offset - reg[w].ti]
                  [] f = "restart" -> [mem EXCEPT !.restart = reg[w].ti]
                  [] f = "enabled" -> [mem EXCEPT !.enabled = TRUE]
      /\ Stored(w, f)
  BY DEF StoreStarted
<1>3. /\ w = "VT" /\ phase = "wait"
      /\ todo[w] # {} /\ todo[w] \subseteq {"rebase", "offset", "restart", "enabled"}
      /\ ~("rebase" \in todo[w] /\ "offset" \in todo[w])
      /\ reg[w].ti <= hostClock
      /\ "offset" \in todo[w] => reg[w].offset = mem.offset
      /\ "restart" \notin todo[w] => mem.restart = reg[w].ti
      /\ mem.enabled <=> "enabled" \notin todo[w]
      /\ IF "rebase" \in todo[w] \/ "offset" \in todo[w]
         THEN mem.offset >= 0
         ELSE mem.offset + reg[w].ti >= 0
  BY <1>1, <1>2 DEF WriterOK, AsStarting
<1>4. /\ Turn(w)' /\ todo'[w] = todo[w] \ {f}
      /\ \/ todo'[w] = {} /\ pc'[w] = "idle"
         \/ todo'[w] # {} /\ pc'[w] = pc[w] /\ reg'[w] = reg[w]
  BY <1>2, <1>f, AfterStore
<1>5. hostClock \in Nat /\ reg[w].ti \in Nat /\ mem.offset \in Int
  BY <1>2, GuestApart DEF Shape, Registers, Memory
<1>6. /\ mem'.tdf = mem.tdf /\ mem'.offset \in Int
      /\ "offset" \in todo'[w] => reg[w].offset = mem'.offset
      /\ "restart" \notin todo'[w] => mem'.restart = reg[w].ti
      /\ mem'.enabled <=> "enabled" \notin todo'[w]
      /\ IF "rebase" \in todo'[w] \/ "offset" \in todo'[w]
         THEN mem'.offset >= 0 /\ mem'.offset = mem.offset
         ELSE /\ mem'.offset + reg[w].ti >= 0
              /\ mem'.offset + reg[w].ti =
                   IF "rebase" \in todo[w] \/ "offset" \in todo[w]
                   THEN mem.offset ELSE mem.offset + reg[w].ti
  <2>1. CASE f = "offset"
    <3>1. mem' = [mem EXCEPT !.offset = mem.offset - reg[w].ti]
      BY <1>3, <1>f, <2>1
    <3>2. /\ mem'.tdf = mem.tdf /\ mem'.offset = mem.offset - reg[w].ti
          /\ mem'.restart = mem.restart /\ (mem'.enabled <=> mem.enabled)
      BY <1>2, <3>1 DEF Shape, Memory
    <3> QED
      BY <1>3, <1>4, <1>5, <2>1, <3>2
  <2>2. CASE f = "restart"
    <3>1. mem' = [mem EXCEPT !.restart = reg[w].ti]
      BY <1>f, <2>2
    <3>2. /\ mem'.tdf = mem.tdf /\ mem'.offset = mem.offset
          /\ mem'.restart = reg[w].ti /\ (mem'.enabled <=> mem.enabled)
      BY <1>2, <3>1 DEF Shape, Memory
    <3> QED
      BY <1>3, <1>4, <1>5, <2>2, <3>2
  <2>3. CASE f = "enabled"
    <3>1. mem' = [mem EXCEPT !.enabled = TRUE]
      BY <1>f, <2>3
    <3>2. /\ mem'.tdf = mem.tdf /\ mem'.offset = mem.offset
          /\ mem'.restart = mem.restart /\ mem'.enabled
      BY <1>2, <3>1 DEF Shape, Memory
    <3> QED
      BY <1>3, <1>4, <1>5, <2>3, <3>2
  <2> QED
    BY <1>3, <2>1, <2>2, <2>3
<1>7. BaseAt(w) = IF "rebase" \in todo[w] \/ "offset" \in todo[w]
                  THEN mem.offset ELSE mem.offset + reg[w].ti
  BY <1>1 DEF BaseAt
<1>8. RunAt(w) = hostClock - reg[w].ti /\ RunningAt(w)
  BY <1>1 DEF RunAt, RunningAt
<1>9. CASE todo'[w] = {} /\ pc'[w] = "idle"
  <2>1. /\ mem'.enabled /\ mem'.restart = reg[w].ti
        /\ mem'.offset + reg[w].ti >= 0
        /\ mem'.offset + reg[w].ti = BaseAt(w)
    BY <1>6, <1>7, <1>9
  <2>2. Settled'
    BY <1>1, <1>3, <1>5, <1>6, <2>1 DEF Settled
  <2>3. WriterOK(w)'
    BY <1>1, <1>3, <1>9, <2>2
    DEF WriterOK, AsIdle, AsTesting, AsLoading, AsStopping, AsStarttime, AsStarting
  <2>4. BaseAt(w)' = BaseAt(w)
    <3>1. BaseAt(w)' = mem'.restart + mem'.offset
      BY <1>9, <2>1 DEF BaseAt
    <3>2. mem'.restart = reg[w].ti /\ mem'.offset + reg[w].ti = BaseAt(w)
      BY <2>1
    <3>3. mem'.offset \in Int /\ reg[w].ti \in Int
      BY <1>5, <1>6
    <3> HIDE DEF BaseAt
    <3> QED
      BY <3>1, <3>2, <3>3
  <2>5. RunAt(w)' = RunAt(w) /\ RunningAt(w)'
    BY <1>1, <1>8, <1>9, <2>1 DEF RunAt, RunningAt
  <2>6. UNCHANGED Ideal!clock
    BY <1>2, <1>4, <1>6, <1>8, <2>4, <2>5, Unnoticed
  <2> QED
    BY <1>4, <2>3, <2>6 DEF Keeps
<1>10. CASE todo'[w] # {} /\ pc'[w] = pc[w] /\ reg'[w] = reg[w]
  <2>1. AsStarting(w)'
    BY <1>1, <1>3, <1>4, <1>6, <1>10 DEF AsStarting
  <2>2. WriterOK(w)'
    BY <1>1, <1>10, <2>1
    DEF WriterOK, AsIdle, AsTesting, AsLoading, AsStopping, AsStarttime
  <2>3. BaseAt(w)' = BaseAt(w)
    <3>1. BaseAt(w)' = IF "rebase" \in todo'[w] \/ "offset" \in todo'[w]
                       THEN mem'.offset ELSE mem'.offset + reg[w].ti
      <4>1. pc'[w] = "starting"
        BY <1>1, <1>10
      <4>2. BaseAt(w)' = IF "rebase" \in todo'[w] \/ "offset" \in todo'[w]
                         THEN mem'.offset ELSE mem'.offset + reg'[w].ti
        BY <4>1 DEF BaseAt
      <4> QED
        BY <1>10, <4>2
    <3>2. "rebase" \in todo'[w] \/ "offset" \in todo'[w]
          => "rebase" \in todo[w] \/ "offset" \in todo[w]
      BY <1>4
    <3> QED
      BY <1>6, <1>7, <3>1, <3>2
  <2>4. RunAt(w)' = RunAt(w) /\ RunningAt(w)'
    BY <1>1, <1>8, <1>10 DEF RunAt, RunningAt
  <2>5. UNCHANGED Ideal!clock
    BY <1>2, <1>4, <1>6, <1>8, <2>3, <2>4, Unnoticed
  <2> QED
    BY <1>4, <2>2, <2>5 DEF Keeps
<1> QED
  BY <1>4, <1>9, <1>10

-----------------------------------------------------------------------------
(***************************************************************************)
(* The steps of the guest                                                   *)
(***************************************************************************)

LEMMA BetweenCallsNext ==
  Shape' /\ WritersOK' /\ ~AtWork' =>
    /\ Settled'
    /\ Ideal!Now' = IF mem'.enabled THEN Dilated(mem', hostClock') ELSE mem'.offset
    /\ Ideal!Now' \in Nat
<1>1. (Shape /\ WritersOK /\ ~AtWork =>
        /\ Settled
        /\ Ideal!Now = IF mem.enabled THEN Dilated(mem, hostClock) ELSE mem.offset
        /\ Ideal!Now \in Nat)'
  <2>1. Shape /\ WritersOK /\ ~AtWork =>
          /\ Settled
          /\ Ideal!Now = IF mem.enabled THEN Dilated(mem, hostClock) ELSE mem.offset
          /\ Ideal!Now \in Nat
    BY BetweenCalls
  <2> QED
    BY <2>1, PTL
<1> QED
  BY <1>1

\* A clock that runs shows no less at a later time of the host.
LEMMA DilatedMonotone ==
  ASSUME NEW r, NEW s \in Nat, NEW t \in Nat, s <= t,
         r.restart \in Nat, r.offset \in Int, r.tdf \in Tdfs,
         r.restart + r.offset >= 0, r.restart <= s
  PROVE  Dilated(r, s) \in Nat /\ Dilated(r, t) \in Nat /\ Dilated(r, s) <= Dilated(r, t)
<1> DEFINE b == r.restart + r.offset
           j == s - r.restart
           k == t - r.restart
           m == (j * One) \div r.tdf
           n == (k * One) \div r.tdf
<1>1. b \in Nat /\ j \in Nat /\ k \in Nat /\ j <= k
  OBVIOUS
<1>2. /\ Dilated(r, s) = b + m /\ Dilated(r, s) \in Nat
      /\ Dilated(r, t) = b + n /\ Dilated(r, t) \in Nat
  BY RunningReading
<1> HIDE DEF b, j, k
<1>3. m \in Nat /\ n \in Nat /\ m <= n
  BY <1>1, Dilation, DilationMonotone
<1> HIDE DEF m, n
<1> QED
  BY <1>1, <1>2, <1>3

\* What the guest does keeps the turn, and shows nothing.
LEMMA GuestSteps ==
  ASSUME RaceInv, GuestCalls \/ ReadClock("guest")
  PROVE  /\ UNCHANGED <<hostClock, mem>>
         /\ WritersOK' /\ (AtWork' <=> AtWork)
         /\ UNCHANGED Ideal!clock
<1>0. "guest" \notin Writers /\ Writers \subseteq Threads
  BY GuestApart
<1>1. UNCHANGED <<hostClock, mem, phase>>
  BY DEF GuestCalls, ReadClock, Test, LoadStanding, GetClock, Load, Loaded
<1>2. \A w \in Writers : pc'[w] = pc[w] /\ todo'[w] = todo[w] /\ reg'[w] = reg[w]
  <2>1. Shape
    BY DEF RaceInv
  <2>2. CASE GuestCalls
    BY <1>0, <2>1, <2>2 DEF GuestCalls, GoTo, Shape
  <2>3. CASE Test("guest")
    BY <1>0, <2>1, <2>3 DEF Test, GoTo, Shape
  <2>4. CASE LoadStanding("guest")
    BY <1>0, <2>1, <2>4 DEF LoadStanding, GuestReturns, GoTo, Shape
  <2>5. CASE GetClock("guest")
    BY <1>0, <2>1, <2>5 DEF GetClock, GoTo, Shape
  <2>6. CASE Load("guest")
    BY <1>0, <2>1, <2>6 DEF Load, Shape
  <2>7. CASE Loaded("guest")
    BY <1>0, <2>1, <2>7 DEF Loaded, GuestReturns, GoTo, Shape
  <2> QED
    BY <2>2, <2>3, <2>4, <2>5, <2>6, <2>7 DEF ReadClock
<1>3. PICK w \in Writers : Turn(w) /\ WriterOK(w)
  BY DEF RaceInv, WritersOK
<1>4. Turn(w)'
  BY <1>2, <1>3 DEF Turn
<1>5. WriterOK(w)'
  BY <1>1, <1>2, <1>3
  DEF WriterOK, AsIdle, AsTesting, AsLoading, AsStopping, AsStarttime, AsStarting,
      Settled, StopsIn
<1>6. UNCHANGED Ideal!clock
  <2>1. BaseAt(w)' = BaseAt(w)
    BY <1>1, <1>2 DEF BaseAt, Dilated
  <2>2. RunAt(w)' = RunAt(w) /\ (RunningAt(w)' <=> RunningAt(w))
    BY <1>1, <1>2 DEF RunAt, RunningAt
  <2> QED
    BY <1>1, <1>3, <1>4, <2>1, <2>2, Unnoticed
<1>7. AtWork' <=> AtWork
  BY <1>2 DEF AtWork
<1> QED
  BY <1>1, <1>4, <1>5, <1>6, <1>7 DEF WritersOK

\* What an undisturbed call knows of the clock, and returns.
LEMMA GuestKeeps ==
  ASSUME RaceInv, GuestCalls \/ ReadClock("guest")
  PROVE  /\ GuestOK'
         /\ pc["guest"] # "idle" /\ pc'["guest"] = "idle" /\ ~disturbed
            => clockRead' \in since .. Ideal!Now
<1> DEFINE g == "guest"
<1>0. g \in Threads /\ g \notin Writers
  BY GuestApart
<1>1. /\ UNCHANGED <<hostClock, mem>> /\ (AtWork' <=> AtWork)
      /\ Ideal!Now' = Ideal!Now
  <2>1. UNCHANGED Ideal!clock
    BY GuestSteps
  <2>2. Ideal!Now' = Ideal!Now
    BY <2>1 DEF Ideal!clock, Ideal!Now
  <2> QED
    BY <2>2, GuestSteps
<1>2. /\ hostClock \in Nat /\ mem.restart \in Nat /\ mem.offset \in Int
      /\ mem.tdf \in Tdfs /\ reg[g] \in Registers /\ reg[g].ti \in Nat
      /\ pc \in [Threads -> Places] /\ reg \in [Threads -> Registers]
      /\ todo \in [Threads -> SUBSET {"offset", "restart", "enabled", "tdf", "rebase"}]
      /\ since \in Int
  BY <1>0 DEF RaceInv, Shape, Memory, Registers
<1>3. CASE GuestCalls
  <2>1. pc[g] = "idle" /\ pc'[g] = "test" /\ disturbed' = AtWork
    BY <1>0, <1>2, <1>3 DEF GuestCalls, GoTo
  <2>2. ~AtWork => since' = Ideal!Now /\ Ideal!Now \in Nat
    BY <1>3, BetweenCalls DEF GuestCalls, RaceInv
  <2>3. GuestOK'
    BY <1>1, <2>1, <2>2 DEF GuestOK
  <2> QED
    BY <2>1, <2>3
<1>4. ASSUME ReadClock(g), pc[g] # "idle", ~disturbed
      PROVE  /\ ~AtWork
             /\ Settled
             /\ Ideal!Now \in Nat /\ since <= Ideal!Now
             /\ Ideal!Now = IF mem.enabled THEN Dilated(mem, hostClock) ELSE mem.offset
             /\ pc[g] \in {"getclock", "loading"} => mem.enabled
             /\ pc[g] = "standing" => ~mem.enabled
             /\ pc[g] = "loading" =>
                  /\ mem.restart <= reg[g].ti /\ reg[g].ti <= hostClock
                  /\ since <= Dilated(mem, reg[g].ti)
                  /\ \A f \in Fields \ todo[g] : reg[g][f] = mem[f]
  BY <1>4, BetweenCalls DEF RaceInv, GuestOK
<1>5. CASE Test(g)
  <2>1. /\ pc[g] = "test" /\ pc'[g] = IF mem.enabled THEN "getclock" ELSE "standing"
        /\ UNCHANGED <<since, disturbed>>
    BY <1>0, <1>2, <1>5 DEF Test, GoTo, ghosts
  <2>2. ReadClock(g)
    BY <1>5 DEF ReadClock
  <2>3. GuestOK'
    BY <1>1, <1>4, <2>1, <2>2 DEF GuestOK
  <2> QED
    BY <2>1, <2>3
<1>6. CASE LoadStanding(g)
  <2>0. ReadClock(g) /\ pc[g] = "standing"
    BY <1>6 DEF ReadClock, LoadStanding
  <2>1. CASE GuestReturns(mem.offset)
    <3>1. pc'[g] = "idle" /\ clockRead' = mem.offset
      BY <1>0, <1>2, <2>1 DEF GuestReturns
    <3>2. GuestOK'
      BY <3>1 DEF GuestOK
    <3>3. ~disturbed => clockRead' \in since .. Ideal!Now
      BY <1>2, <1>4, <2>0, <3>1
    <3> QED
      BY <3>2, <3>3
  <2>2. CASE mem.enabled /\ GoTo(g, "standing", "getclock") /\ UNCHANGED ghosts
    <3>1. pc'[g] = "getclock" /\ UNCHANGED <<since, disturbed>>
      BY <1>0, <1>2, <2>2 DEF GoTo, ghosts
    <3>2. disturbed
      BY <1>4, <2>0, <2>2
    <3>3. GuestOK'
      BY <3>1, <3>2 DEF GuestOK
    <3> QED
      BY <3>1, <3>3
  <2> QED
    BY <1>6, <2>1, <2>2 DEF LoadStanding
<1>7. CASE GetClock(g)
  <2>1. /\ pc[g] = "getclock" /\ pc'[g] = "loading"
        /\ todo'[g] = Fields /\ reg'[g].ti = hostClock
        /\ UNCHANGED <<since, disturbed>>
    BY <1>0, <1>2, <1>7 DEF GetClock, GoTo, Registers, ghosts
  <2>2. ReadClock(g)
    BY <1>7 DEF ReadClock
  <2>3. ~disturbed => mem.restart <= hostClock /\ since <= Dilated(mem, hostClock)
    BY <1>4, <2>1, <2>2 DEF Settled
  <2>4. ~disturbed => ~AtWork /\ mem.enabled /\ since <= Ideal!Now
    BY <1>4, <2>1, <2>2
  <2>5. Dilated(mem', hostClock) = Dilated(mem, hostClock)
    BY <1>1
  <2>6. GuestOK'
    <3> SUFFICES ASSUME ~disturbed'
                 PROVE  /\ ~AtWork' /\ pc'[g] = "loading" /\ mem'.enabled
                        /\ since' <= Ideal!Now'
                        /\ mem'.restart <= reg'[g].ti /\ reg'[g].ti <= hostClock'
                        /\ since' <= Dilated(mem', reg'[g].ti)
                        /\ Fields \ todo'[g] = {}
      BY DEF GuestOK
    <3>1. ~disturbed /\ Dilated(mem', reg'[g].ti) = Dilated(mem, hostClock)
      BY <2>1, <2>5
    <3> QED
      BY <1>1, <1>2, <2>1, <2>3, <2>4, <3>1
  <2> QED
    BY <2>1, <2>6
<1>8. CASE Load(g)
  <2>f. PICK f \in todo[g] : /\ reg' = [reg EXCEPT ![g][f] = mem[f]]
                             /\ todo' = [todo EXCEPT ![g] = @ \ {f}]
    BY <1>8 DEF Load
  <2>0. ReadClock(g) /\ pc[g] = "loading" /\ pc' = pc /\ UNCHANGED <<since, disturbed>>
    BY <1>8 DEF ReadClock, Load, ghosts
  <2>1. reg'[g] = With(reg[g], mem, f) /\ todo'[g] = todo[g] \ {f}
    BY <1>0, <1>2, <2>f DEF With
  <2>2. ASSUME ~disturbed
        PROVE  /\ reg'[g].ti = reg[g].ti
               /\ \A h \in Fields \ todo'[g] : reg'[g][h] = mem[h]
    <3>1. CASE f \in Fields
      <4>1. mem \in Memory /\ reg[g] \in Registers
        BY <1>2 DEF RaceInv, Shape
      <4>2. With(reg[g], mem, f).ti = reg[g].ti
        BY <3>1, <4>1, LoadField
      <4>3. \A h \in Fields :
              With(reg[g], mem, f)[h] = IF h = f THEN mem[h] ELSE reg[g][h]
        BY <3>1, <4>1, LoadField
      <4>4. \A h \in Fields \ todo[g] : reg[g][h] = mem[h]
        BY <1>4, <2>0, <2>2
      <4> QED
        BY <2>1, <4>2, <4>3, <4>4
    <3>2. CASE f \notin Fields
      <4>1. f = "rebase"
        BY <1>0, <1>2, <3>2 DEF Fields
      <4>2. /\ With(reg[g], mem, f).ti = reg[g].ti
            /\ \A h \in Fields : With(reg[g], mem, f)[h] = reg[g][h]
        BY <1>2, <4>1 DEF With, Registers, Fields
      <4>3. \A h \in Fields \ todo[g] : reg[g][h] = mem[h]
        BY <1>4, <2>0, <2>2
      <4> QED
        BY <2>1, <3>2, <4>2, <4>3
    <3> QED
      BY <3>1, <3>2
  <2>3. ASSUME ~disturbed
        PROVE  /\ ~AtWork /\ mem.enabled /\ since <= Ideal!Now
               /\ mem.restart <= reg[g].ti /\ reg[g].ti <= hostClock
               /\ since <= Dilated(mem, reg[g].ti)
    BY <1>4, <2>0, <2>3
  <2>4. GuestOK'
    <3> SUFFICES ASSUME pc'[g] # "idle", ~disturbed'
                 PROVE  /\ ~AtWork' /\ pc'[g] = "loading" /\ mem'.enabled
                        /\ since' <= Ideal!Now'
                        /\ mem'.restart <= reg'[g].ti /\ reg'[g].ti <= hostClock'
                        /\ since' <= Dilated(mem', reg'[g].ti)
                        /\ \A h \in Fields \ todo'[g] : reg'[g][h] = mem'[h]
      BY DEF GuestOK
    <3>1. ~disturbed
      BY <2>0
    <3>2. Dilated(mem', reg'[g].ti) = Dilated(mem, reg[g].ti)
      BY <1>1, <2>2, <3>1
    <3> QED
      BY <1>1, <2>0, <2>2, <2>3, <3>1, <3>2
  <2> QED
    BY <2>0, <2>4
<1>9. CASE Loaded(g)
  <2>0. ReadClock(g) /\ pc[g] = "loading" /\ todo[g] = {}
    BY <1>9 DEF ReadClock, Loaded
  <2>1. ASSUME ~disturbed
        PROVE  /\ reg[g].enabled
               /\ Dilated(reg[g], reg[g].ti) \in since .. Ideal!Now
    <3>1. \A f \in Fields : reg[g][f] = mem[f]
      BY <1>4, <2>0, <2>1
    <3>2. /\ reg[g].enabled = mem.enabled /\ reg[g].offset = mem.offset
          /\ reg[g].restart = mem.restart /\ reg[g].tdf = mem.tdf
      BY <3>1 DEF Fields
    <3>3. Dilated(reg[g], reg[g].ti) = Dilated(mem, reg[g].ti)
      BY <3>2 DEF Dilated
    <3>4. /\ mem.enabled /\ mem.restart <= reg[g].ti /\ reg[g].ti <= hostClock
          /\ mem.restart + mem.offset >= 0
          /\ Ideal!Now = Dilated(mem, hostClock)
          /\ since <= Dilated(mem, reg[g].ti)
      BY <1>4, <2>0, <2>1 DEF Settled
    <3>5. /\ Dilated(mem, reg[g].ti) \in Nat /\ Dilated(mem, hostClock) \in Nat
          /\ Dilated(mem, reg[g].ti) <= Dilated(mem, hostClock)
      BY <1>2, <3>4, DilatedMonotone
    <3> QED
      BY <1>2, <3>2, <3>3, <3>4, <3>5
  <2>2. CASE GuestReturns(Dilated(reg[g], reg[g].ti))
    <3>1. pc'[g] = "idle" /\ clockRead' = Dilated(reg[g], reg[g].ti)
      BY <1>0, <1>2, <2>2 DEF GuestReturns
    <3>2. GuestOK'
      BY <3>1 DEF GuestOK
    <3> QED
      BY <2>1, <3>1, <3>2
  <2>3. CASE ~reg[g].enabled /\ UNCHANGED ghosts
             /\ \E to \in {"test", "standing"} : GoTo(g, "loading", to)
    <3>1. disturbed' = disturbed /\ disturbed
      BY <2>1, <2>3 DEF ghosts
    <3>2. GuestOK'
      BY <3>1 DEF GuestOK
    <3> QED
      BY <3>1, <3>2
  <2> QED
    BY <1>9, <2>2, <2>3 DEF Loaded
<1> QED
  BY <1>3, <1>5, <1>6, <1>7, <1>8, <1>9 DEF ReadClock

\* Host time that passes during a call only moves the promised clock on.
LEMMA AdvanceKeepsGuest ==
  ASSUME RaceInv, HostAdvance, Shape', WritersOK'
  PROVE  GuestOK'
<1> SUFFICES ASSUME pc'["guest"] # "idle", ~disturbed'
             PROVE  GuestOK'
  BY DEF GuestOK
<1>1. GuestOK /\ pc["guest"] # "idle" /\ ~disturbed /\ Shape /\ WritersOK
  BY DEF RaceInv, HostAdvance, ghosts
<1>2. ~AtWork /\ ~AtWork'
  BY <1>1 DEF HostAdvance, GuestOK, AtWork
<1>3. /\ Settled
      /\ Ideal!Now = IF mem.enabled THEN Dilated(mem, hostClock) ELSE mem.offset
      /\ Ideal!Now \in Nat
  BY <1>1, <1>2, BetweenCalls
<1>4. /\ Ideal!Now' = IF mem'.enabled THEN Dilated(mem', hostClock') ELSE mem'.offset
      /\ Ideal!Now' \in Nat
  BY <1>2, BetweenCallsNext
<1>5. /\ hostClock \in Nat /\ hostClock' = hostClock + 1 /\ mem' = mem
      /\ mem.restart \in Nat /\ mem.offset \in Int /\ mem.tdf \in Tdfs
      /\ since \in Int /\ "guest" \in Threads /\ reg["guest"].ti \in Nat
  BY <1>1, GuestApart DEF HostAdvance, Shape, Memory, Registers
<1>6. Ideal!Now <= Ideal!Now'
  <2>1. CASE mem.enabled
    <3>1. Dilated(mem, hostClock) <= Dilated(mem, hostClock')
      <4>1. hostClock' \in Nat /\ hostClock <= hostClock'
        BY <1>5
      <4> QED
        BY <1>3, <1>5, <2>1, <4>1, DilatedMonotone DEF Settled
    <3>2. Dilated(mem', hostClock') = Dilated(mem, hostClock')
      BY <1>5
    <3> QED
      BY <1>3, <1>4, <1>5, <2>1, <3>1, <3>2
  <2>2. CASE ~mem.enabled
    BY <1>3, <1>4, <1>5, <2>2
  <2> QED
    BY <2>1, <2>2
<1>7. since' <= Ideal!Now'
  BY <1>1, <1>3, <1>4, <1>5, <1>6 DEF GuestOK, HostAdvance, ghosts
<1>8. Dilated(mem', reg'["guest"].ti) = Dilated(mem, reg["guest"].ti)
  BY DEF Dilated, HostAdvance
<1> QED
  BY <1>1, <1>2, <1>5, <1>7, <1>8 DEF GuestOK, HostAdvance, ghosts

-----------------------------------------------------------------------------
(***************************************************************************)
(* The theorems                                                             *)
(***************************************************************************)

LEMMA RaceInvInit == Init => RaceInv
<1> SUFFICES ASSUME Init PROVE RaceInv
  OBVIOUS
<1>1. Shape
  BY ShapeInit
<1>2. /\ \A p \in Threads : pc[p] = "idle"
      /\ mem.offset = Epoch /\ mem.enabled = FALSE /\ phase = "start"
  BY DEF Init
<1>3. Settled
  BY <1>2, RaceAssumption DEF Settled
<1>4. Turn("VT") /\ WriterOK("VT") /\ "VT" \in Writers
  BY <1>2, <1>3, GuestApart
  DEF Turn, WriterOK, AsIdle, AsTesting, AsLoading, AsStopping, AsStarttime, AsStarting
<1>5. GuestOK
  BY <1>2, GuestApart DEF GuestOK
<1> QED
  BY <1>1, <1>4, <1>5 DEF RaceInv, WritersOK

\* A call disturbs the guest's.
LEMMA DisturbedGuest ==
  ASSUME Disturbs, pc'["guest"] = pc["guest"]
  PROVE  GuestOK'
BY DEF Disturbs, GuestOK

\* Each step keeps the invariant and is a step of the promised clock, or does
\* not touch it.
LEMMA RaceStep ==
  ASSUME RaceInv, [Next]_vars, ~Overlap
  PROVE  RaceInv' /\ [Ideal!Next]_Ideal!clock
<1>1. Shape' /\ Shape /\ pc \in [Threads -> Places]
  BY ShapeStep DEF RaceInv, Shape
<1>0. /\ "guest" \notin Writers /\ "guest" \in Threads /\ "VT" \in Writers
      /\ Writers \subseteq {"VT", "io"} /\ Writers \subseteq Threads
  BY GuestApart, RaceAssumption
<1>2. CASE HostAdvance
  <2>1. PICK w \in Writers : Turn(w) /\ WriterOK(w)
    BY DEF RaceInv, WritersOK
  <2>2. Keeps(w)
    BY <1>2, <2>1, AdvanceKeeps
  <2>3. WritersOK' /\ [Ideal!Next]_Ideal!clock
    BY <2>2 DEF Keeps, WritersOK
  <2>4. GuestOK'
    BY <1>1, <1>2, <2>3, AdvanceKeepsGuest
  <2> QED
    BY <1>1, <2>3, <2>4 DEF RaceInv
<1>3. CASE VTCalls
  <2>1. Keeps("VT")
    <3>1. \/ Disable("VT") /\ StopsIn("VT")'
          \/ Enable("VT") /\ phase # "wait" /\ phase' = "wait"
      BY <1>3 DEF VTCalls, StopsIn
    <3> QED
      BY <1>0, <3>1, CallKeeps
  <2>2. GuestOK'
    <3>1. Disturbs /\ pc'["guest"] = pc["guest"]
      BY <1>0, <1>1, <1>3 DEF VTCalls, Enable, Disable, GoTo
    <3> QED
      BY <3>1, DisturbedGuest
  <2> QED
    BY <1>0, <1>1, <2>1, <2>2 DEF Keeps, WritersOK, RaceInv
<1>4. CASE IOCalls
  <2>0. "io" \in Writers /\ Disable("io") /\ phase' = phase
    BY <1>4 DEF IOCalls
  <2>1. Disturbs /\ pc'["guest"] = pc["guest"]
    BY <1>0, <1>1, <2>0 DEF Disable, GoTo
  <2>2. GuestOK'
    BY <2>1, DisturbedGuest
  <2>3. CASE phase = "wait"
    <3>1. Keeps("io")
      BY <2>0, <2>3, CallKeeps DEF StopsIn
    <3> QED
      BY <1>1, <2>0, <2>2, <3>1 DEF Keeps, WritersOK, RaceInv
  <2>4. CASE phase # "wait"
    <3>1. ~AtWork
      BY <2>0 DEF Disable, MayCall
    <3>2. Turn("VT") /\ WriterOK("VT") /\ pc["VT"] = "idle"
      BY <1>0, <3>1, BetweenCalls DEF RaceInv, AtWork
    <3>3. ~mem.enabled
      BY <2>4, <3>2 DEF WriterOK, AsIdle
    <3>4. UNCHANGED <<hostClock, mem, pc, todo, reg, phase>>
      BY <2>0, <3>3 DEF Disable
    <3>5. Turn("VT")' /\ WriterOK("VT")'
      BY <3>2, <3>4
      DEF Turn, WriterOK, AsIdle, AsTesting, AsLoading, AsStopping, AsStarttime,
          AsStarting, Settled, StopsIn
    <3>6. UNCHANGED Ideal!clock
      BY <1>0, <3>2, <3>4, <3>5, Unnoticed DEF BaseAt, RunAt, RunningAt
    <3> QED
      BY <1>0, <1>1, <2>2, <3>5, <3>6 DEF WritersOK, RaceInv
  <2> QED
    BY <2>3, <2>4
<1>5. CASE VTSetTdf
  <2>1. Keeps("VT")
    BY <1>5, RetuneKeeps
  <2>2. GuestOK'
    <3>1. Disturbs /\ pc'["guest"] = pc["guest"]
      BY <1>5 DEF VTSetTdf
    <3> QED
      BY <3>1, DisturbedGuest
  <2> QED
    BY <1>0, <1>1, <2>1, <2>2 DEF Keeps, WritersOK, RaceInv
<1>6. CASE GuestCalls \/ ReadClock("guest")
  <2>1. WritersOK' /\ UNCHANGED Ideal!clock
    BY <1>6, GuestSteps
  <2>2. GuestOK'
    BY <1>6, GuestKeeps
  <2> QED
    BY <1>1, <2>1, <2>2 DEF RaceInv
<1>7. CASE \E w \in Writers : ReadClock(w) \/ WriteClock(w)
  <2>1. PICK w \in Writers : ReadClock(w) \/ WriteClock(w)
    BY <1>7
  <2>2. Keeps(w)
    BY <2>1, WriterReadKeeps, StopKeeps, StartTimeKeeps, LoadRebaseKeeps, StartKeeps
    DEF WriteClock
  <2>3. AtWork
    BY <2>1 DEF ReadClock, WriteClock, Test, LoadStanding, GetClock, Load, Loaded,
                StoreStopped, StartTime, LoadRebase, StoreStarted, GoTo, AtWork
  <2>4. pc'["guest"] = pc["guest"] /\ disturbed' = disturbed
    <3>1. w # "guest" /\ w \in Threads
      BY <1>0
    <3>2. CASE ReadClock(w)
      BY <1>0, <1>1, <3>1, <3>2
      DEF ReadClock, Test, LoadStanding, GetClock, Load, Loaded, WriterComputed, GoTo,
          ghosts
    <3>3. CASE WriteClock(w)
      BY <1>0, <1>1, <3>1, <3>3
      DEF WriteClock, StoreStopped, StartTime, LoadRebase, StoreStarted, Stored, GoTo,
          ghosts
    <3> QED
      BY <2>1, <3>2, <3>3
  <2>5. GuestOK'
    BY <2>3, <2>4 DEF RaceInv, GuestOK
  <2> QED
    BY <1>1, <2>2, <2>5 DEF Keeps, WritersOK, RaceInv
<1>8. CASE UNCHANGED vars
  <2>1. UNCHANGED <<hostClock, mem, pc, todo, reg, phase, since, disturbed>>
    BY <1>8 DEF vars, ghosts
  <2>2. UNCHANGED Ideal!clock
    BY <2>1 DEF Ideal!clock, Base, Run, Running, Started, Stopped, Starter, Stopper,
                Dilated
  <2>3. WritersOK'
    BY <2>1 DEF RaceInv, WritersOK, Turn, WriterOK, AsIdle, AsTesting, AsLoading,
                AsStopping, AsStarttime, AsStarting, Settled, StopsIn
  <2>4. Ideal!Now' = Ideal!Now /\ (AtWork' <=> AtWork)
    BY <2>1, <2>2 DEF Ideal!clock, Ideal!Now, AtWork
  <2>5. GuestOK'
    BY <2>1, <2>4 DEF RaceInv, GuestOK, Dilated
  <2> QED
    BY <1>1, <2>2, <2>3, <2>5 DEF RaceInv
<1> QED
  BY <1>2, <1>3, <1>4, <1>5, <1>6, <1>7, <1>8 DEF Next, Threads

\* Where each thread is in the clock's functions, what it holds there, and what
\* the fields hold meanwhile.
THEOREM RaceInvariant ==
  ASSUME ~Overlap
  PROVE  Spec => []RaceInv
<1>1. RaceInv /\ [Next]_vars => RaceInv'
  BY RaceStep
<1> QED
  BY <1>1, RaceInvInit, PTL DEF Spec

\* When the writers' calls do not overlap, then for every order in which their
\* loads and stores take effect, any factors and any pace of the host, the clock
\* is the promised one: it stops and starts without moving.
THEOREM RaceRefinement ==
  ASSUME ~Overlap
  PROVE  Spec => ImplementsVirtualClock
<1>1. Init => Ideal!Init
  <2> SUFFICES ASSUME Init PROVE Ideal!Init
    OBVIOUS
  <2>1. \A p \in Writers : pc[p] = "idle"
    BY GuestApart DEF Init
  <2>2. ~Started /\ ~Stopped /\ mem.offset = Epoch /\ mem.enabled = FALSE /\ mem.tdf = One
    BY <2>1 DEF Init, Started, Stopped
  <2>3. Running = FALSE
    BY <2>2 DEF Running
  <2> QED
    BY <2>2, <2>3 DEF Ideal!Init, Base, Run
<1>2. RaceInv /\ [Next]_vars => RaceInv' /\ [Ideal!Next]_Ideal!clock
  BY RaceStep
<1> QED
  BY <1>1, <1>2, RaceInvInit, PTL DEF Spec, ImplementsVirtualClock, Ideal!Spec

\* ... and a call of cpu_get_clock that overlaps no writer's returns a time
\* between the promised clock's at its call and at its return, in whatever
\* order its loads are done.
THEOREM QuietReads ==
  ASSUME ~Overlap
  PROVE  Spec => QuietReadsAreRight
<1>1. RaceInv /\ [Next]_vars =>
        [(pc["guest"] # "idle" /\ pc'["guest"] = "idle" /\ ~disturbed)
         => clockRead' \in since .. Ideal!Now]_vars
  <2> SUFFICES ASSUME RaceInv, Next, pc["guest"] # "idle", pc'["guest"] = "idle", ~disturbed
               PROVE  clockRead' \in since .. Ideal!Now
    BY Zenon
  <2>1. "guest" \in Threads /\ "guest" \notin Writers /\ Writers \subseteq Threads
        /\ pc \in [Threads -> Places] /\ "VT" \in Writers
    BY GuestApart DEF RaceInv, Shape
  <2>2. ~(HostAdvance \/ VTSetTdf)
    BY DEF HostAdvance, VTSetTdf
  <2>3. ~VTCalls /\ ~IOCalls
    BY <2>1 DEF VTCalls, IOCalls, Enable, Disable, GoTo
  <2>4. ASSUME NEW w \in Writers, ReadClock(w) \/ WriteClock(w)
        PROVE  FALSE
    <3>1. AtWork
      BY <2>4 DEF ReadClock, WriteClock, Test, LoadStanding, GetClock, Load, Loaded,
                  StoreStopped, StartTime, LoadRebase, StoreStarted, GoTo, AtWork
    <3> QED
      BY <3>1 DEF RaceInv, GuestOK
  <2>5. GuestCalls \/ ReadClock("guest")
    BY <2>2, <2>3, <2>4 DEF Next, Threads
  <2> QED
    BY <2>5, GuestKeeps
<1> QED
  BY <1>1, RaceInvariant, PTL DEF Spec, QuietReadsAreRight
=============================================================================
