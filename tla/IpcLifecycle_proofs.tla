------------------------ MODULE IpcLifecycle_proofs -------------------------
(***************************************************************************)
(* Proofs about IpcLifecycle, for any agents, guests and factors, and any    *)
(* number of starts, crashes and failed system calls.                       *)
(*                                                                          *)
(* Inv, the inductive invariant, has a part per subject: where a process is *)
(* (Placed), what it holds there (Attached), how many objects were made     *)
(* (Counted), who serves the port (Served); and, while no agent was started *)
(* next to another: that one is alive at most (Alone), that its objects are *)
(* those the keys name (Owned...), that the clock stands while its factor   *)
(* changes (Standing), and what the objects of guests have in common with   *)
(* those of the keys (Shared).                                              *)
(***************************************************************************)
EXTENDS IpcLifecycle, FiniteSetTheorems, TLAPS

Processes == Agents \cup Guests

Typed ==
  /\ bound \in [Keys -> Nat] /\ made \in [Keys -> Nat]
  /\ \A k \in Keys : bound[k] <= made[k]
  /\ ticks \in [Objects -> BOOLEAN]
  /\ tdf \in [Objects -> Tdfs]
  /\ gostop \in [Objects -> {"GO", "STOP", "gone"}]
  /\ holds \in [Processes -> [Keys -> Nat]]
  /\ starts \in 0..MaxStarts /\ failures \in 0..MaxFailures
  /\ rival \in BOOLEAN /\ torn \in BOOLEAN
  /\ asked \in {"none", "suspend", "resume"}

AgentPlace ==
  [pc : {"off", "create", "init", "bind", "begin", "run", "stopped", "set", "remove"},
   i : 0..4]

\* The program counters: a place and, in a loop over the keys, which one is next.
Placed ==
  /\ agent \in [Agents -> AgentPlace]
  /\ guest \in [Guests -> [pc : {"off", "attach", "on"}, i : 0..4]]
  /\ \A a \in Agents :
       /\ agent[a].pc = "create" => agent[a].i \in 1..4
       /\ agent[a].pc = "remove" => agent[a].i \in 1..3
       /\ agent[a].pc \notin {"create", "init", "remove"} => agent[a].i = 0
  /\ \A g \in Guests : guest[g].pc = "attach" => guest[g].i \in 1..4

\* Whether a process at place p has been given the j-th object.
Has(p, j) == IF p.pc \in {"create", "attach"} THEN j < p.i ELSE p.pc # "off"

\* It holds one then, and none that was not made.
Attached ==
  /\ \A p \in Processes, k \in Keys : holds[p][k] <= made[k]
  /\ \A a \in Agents, j \in 1..4 : Has(agent[a], j) => holds[a][KeyAt[j]] # 0
  /\ \A g \in Guests, j \in 1..4 : Has(guest[g], j) => holds[g][KeyAt[j]] # 0
  /\ \A a \in Agents : agent[a].pc = "off" => holds[a] = NoObjects

\* The agents that may still make an object for the j-th key.
Makers(j) == {a \in Agents : agent[a].pc = "create" /\ agent[a].i <= j}

\* Each start of an agent makes one object per key at most.
Counted ==
  \A j \in 1..4 : /\ IsFiniteSet(Makers(j))
                  /\ made[KeyAt[j]] + Cardinality(Makers(j)) <= starts

\* The agents that run are those that listen: one, or none.
Served ==
  /\ port = {a \in Agents : Runs(a)}
  /\ \A a, b \in port : a = b

\* Without a rival, one agent lives at most.
Alone ==
  ~rival => \A a, b \in Agents : agent[a].pc # "off" /\ agent[b].pc # "off" => a = b

\* ... and the keys name its objects, except for those it has removed.
Owning ==
  ~rival => \A a \in Agents :
    /\ agent[a].pc # "remove" =>
         \A j \in 1..4 : Has(agent[a], j) => holds[a][KeyAt[j]] = bound[KeyAt[j]]
    /\ agent[a].pc = "remove" =>
         \A j \in 1..3 : bound[RemovedAt[j]] = IF j < agent[a].i THEN 0 ELSE holds[a][RemovedAt[j]]

\* ... and its clock stands when it is about to write the factor, unless
\* Protocol 31 has started it since the cycle's stop.
Standing ==
  ~rival => \A a \in Agents :
      \/ agent[a].pc = "stopped" /\ asked # "resume"
      \/ agent[a].pc = "init" /\ agent[a].i = 1
    => ~ticks[holds[a]["timers"]]

\* An agent has begun to remove its objects.
Removing == \E a \in Agents : agent[a].pc = "remove" /\ agent[a].i > 1

\* ... and a guest that attaches finds all its objects under their keys.  Later,
\* they are all still there, or a removal goes on, or has left it with a
\* semaphore that no key names any more.
Shared ==
  ~rival /\ ~torn => \A g \in Guests :
    /\ Attaching(g) =>
         \A j \in 1..4 : Has(guest[g], j) => holds[g][KeyAt[j]] = bound[KeyAt[j]]
    /\ On(g) => \/ \A k \in Owned : holds[g][k] = bound[k]
                \/ Removing
                \/ holds[g]["sem"] # bound["sem"]

Inv ==
  /\ Typed /\ Placed /\ Attached /\ Counted /\ Served
  /\ Alone /\ Owning /\ Standing /\ Shared

-----------------------------------------------------------------------------
LEMMA KeyFacts ==
  /\ KeyAt[1] = "timers" /\ KeyAt[2] = "tdf" /\ KeyAt[3] = "sim" /\ KeyAt[4] = "sem"
  /\ RemovedAt[1] = "timers" /\ RemovedAt[2] = "tdf" /\ RemovedAt[3] = "sem"
  /\ \A j \in 1..4 : KeyAt[j] \in Keys
  /\ \A j \in 1..3 : RemovedAt[j] \in Owned
  /\ \A k \in Keys : \E j \in 1..4 : KeyAt[j] = k
  /\ Owned \subseteq Keys
<1>1. /\ KeyAt[1] = "timers" /\ KeyAt[2] = "tdf" /\ KeyAt[3] = "sim" /\ KeyAt[4] = "sem"
      /\ RemovedAt[1] = "timers" /\ RemovedAt[2] = "tdf" /\ RemovedAt[3] = "sem"
  BY DEF KeyAt, RemovedAt
<1> QED
  BY <1>1 DEF Keys, Owned

LEMMA DifferentKeys == \A i, j \in 1..4 : KeyAt[i] = KeyAt[j] => i = j
BY KeyFacts

LEMMA InitInv == Init => Inv
<1> SUFFICES ASSUME Init PROVE Inv
  OBVIOUS
<1>1. Typed
  <2>1. rival \in BOOLEAN /\ torn \in BOOLEAN /\ ticks \in [Objects -> BOOLEAN]
    BY Zenon DEF Init
  <2>2. MaxStarts \in Nat /\ MaxFailures \in Nat
    BY IpcAssumption
  <2>3. NoObjects \in [Keys -> Nat]
    BY DEF NoObjects
  <2> QED
    BY <2>1, <2>2, <2>3, IpcAssumption DEF Init, Typed, Processes
<1>2. Placed
  BY DEF Init, Placed, AgentPlace, Off, At
<1>3. \A a \in Agents : agent[a].pc = "off"
  BY DEF Init, Off, At
<1>4. \A g \in Guests : guest[g].pc = "off"
  BY DEF Init, Off, At
<1>5. Attached
  BY <1>3, <1>4 DEF Init, Attached, Has, NoObjects, Processes, Keys
<1>6. Counted
  <2>1. \A j \in 1..4 : Makers(j) = {}
    BY <1>3 DEF Makers
  <2> QED
    BY <2>1, FS_EmptySet, KeyFacts DEF Init, Counted, NoObjects
<1>7. Served
  BY <1>3 DEF Init, Served, Runs
<1>8. Alone /\ Owning /\ Standing
  BY <1>3 DEF Alone, Owning, Standing, Has
<1>9. Shared
  BY <1>4 DEF Shared, Attaching, On
<1> QED
  BY <1>1, <1>2, <1>5, <1>6, <1>7, <1>8, <1>9 DEF Inv

-----------------------------------------------------------------------------
(***************************************************************************)
(* What the steps have in common                                            *)
(***************************************************************************)

\* The places of an agent that holds all objects and removes none.
Settled == {"init", "bind", "begin", "run", "stopped", "set"}

\* No more objects are made for a key than agents are started.
LEMMA MadeBounded == Inv => \A k \in Keys : made[k] <= MaxStarts
<1> SUFFICES ASSUME Inv, NEW k \in Keys PROVE made[k] <= MaxStarts
  OBVIOUS
<1>1. PICK j \in 1..4 : KeyAt[j] = k
  BY KeyFacts
<1>2. IsFiniteSet(Makers(j)) /\ made[k] + Cardinality(Makers(j)) <= starts
  BY <1>1 DEF Inv, Counted
<1>3. Cardinality(Makers(j)) \in Nat
  BY <1>2, FS_CardinalityType
<1>4. made[k] \in Nat /\ starts \in 0..MaxStarts /\ MaxStarts \in Nat
  BY IpcAssumption DEF Inv, Typed
<1> QED
  BY <1>2, <1>3, <1>4

\* What an agent holds is an object.
LEMMA AgentsObjects ==
  ASSUME Inv, NEW a \in Agents, NEW k \in Keys, agent[a].pc \in Settled \cup {"remove"}
  PROVE  holds[a][k] \in Objects
<1>1. PICK j \in 1..4 : KeyAt[j] = k
  BY KeyFacts
<1>2. Has(agent[a], j)
  BY DEF Has, Settled
<1>3. /\ holds[a][k] # 0 /\ holds[a][k] \in Nat
      /\ holds[a][k] <= made[k] /\ made[k] \in Nat /\ made[k] <= MaxStarts
  BY <1>1, <1>2, MadeBounded DEF Inv, Attached, Typed, Processes
<1> QED
  BY <1>3, IpcAssumption DEF Objects

\* A step from one of them to another, or to the removal, leaves keys and
\* holdings as they are related.
LEMMA SettledStep ==
  ASSUME Inv, NEW a \in Agents, NEW from, NEW to, AgentGoes(a, from, to),
         from.pc \in Settled, to.pc \in Settled \/ to = At("remove", 1),
         UNCHANGED <<bound, made, guest, holds, starts, rival, torn>>
  PROVE  Attached' /\ Counted' /\ Alone' /\ Owning' /\ Shared'
<1> USE DEF Settled
<1>0. to.pc \in Settled \/ (to.pc = "remove" /\ to.i = 1)
  BY DEF At
<1>1. /\ agent[a] = from /\ agent' = [agent EXCEPT ![a] = to]
      /\ UNCHANGED <<bound, made, guest, holds, starts, rival, torn>>
      /\ agent \in [Agents -> AgentPlace]
  BY DEF AgentGoes, Inv, Placed
<1>2. \A b \in Agents : agent'[b] = IF b = a THEN to ELSE agent[b]
  BY <1>1
<1>3. \A b \in Agents, j \in 1..4 : Has(agent'[b], j) <=> Has(agent[b], j)
  BY <1>0, <1>1, <1>2 DEF Has
<1>4. \A b \in Agents : (agent[b].pc = "off" <=> agent'[b].pc = "off")
  BY <1>0, <1>1, <1>2
<1>5. Attached'
  BY <1>1, <1>3, <1>4 DEF Inv, Attached
<1>6. \A j \in 1..4 : Makers(j)' = Makers(j)
  BY <1>0, <1>1, <1>2 DEF Makers
<1>7. Counted'
  BY <1>1, <1>6 DEF Inv, Counted
<1>8. Alone'
  BY <1>1, <1>4 DEF Inv, Alone
<1>9. Owning'
  <2>1. CASE to.pc \in Settled
    BY <1>1, <1>2, <1>3, <2>1 DEF Inv, Owning
  <2>2. CASE to.pc = "remove" /\ to.i = 1
    <3>1. ~rival => \A j \in 1..4 : holds[a][KeyAt[j]] = bound[KeyAt[j]]
      BY <1>1 DEF Inv, Owning, Has
    <3>2. ~rival => \A j \in 1..3 : bound[RemovedAt[j]] = holds[a][RemovedAt[j]]
      BY <3>1, KeyFacts
    <3> QED
      BY <1>1, <1>2, <1>3, <2>2, <3>2 DEF Inv, Owning
  <2> QED
    BY <1>0, <2>1, <2>2
<1>10. Removing' <=> Removing
  BY <1>0, <1>1, <1>2 DEF Removing
<1>11. Shared'
  BY <1>1, <1>10 DEF Inv, Shared, Attaching, On
<1> QED
  BY <1>5, <1>7, <1>8, <1>9, <1>11

\* An agent that is gone leaves the keys to the next one.
LEMMA GoneStep ==
  ASSUME Inv, NEW a \in Agents, agent' = [agent EXCEPT ![a] = Off],
         holds' = [holds EXCEPT ![a] = NoObjects], port' = port \ {a},
         UNCHANGED <<bound, made, guest, starts, rival>>,
         torn' = (torn \/ (agent[a].pc = "remove" /\ agent[a].i > 1)),
         gostop' = gostop, tdf' = tdf, failures' \in 0..MaxFailures,
         ticks' \in [Objects -> BOOLEAN], asked' \in {"none", "suspend", "resume"}
  PROVE  /\ Typed' /\ Placed' /\ Attached' /\ Counted'
         /\ Served' /\ Alone' /\ Owning' /\ Shared'
<1>1. /\ agent \in [Agents -> AgentPlace]
      /\ holds \in [Processes -> [Keys -> Nat]]
      /\ a \in Processes /\ Off.pc = "off" /\ Off.i = 0
  BY DEF Inv, Typed, Placed, Processes, Off, At
<1>2. \A b \in Agents : agent'[b] = IF b = a THEN Off ELSE agent[b]
  BY <1>1
<1>3. \A p \in Processes : holds'[p] = IF p = a THEN NoObjects ELSE holds[p]
  BY <1>1
<1>4. \A g \in Guests : holds'[g] = holds[g]
  BY <1>3, IpcAssumption DEF Processes
<1>5. NoObjects \in [Keys -> Nat] /\ \A k \in Keys : NoObjects[k] = 0
  BY DEF NoObjects
<1>6. Typed'
  <2>1. torn' \in BOOLEAN
    BY Zenon DEF Inv, Typed
  <2> QED
    BY <2>1, <1>1, <1>3, <1>5 DEF Inv, Typed
<1>7. Placed'
  BY <1>1, <1>2 DEF Inv, Placed, AgentPlace, Off, At
<1>8. Attached'
  <2>1. \A p \in Processes, k \in Keys : holds'[p][k] <= made'[k]
    BY <1>3, <1>5 DEF Inv, Attached, Typed
  <2>2. \A b \in Agents, j \in 1..4 : Has(agent'[b], j) => holds'[b][KeyAt[j]] # 0
    BY <1>1, <1>2, <1>3 DEF Inv, Attached, Has, Processes
  <2>3. \A g \in Guests, j \in 1..4 : Has(guest'[g], j) => holds'[g][KeyAt[j]] # 0
    BY <1>4 DEF Inv, Attached
  <2>4. \A b \in Agents : agent'[b].pc = "off" => holds'[b] = NoObjects
    BY <1>2, <1>3 DEF Inv, Attached, Processes
  <2> QED
    BY <2>1, <2>2, <2>3, <2>4 DEF Attached
<1>9. Counted'
  <2> SUFFICES ASSUME NEW j \in 1..4
               PROVE  /\ IsFiniteSet(Makers(j)')
                      /\ made'[KeyAt[j]] + Cardinality(Makers(j)') <= starts'
    BY DEF Counted
  <2>1. Makers(j)' \subseteq Makers(j)
    BY <1>1, <1>2 DEF Makers
  <2>2. IsFiniteSet(Makers(j)) /\ made[KeyAt[j]] + Cardinality(Makers(j)) <= starts
    BY DEF Inv, Counted
  <2>3. /\ IsFiniteSet(Makers(j)') /\ Cardinality(Makers(j)') <= Cardinality(Makers(j))
        /\ Cardinality(Makers(j)) \in Nat /\ Cardinality(Makers(j)') \in Nat
    BY <2>1, <2>2, FS_Subset, FS_CardinalityType
  <2> QED
    BY <2>2, <2>3, KeyFacts DEF Inv, Typed
<1>10. Served'
  <2>1. \A b \in Agents : Runs(b)' <=> Runs(b) /\ b # a
    BY <1>1, <1>2 DEF Runs
  <2> QED
    BY <2>1 DEF Inv, Served
<1>11. Alone'
  BY <1>1, <1>2 DEF Inv, Alone
<1>12. Owning'
  <2>1. \A b \in Agents : b # a => agent'[b] = agent[b] /\ holds'[b] = holds[b]
    BY <1>2, <1>3 DEF Processes
  <2> QED
    BY <1>1, <1>2, <2>1 DEF Inv, Owning, Has
<1>13. Shared'
  <2>1. ~torn' => (Removing => Removing')
    BY <1>1, <1>2 DEF Removing
  <2>2. ~rival' /\ ~torn' => ~rival /\ ~torn
    OBVIOUS
  <2>3. \A g \in Guests : (Attaching(g)' <=> Attaching(g)) /\ (On(g)' <=> On(g))
    BY DEF Attaching, On
  <2>4. \A g \in Guests, k \in Keys : holds'[g][k] = holds[g][k] /\ bound'[k] = bound[k]
    BY <1>4
  <2> QED
    BY <2>1, <2>2, <2>3, <2>4, KeyFacts DEF Inv, Shared
<1> QED
  BY <1>6, <1>7, <1>8, <1>9, <1>10, <1>11, <1>12, <1>13

-----------------------------------------------------------------------------
(***************************************************************************)
(* The steps of an agent                                                    *)
(***************************************************************************)
LEMMA StartStep ==
  ASSUME Inv, NEW a \in Agents, Start(a)
  PROVE  Inv'
<1>1. /\ agent \in [Agents -> AgentPlace]
      /\ agent[a].pc = "off" /\ agent' = [agent EXCEPT ![a] = At("create", 1)]
      /\ At("create", 1).pc = "create" /\ At("create", 1).i = 1
      /\ UNCHANGED <<bound, made, ticks, tdf, gostop, guest, holds, port, failures, torn, asked>>
      /\ starts \in Nat /\ starts < MaxStarts /\ starts' = starts + 1
  BY IpcAssumption DEF Start, AgentGoes, ipc, Inv, Placed, Typed, Off, At
<1>2. \A b \in Agents : agent'[b] = IF b = a THEN At("create", 1) ELSE agent[b]
  BY <1>1
<1>3. rival' \in BOOLEAN /\ (~rival' => ~rival /\ \A b \in Agents : agent[b].pc = "off")
  <2>1. rival' = (rival \/ \E b \in Agents : agent[b] # Off)
    BY DEF Start
  <2>2. rival' \in BOOLEAN
    BY <2>1, Zenon
  <2>3. ~rival' => ~rival /\ \A b \in Agents : agent[b] = Off
    BY <2>1, Zenon
  <2> QED
    BY <2>2, <2>3 DEF Off, At
<1>4. \A b \in Agents, j \in 1..4 : Has(agent'[b], j) <=> Has(agent[b], j)
  BY <1>1, <1>2 DEF Has
<1>5. Typed'
  <2>1. starts' \in 0..MaxStarts
    BY <1>1, IpcAssumption
  <2> QED
    BY <1>1, <1>3, <2>1 DEF Inv, Typed
<1>6. Placed'
  <2>1. At("create", 1) \in AgentPlace
    BY DEF At, AgentPlace
  <2> QED
    BY <1>1, <1>2, <2>1 DEF Inv, Placed
<1>7. Attached'
  BY <1>1, <1>2, <1>4 DEF Inv, Attached
<1>8. Counted'
  <2> SUFFICES ASSUME NEW j \in 1..4
               PROVE  /\ IsFiniteSet(Makers(j)')
                      /\ made'[KeyAt[j]] + Cardinality(Makers(j)') <= starts'
    BY DEF Counted
  <2>1. Makers(j)' = Makers(j) \cup {a} /\ a \notin Makers(j)
    BY <1>1, <1>2 DEF Makers
  <2>2. IsFiniteSet(Makers(j)) /\ made[KeyAt[j]] + Cardinality(Makers(j)) <= starts
    BY DEF Inv, Counted
  <2>3. /\ IsFiniteSet(Makers(j)') /\ Cardinality(Makers(j)') = Cardinality(Makers(j)) + 1
        /\ Cardinality(Makers(j)) \in Nat
    BY <2>1, <2>2, FS_AddElement, FS_CardinalityType
  <2> QED
    BY <1>1, <2>2, <2>3, KeyFacts DEF Inv, Typed
<1>9. Served'
  <2>1. \A b \in Agents : Runs(b)' <=> Runs(b)
    BY <1>1, <1>2 DEF Runs
  <2> QED
    BY <1>1, <2>1 DEF Inv, Served
<1>10. Alone'
  BY <1>2, <1>3 DEF Alone
<1>11. Owning'
  BY <1>1, <1>2, <1>3, <1>4 DEF Inv, Owning
<1>12. Standing'
  BY <1>1, <1>2, <1>3 DEF Standing
<1>13. Shared'
  <2>1. Removing' <=> Removing
    BY <1>1, <1>2 DEF Removing
  <2> QED
    BY <1>1, <1>3, <2>1 DEF Inv, Shared, Attaching, On
<1> QED
  BY <1>5, <1>6, <1>7, <1>8, <1>9, <1>10, <1>11, <1>12, <1>13 DEF Inv

LEMMA CreateStep ==
  ASSUME Inv, NEW a \in Agents, Create(a)
  PROVE  Inv'
<1> DEFINE i == agent[a].i
           k == KeyAt[i]
           to == IF i < 4 THEN At("create", i + 1) ELSE At("init", 0)
<1>1. /\ agent \in [Agents -> AgentPlace]
      /\ agent[a].pc = "create" /\ i \in 1..4 /\ agent' = [agent EXCEPT ![a] = to]
      /\ UNCHANGED <<ticks, tdf, gostop, guest, port, starts, failures, rival, torn, asked>>
      /\ made' = [made EXCEPT ![k] = IF bound[k] = 0 THEN @ + 1 ELSE @]
      /\ bound' = [bound EXCEPT ![k] = IF @ = 0 THEN made'[k] ELSE @]
      /\ holds' = [holds EXCEPT ![a][k] = bound'[k]]
  BY DEF Create, AgentGoes, history, Inv, Placed, At
<1>2. /\ made \in [Keys -> Nat] /\ bound \in [Keys -> Nat] /\ k \in Keys
      /\ holds \in [Processes -> [Keys -> Nat]] /\ a \in Processes
      /\ \A c \in Keys : bound[c] <= made[c]
  BY <1>1, KeyFacts DEF Inv, Typed, Processes
<1>3. /\ IF i < 4 THEN to.pc = "create" /\ to.i = i + 1 ELSE to.pc = "init" /\ to.i = 0
      /\ to \in AgentPlace
  BY <1>1 DEF At, AgentPlace
<1> HIDE DEF to
<1>4. \A b \in Agents : agent'[b] = IF b = a THEN to ELSE agent[b]
  BY <1>1
<1>5. \A b \in Agents : b # a => agent'[b] = agent[b] /\ holds'[b] = holds[b]
  BY <1>1, <1>2, <1>4 DEF Processes
<1>6. \A g \in Guests : holds'[g] = holds[g]
  BY <1>1, <1>2, IpcAssumption DEF Processes
<1>7. \A j \in 1..4 : Has(agent'[a], j) <=> Has(agent[a], j) \/ j = i
  BY <1>1, <1>3, <1>4 DEF Has
<1>8. /\ made'[k] = IF bound[k] = 0 THEN made[k] + 1 ELSE made[k]
      /\ bound'[k] = IF bound[k] = 0 THEN made[k] + 1 ELSE bound[k]
      /\ holds'[a][k] = bound'[k]
      /\ made' \in [Keys -> Nat] /\ bound' \in [Keys -> Nat]
      /\ holds' \in [Processes -> [Keys -> Nat]]
  BY <1>1, <1>2
<1>9. \A c \in Keys : c # k => /\ made'[c] = made[c] /\ bound'[c] = bound[c]
                               /\ holds'[a][c] = holds[a][c]
  BY <1>1, <1>2
<1> HIDE DEF i, k
<1>10. Typed'
  <2>1. \A c \in Keys : bound'[c] <= made'[c]
    BY <1>2, <1>8, <1>9
  <2> QED
    BY <1>1, <1>8, <2>1 DEF Inv, Typed
<1>11. Placed'
  BY <1>1, <1>3, <1>4 DEF Inv, Placed
<1>12. Attached'
  <2>1. \A p \in Processes, c \in Keys : holds'[p][c] <= made'[c]
    <3> SUFFICES ASSUME NEW p \in Processes, NEW c \in Keys PROVE holds'[p][c] <= made'[c]
      OBVIOUS
    <3>1. holds[p][c] \in Nat /\ made[c] \in Nat /\ holds[p][c] <= made[c] /\ made'[c] >= made[c]
      BY <1>2, <1>8, <1>9 DEF Inv, Attached
    <3>2. CASE p = a /\ c = k
      BY <1>2, <1>8, <3>2
    <3>3. CASE ~(p = a /\ c = k)
      <4>1. holds'[p][c] = holds[p][c]
        BY <1>1, <1>2, <1>9, <3>3
      <4> QED
        BY <1>8, <3>1, <4>1
    <3> QED
      BY <3>2, <3>3
  <2>2. \A b \in Agents, j \in 1..4 : Has(agent'[b], j) => holds'[b][KeyAt[j]] # 0
    <3>1. bound'[k] # 0
      BY <1>2, <1>8
    <3>2. \A j \in 1..4 : Has(agent'[a], j) => holds'[a][KeyAt[j]] # 0
      BY <1>7, <1>8, <1>9, <3>1, KeyFacts DEF Inv, Attached, k
    <3> QED
      BY <1>5, <3>2 DEF Inv, Attached
  <2>3. \A g \in Guests, j \in 1..4 : Has(guest'[g], j) => holds'[g][KeyAt[j]] # 0
    BY <1>1, <1>6 DEF Inv, Attached
  <2>4. \A b \in Agents : agent'[b].pc = "off" => holds'[b] = NoObjects
    BY <1>3, <1>4, <1>5 DEF Inv, Attached
  <2> QED
    BY <2>1, <2>2, <2>3, <2>4 DEF Attached
<1>13. Counted'
  <2> SUFFICES ASSUME NEW j \in 1..4
               PROVE  /\ IsFiniteSet(Makers(j)')
                      /\ made'[KeyAt[j]] + Cardinality(Makers(j)') <= starts'
    BY DEF Counted
  <2>1. IsFiniteSet(Makers(j)) /\ made[KeyAt[j]] + Cardinality(Makers(j)) <= starts
    BY DEF Inv, Counted
  <2>2. CASE j = i
    <3>1. Makers(j)' = Makers(j) \ {a} /\ a \in Makers(j)
      BY <1>1, <1>3, <1>4, <2>2 DEF Makers, i
    <3>2. /\ IsFiniteSet(Makers(j)') /\ Cardinality(Makers(j)') = Cardinality(Makers(j)) - 1
          /\ Cardinality(Makers(j)) \in Nat
      BY <2>1, <3>1, FS_RemoveElement, FS_CardinalityType
    <3>3. KeyAt[j] = k
      BY <2>2 DEF k
    <3>4. starts \in Nat
      BY IpcAssumption DEF Inv, Typed
    <3> QED
      BY <1>1, <1>2, <1>8, <2>1, <3>2, <3>3, <3>4
  <2>3. CASE j # i
    <3>1. Makers(j)' = Makers(j)
      BY <1>1, <1>3, <1>4, <2>3 DEF Makers, i
    <3>2. made'[KeyAt[j]] = made[KeyAt[j]]
      BY <1>1, <1>9, <2>3, KeyFacts, DifferentKeys DEF k
    <3> QED
      BY <1>1, <2>1, <3>1, <3>2
  <2> QED
    BY <2>2, <2>3
<1>14. Served'
  <2>1. \A b \in Agents : Runs(b)' <=> Runs(b)
    BY <1>1, <1>3, <1>4 DEF Runs
  <2> QED
    BY <1>1, <2>1 DEF Inv, Served
<1>15. Alone'
  BY <1>1, <1>4 DEF Inv, Alone
<1>16. ~rival => \A b \in Agents : b # a => agent[b].pc = "off"
  BY <1>1 DEF Inv, Alone
<1>17. Owning'
  <2>1. ~rival => \A j \in 1..4 : Has(agent'[a], j) => holds'[a][KeyAt[j]] = bound'[KeyAt[j]]
    BY <1>1, <1>7, <1>8, <1>9, KeyFacts DEF Inv, Owning, k
  <2>2. agent'[a].pc # "remove"
    BY <1>3, <1>4
  <2> QED
    BY <1>1, <1>5, <1>16, <2>1, <2>2 DEF Owning, Has
<1>18. Standing'
  BY <1>1, <1>3, <1>4, <1>5, <1>16 DEF Standing
<1>19. Shared'
  <2>1. (~Removing /\ ~Removing') \/ rival
    BY <1>1, <1>3, <1>4, <1>5, <1>16 DEF Removing
  <2> SUFFICES ASSUME ~rival, ~torn, NEW g \in Guests
               PROVE  /\ Attaching(g) => \A j \in 1..4 :
                           Has(guest[g], j) => holds[g][KeyAt[j]] = bound'[KeyAt[j]]
                      /\ On(g) => \/ \A c \in Owned : holds[g][c] = bound'[c]
                                  \/ holds[g]["sem"] # bound'["sem"]
    BY <1>1, <1>6 DEF Shared, Attaching, On
  <2>2. \A j \in 1..4 : Has(guest[g], j) => /\ holds[g][KeyAt[j]] # 0
                                            /\ holds[g][KeyAt[j]] <= made[KeyAt[j]]
    BY KeyFacts DEF Inv, Attached, Processes
  <2>3. \A c \in Keys : bound[c] # 0 => bound'[c] = bound[c]
    BY <1>8, <1>9
  <2>4. CASE Attaching(g)
    <3>1. ~On(g)
      BY <2>4 DEF Attaching, On
    <3>2. \A j \in 1..4 : Has(guest[g], j) => holds[g][KeyAt[j]] = bound[KeyAt[j]]
      BY <2>4 DEF Inv, Shared
    <3> QED
      BY <2>2, <2>3, <3>1, <3>2, KeyFacts
  <2>5. CASE On(g)
    <3>1. ~Attaching(g) /\ \A j \in 1..4 : Has(guest[g], j)
      BY <2>5 DEF Attaching, On, Has
    <3>2. \A c \in Keys : holds[g][c] # 0 /\ holds[g][c] <= made[c]
      BY <2>2, <3>1, KeyFacts
    <3>3. CASE \A c \in Owned : holds[g][c] = bound[c]
      BY <2>3, <3>1, <3>2, <3>3, KeyFacts
    <3>4. CASE holds[g]["sem"] # bound["sem"]
      <4>1. /\ bound'["sem"] = bound["sem"] \/ bound'["sem"] = made["sem"] + 1
            /\ "sem" \in Keys
        BY <1>8, <1>9, KeyFacts DEF Keys
      <4>2. holds[g]["sem"] \in Nat /\ made["sem"] \in Nat
        BY <1>2, <4>1 DEF Processes
      <4> QED
        BY <3>1, <3>2, <3>4, <4>1, <4>2
    <3> QED
      BY <2>1, <2>5, <3>3, <3>4 DEF Inv, Shared
  <2> QED
    BY <2>4, <2>5
<1> QED
  BY <1>10, <1>11, <1>12, <1>13, <1>14, <1>15, <1>17, <1>18, <1>19 DEF Inv

\* What a step between settled places has to show besides SettledStep.
LEMMA SettledAgents ==
  ASSUME Inv, NEW a \in Agents, NEW from, NEW to, AgentGoes(a, from, to),
         from.pc \in Settled, to \in AgentPlace, guest' = guest,
         (to.pc \in Settled /\ (to.pc = "init" \/ to.i = 0)) \/ to = At("remove", 1)
  PROVE  /\ Placed'
         /\ \A b \in Agents : agent'[b] = IF b = a THEN to ELSE agent[b]
         /\ agent[a] = from
         /\ ~rival => \A b \in Agents : b # a => agent[b].pc = "off"
<1>1. /\ agent \in [Agents -> AgentPlace] /\ agent' = [agent EXCEPT ![a] = to]
      /\ agent[a] = from
      /\ to = At("remove", 1) => to.pc = "remove" /\ to.i = 1
  BY DEF Inv, Placed, AgentGoes, At
<1>2. \A b \in Agents : agent'[b] = IF b = a THEN to ELSE agent[b]
  BY <1>1
<1>3. Placed'
  BY <1>1, <1>2 DEF Inv, Placed, Settled
<1>4. ~rival => \A b \in Agents : b # a => agent[b].pc = "off"
  BY <1>1 DEF Inv, Alone, Settled
<1> QED
  BY <1>1, <1>2, <1>3, <1>4

LEMMA InitTimersStep ==
  ASSUME Inv, NEW a \in Agents, InitTimers(a)
  PROVE  Inv'
<1>1. /\ AgentGoes(a, At("init", 0), At("init", 1))
      /\ UNCHANGED <<bound, made, tdf, gostop, guest, holds, port, starts, failures, history>>
      /\ UNCHANGED <<rival, torn, asked>>
      /\ ticks' = [ticks EXCEPT ![holds[a]["timers"]] = FALSE]
      /\ At("init", 0).pc = "init" /\ At("init", 1).pc = "init" /\ At("init", 1).i = 1
      /\ At("init", 1) \in AgentPlace
  BY DEF InitTimers, SetTicks, history, At, AgentPlace
<1>2. Attached' /\ Counted' /\ Alone' /\ Owning' /\ Shared'
  BY <1>1, SettledStep DEF Settled
<1>3. /\ Placed' /\ agent[a] = At("init", 0)
      /\ \A b \in Agents : agent'[b] = IF b = a THEN At("init", 1) ELSE agent[b]
      /\ ~rival => \A b \in Agents : b # a => agent[b].pc = "off"
  BY <1>1, SettledAgents DEF Settled
<1>4. ticks' \in [Objects -> BOOLEAN]
  BY <1>1 DEF Inv, Typed
<1>5. Typed'
  BY <1>1, <1>4 DEF Inv, Typed
<1>6. Served'
  <2>1. \A b \in Agents : Runs(b)' <=> Runs(b)
    BY <1>1, <1>3 DEF Runs
  <2> QED
    BY <1>1, <2>1 DEF Inv, Served
<1>7. Standing'
  <2>1. holds[a]["timers"] \in Objects
    BY <1>1, <1>3, AgentsObjects DEF Settled, Keys
  <2>2. ~ticks'[holds[a]["timers"]]
    BY <1>1, <2>1 DEF Inv, Typed
  <2> QED
    BY <1>1, <1>3, <2>2 DEF Standing
<1> QED
  BY <1>2, <1>3, <1>5, <1>6, <1>7 DEF Inv

LEMMA WriteTdfStep ==
  ASSUME Inv, NEW a \in Agents, InitTdf(a) \/ \E f \in Tdfs : SetTdf(a, f)
  PROVE  Inv'
<1>1. PICK from \in {At("init", 1), At("stopped", 0)}, to \in {At("bind", 0), At("set", 0)} :
        AgentGoes(a, from, to) /\ (Runs(a) <=> to.pc = "set")
  BY DEF InitTdf, SetTdf, AgentGoes, Runs, At
<1>2. /\ from.pc \in Settled /\ to.pc \in Settled /\ to.i = 0 /\ to \in AgentPlace
      /\ to.pc \in {"bind", "set"}
      /\ UNCHANGED <<bound, made, ticks, gostop, guest, holds, port, starts, failures, history>>
      /\ UNCHANGED <<rival, torn, asked>>
  BY DEF InitTdf, SetTdf, history, At, AgentPlace, Settled
<1>3. Attached' /\ Counted' /\ Alone' /\ Owning' /\ Shared'
  BY <1>1, <1>2, SettledStep
<1>4. /\ Placed'
      /\ \A b \in Agents : agent'[b] = IF b = a THEN to ELSE agent[b]
      /\ ~rival => \A b \in Agents : b # a => agent[b].pc = "off"
  BY <1>1, <1>2, SettledAgents
<1>5. tdf' \in [Objects -> Tdfs]
  BY IpcAssumption DEF InitTdf, SetTdf, Inv, Typed
<1>6. Typed'
  BY <1>2, <1>5 DEF Inv, Typed
<1>7. Served'
  <2>1. \A b \in Agents : Runs(b)' <=> Runs(b)
    BY <1>1, <1>2, <1>4 DEF Runs
  <2> QED
    BY <1>2, <2>1 DEF Inv, Served
<1>8. Standing'
  BY <1>2, <1>4 DEF Standing
<1> QED
  BY <1>3, <1>4, <1>6, <1>7, <1>8 DEF Inv

\* The start of service, its failure, and its end: only the port changes hands.
LEMMA PortStep ==
  ASSUME Inv, NEW a \in Agents, Bind(a) \/ StartFails(a) \/ Terminate(a)
  PROVE  Inv'
<1>1. PICK from \in {At("bind", 0), At("begin", 0), At("run", 0)},
           to \in {At("begin", 0), At("remove", 1)} :
        /\ AgentGoes(a, from, to)
        /\ \/ from.pc = "bind" /\ to.pc = "begin" /\ port = {} /\ port' = {a}
           \/ from.pc = "bind" /\ to.pc = "remove" /\ port' = port
           \/ from.pc # "bind" /\ to.pc = "remove" /\ port' = {}
  BY DEF Bind, StartFails, Terminate, At
<1>2. /\ from.pc \in Settled /\ to \in AgentPlace /\ to.pc \in {"begin", "remove"}
      /\ (to.pc \in Settled /\ to.i = 0) \/ to = At("remove", 1)
      /\ from.pc \in {"bind", "begin", "run"}
  BY DEF At, AgentPlace, Settled
<1>3. /\ UNCHANGED <<bound, made, ticks, tdf, gostop, guest, holds, starts, history>>
      /\ UNCHANGED <<rival, torn, asked>>
      /\ failures' \in 0..MaxFailures
  BY IpcAssumption DEF Bind, StartFails, Terminate, ipc, history, Inv, Typed
<1>4. Attached' /\ Counted' /\ Alone' /\ Owning' /\ Shared'
  BY <1>1, <1>2, <1>3, SettledStep
<1>5. /\ Placed' /\ agent[a] = from
      /\ \A b \in Agents : agent'[b] = IF b = a THEN to ELSE agent[b]
      /\ ~rival => \A b \in Agents : b # a => agent[b].pc = "off"
  BY <1>1, <1>2, <1>3, SettledAgents
<1>6. Typed'
  BY <1>3 DEF Inv, Typed
<1>7. Served'
  <2>1. \A b \in Agents : b # a => (Runs(b)' <=> Runs(b))
    BY <1>5 DEF Runs
  <2>2. (Runs(a)' <=> to.pc = "begin") /\ (Runs(a) <=> from.pc # "bind")
    BY <1>2, <1>5 DEF Runs
  <2>3. port = {b \in Agents : Runs(b)} /\ \A b, c \in port : b = c
    BY DEF Inv, Served
  <2>4. CASE to.pc = "begin"
    BY <1>1, <2>1, <2>2, <2>3, <2>4 DEF Served
  <2>5. CASE from.pc = "bind" /\ to.pc = "remove"
    BY <1>1, <2>1, <2>2, <2>3, <2>5 DEF Served
  <2>6. CASE from.pc # "bind"
    BY <1>1, <1>2, <2>1, <2>2, <2>3, <2>6 DEF Served
  <2> QED
    BY <1>1, <2>4, <2>5, <2>6
<1>8. Standing'
  BY <1>2, <1>3, <1>5 DEF Standing
<1> QED
  BY <1>4, <1>5, <1>6, <1>7, <1>8 DEF Inv

\* The steps of the cycle and the requests that write the semaphore, or end
\* with it.
LEMMA SetValStep ==
  ASSUME Inv, NEW a \in Agents, Begin(a) \/ Stop(a) \/ Go(a) \/ SuspendVMs(a) \/ ResumeVMs(a)
  PROVE  Inv'
<1>0. agent \in [Agents -> AgentPlace] /\ (Runs(a) => agent[a].i = 0)
  BY DEF Inv, Placed, Runs
<1>1. PICK from, to, on, value :
        /\ {from, to} \subseteq AgentPlace /\ on \in BOOLEAN /\ value \in {"GO", "STOP"}
        /\ SetVal(a, from, to, value) /\ SetTicks(a, on)
        /\ to.pc = "stopped" /\ asked' # "resume" => ~on
        /\ {from.pc, to.pc} \subseteq {"begin", "run", "stopped", "set"} /\ to.i = 0
        /\ asked' \in {"none", "suspend", "resume"}
  <2>0. \A name \in {"begin", "run", "stopped", "set"} :
          At(name, 0) \in AgentPlace /\ At(name, 0).pc = name /\ At(name, 0).i = 0
    BY DEF At, AgentPlace
  <2>1. CASE Begin(a)
    <3> WITNESS At("begin", 0), At("run", 0), TRUE, "GO"
    <3> QED
      BY <2>0, <2>1 DEF Begin, Asked
  <2>2. CASE Stop(a)
    <3> WITNESS At("run", 0), At("stopped", 0), FALSE, "STOP"
    <3> QED
      BY <2>0, <2>2 DEF Stop, Asked
  <2>3. CASE Go(a)
    <3> WITNESS At("set", 0), At("run", 0), TRUE, "GO"
    <3> QED
      BY <2>0, <2>3 DEF Go, Asked
  <2>4. CASE SuspendVMs(a)
    <3> WITNESS agent[a], agent[a], FALSE, "STOP"
    <3> QED
      BY <1>0, <2>4 DEF SuspendVMs, Asked, Runs
  <2>5. CASE ResumeVMs(a)
    <3> WITNESS agent[a], agent[a], TRUE, "GO"
    <3> QED
      BY <1>0, <2>5 DEF ResumeVMs, Asked, Runs
  <2> QED
    BY <2>1, <2>2, <2>3, <2>4, <2>5
<1>2. /\ from.pc \in Settled /\ to.pc \in Settled
      /\ {from.pc, to.pc} \subseteq {"begin", "run", "stopped", "set"}
  BY <1>1 DEF Settled
<1>3. /\ UNCHANGED <<bound, made, tdf, guest, starts, failures>>
      /\ UNCHANGED <<rival, torn>>
      /\ ticks' = [ticks EXCEPT ![holds[a]["timers"]] = on]
      /\ ticks' \in [Objects -> BOOLEAN]
  BY <1>1 DEF Begin, Stop, Go, SuspendVMs, ResumeVMs, Asked, SetTicks, Inv, Typed
<1>4. \/ /\ AgentGoes(a, from, to) /\ gostop' \in [Objects -> {"GO", "STOP", "gone"}]
         /\ UNCHANGED <<holds, port>>
      \/ /\ AgentGoes(a, from, Off) /\ gostop' = gostop
         /\ holds' = [holds EXCEPT ![a] = NoObjects] /\ port' = port \ {a}
  BY <1>1 DEF SetVal, Inv, Typed
<1>5. ~rival => \A b \in Agents : b # a => agent[b].pc = "off"
  BY <1>2, <1>4 DEF AgentGoes, Inv, Alone, Settled
<1>6. CASE AgentGoes(a, from, to) /\ gostop' \in [Objects -> {"GO", "STOP", "gone"}]
           /\ UNCHANGED <<holds, port>>
  <2>1. Attached' /\ Counted' /\ Alone' /\ Owning' /\ Shared'
    BY <1>2, <1>3, <1>6, SettledStep
  <2>2. /\ Placed' /\ agent[a] = from
        /\ \A b \in Agents : agent'[b] = IF b = a THEN to ELSE agent[b]
    BY <1>1, <1>2, <1>3, <1>6, SettledAgents
  <2>3. Typed'
    BY <1>1, <1>3, <1>6 DEF Inv, Typed
  <2>4. Served'
    <3>1. \A b \in Agents : Runs(b)' <=> Runs(b)
      BY <1>2, <2>2 DEF Runs
    <3> QED
      BY <1>6, <3>1 DEF Inv, Served
  <2>5. Standing'
    <3>1. holds[a]["timers"] \in Objects
      BY <1>2, <2>2, AgentsObjects DEF Settled, Keys
    <3>2. ticks'[holds[a]["timers"]] = on
      BY <1>3, <3>1 DEF Inv, Typed
    <3> QED
      BY <1>1, <1>2, <1>3, <1>5, <1>6, <2>2, <3>2 DEF Standing
  <2> QED
    BY <2>1, <2>2, <2>3, <2>4, <2>5 DEF Inv
<1>7. CASE AgentGoes(a, from, Off) /\ gostop' = gostop
           /\ holds' = [holds EXCEPT ![a] = NoObjects] /\ port' = port \ {a}
  <2>1. agent[a] = from /\ agent' = [agent EXCEPT ![a] = Off]
    BY <1>7 DEF AgentGoes
  <2>2. torn' = (torn \/ (agent[a].pc = "remove" /\ agent[a].i > 1))
    <3>1. agent[a].pc # "remove" /\ torn \in BOOLEAN
      BY <1>2, <2>1 DEF Inv, Typed
    <3> QED
      BY <1>3, <3>1, Zenon
  <2>3. failures' \in 0..MaxFailures
    BY <1>3 DEF Inv, Typed
  <2>4. /\ Typed' /\ Placed' /\ Attached' /\ Counted'
        /\ Served' /\ Alone' /\ Owning' /\ Shared'
    BY <1>1, <1>3, <1>7, <2>1, <2>2, <2>3, GoneStep
  <2>5. Standing'
    <3>1. ~rival => \A b \in Agents : agent'[b].pc = "off"
      BY <1>5, <2>1 DEF Inv, Placed, Off, At
    <3> QED
      BY <1>3, <3>1 DEF Standing
  <2> QED
    BY <2>4, <2>5 DEF Inv
<1> QED
  BY <1>4, <1>6, <1>7

LEMMA CrashStep ==
  ASSUME Inv, NEW a \in Agents, Crash(a)
  PROVE  Inv'
<1>1. /\ agent' = [agent EXCEPT ![a] = Off]
      /\ holds' = [holds EXCEPT ![a] = NoObjects] /\ port' = port \ {a}
      /\ torn' = (torn \/ (agent[a].pc = "remove" /\ agent[a].i > 1))
      /\ UNCHANGED <<bound, made, ticks, tdf, gostop, guest, starts, rival, asked>>
      /\ failures' \in 0..MaxFailures
      /\ ticks' \in [Objects -> BOOLEAN] /\ asked' \in {"none", "suspend", "resume"}
  BY IpcAssumption DEF Crash, ipc, Inv, Typed
<1>2. /\ Typed' /\ Placed' /\ Attached' /\ Counted'
      /\ Served' /\ Alone' /\ Owning' /\ Shared'
  BY <1>1, GoneStep
<1>3. Standing'
  <2>1. \A b \in Agents : b # a => agent'[b] = agent[b] /\ holds'[b] = holds[b]
    BY <1>1 DEF Inv, Typed, Placed, Processes
  <2>2. agent'[a].pc = "off"
    BY <1>1 DEF Inv, Placed, Off, At
  <2> QED
    BY <1>1, <2>1, <2>2 DEF Inv, Standing
<1> QED
  BY <1>2, <1>3 DEF Inv

LEMMA RemoveStep ==
  ASSUME Inv, NEW a \in Agents, Remove(a)
  PROVE  Inv'
<1> DEFINE i == agent[a].i
           k == RemovedAt[i]
           to == IF i < 3 THEN At("remove", i + 1) ELSE Off
<1>1. /\ agent \in [Agents -> AgentPlace] /\ agent[a].pc = "remove" /\ i \in 1..3
      /\ agent' = [agent EXCEPT ![a] = to]
      /\ UNCHANGED <<made, ticks, tdf, guest, port, starts, failures, rival, asked>>
      /\ bound' = [bound EXCEPT ![k] = IF @ = holds[a][k] THEN 0 ELSE @]
      /\ holds' = [holds EXCEPT ![a] = IF i < 3 THEN @ ELSE NoObjects]
      /\ torn' = (torn \/ \E g \in Guests : Attaching(g))
  BY DEF Remove, AgentGoes, Inv, Placed, At
<1>2. gostop' \in [Objects -> {"GO", "STOP", "gone"}]
  BY DEF Remove, Inv, Typed
<1>3. /\ made \in [Keys -> Nat] /\ bound \in [Keys -> Nat] /\ k \in Owned /\ k \in Keys
      /\ holds \in [Processes -> [Keys -> Nat]] /\ a \in Processes
      /\ \A c \in Keys : bound[c] <= made[c]
      /\ NoObjects \in [Keys -> Nat]
  BY <1>1, KeyFacts DEF Inv, Typed, Processes, NoObjects
<1>4. /\ IF i < 3 THEN to.pc = "remove" /\ to.i = i + 1 ELSE to = Off /\ to.pc = "off" /\ to.i = 0
      /\ to \in AgentPlace
  BY <1>1 DEF At, Off, AgentPlace
<1>5. k = "sem" <=> i = 3
  BY <1>1, KeyFacts
<1> HIDE DEF to
<1>6. \A b \in Agents : agent'[b] = IF b = a THEN to ELSE agent[b]
  BY <1>1
<1>7. \A p \in Processes : holds'[p] = IF p = a /\ i = 3 THEN NoObjects ELSE holds[p]
  BY <1>1, <1>3
<1>8. \A g \in Guests : holds'[g] = holds[g]
  BY <1>7, IpcAssumption DEF Processes
<1>9. /\ bound'[k] = IF bound[k] = holds[a][k] THEN 0 ELSE bound[k]
      /\ \A c \in Keys : c # k => bound'[c] = bound[c]
      /\ bound' \in [Keys -> Nat]
  BY <1>1, <1>3
<1>10. ~rival => \A b \in Agents : b # a => agent[b].pc = "off"
  BY <1>1 DEF Inv, Alone
<1>11. ~rival => bound[k] = holds[a][k] /\ bound'[k] = 0
  BY <1>1, <1>9 DEF Inv, Owning
<1> HIDE DEF i, k
<1>12. Typed'
  <2>1. torn' \in BOOLEAN
    BY <1>1, Zenon
  <2>2. holds' \in [Processes -> [Keys -> Nat]]
    BY <1>1, <1>3
  <2>3. \A c \in Keys : bound'[c] <= made'[c]
    BY <1>1, <1>3, <1>9
  <2> QED
    BY <1>1, <1>2, <1>9, <2>1, <2>2, <2>3 DEF Inv, Typed
<1>13. Placed'
  BY <1>1, <1>4, <1>6 DEF Inv, Placed
<1>14. Attached'
  <2>1. \A p \in Processes, c \in Keys : holds'[p][c] <= made'[c]
    BY <1>1, <1>3, <1>7 DEF Inv, Attached, NoObjects
  <2>2. \A b \in Agents, j \in 1..4 : Has(agent'[b], j) => holds'[b][KeyAt[j]] # 0
    BY <1>1, <1>4, <1>6, <1>7 DEF Inv, Attached, Has, Processes
  <2>3. \A g \in Guests, j \in 1..4 : Has(guest'[g], j) => holds'[g][KeyAt[j]] # 0
    BY <1>1, <1>8 DEF Inv, Attached
  <2>4. \A b \in Agents : agent'[b].pc = "off" => holds'[b] = NoObjects
    BY <1>1, <1>4, <1>6, <1>7 DEF Inv, Attached, Processes
  <2> QED
    BY <2>1, <2>2, <2>3, <2>4 DEF Attached
<1>15. Counted'
  <2>1. \A j \in 1..4 : Makers(j)' = Makers(j)
    BY <1>1, <1>4, <1>6 DEF Makers
  <2> QED
    BY <1>1, <2>1 DEF Inv, Counted
<1>16. Served'
  <2>1. \A b \in Agents : Runs(b)' <=> Runs(b)
    BY <1>1, <1>4, <1>6 DEF Runs
  <2> QED
    BY <1>1, <2>1 DEF Inv, Served
<1>17. Alone'
  BY <1>1, <1>6 DEF Inv, Alone
<1>18. Owning'
  <2> SUFFICES ASSUME ~rival, i < 3, NEW j \in 1..3
               PROVE  bound'[RemovedAt[j]] = IF j < i + 1 THEN 0 ELSE holds[a][RemovedAt[j]]
    BY <1>1, <1>4, <1>6, <1>7, <1>10 DEF Owning, Has
  <2>1. bound[RemovedAt[j]] = IF j < i THEN 0 ELSE holds[a][RemovedAt[j]]
    BY <1>1 DEF Inv, Owning, i
  <2>2. CASE j = i
    BY <1>1, <1>11, <2>2 DEF k
  <2>3. CASE j # i
    <3>1. RemovedAt[j] # k /\ RemovedAt[j] \in Keys
      BY <1>1, <2>3, KeyFacts DEF k
    <3> QED
      BY <1>1, <1>9, <2>1, <2>3, <3>1
  <2> QED
    BY <2>2, <2>3
<1>19. Standing'
  BY <1>1, <1>4, <1>6, <1>10 DEF Standing
<1>20. Shared'
  <2>1. torn \in BOOLEAN
    BY DEF Inv, Typed
  <2>2. ~torn' => ~torn /\ \A g \in Guests : ~Attaching(g)
    BY <1>1, <2>1, Zenon
  <2> SUFFICES ASSUME ~rival, ~torn, NEW g \in Guests, On(g)
               PROVE  Removing' \/ holds[g]["sem"] # bound'["sem"]
    BY <1>1, <1>8, <2>2 DEF Shared, Attaching, On
  <2>3. CASE i < 3
    BY <1>1, <1>4, <1>6, <2>3 DEF Removing
  <2>4. CASE i = 3
    <3>1. Has(guest[g], 4)
      BY DEF On, Has
    <3> QED
      BY <1>5, <1>11, <2>4, <3>1, KeyFacts DEF Inv, Attached
  <2> QED
    BY <1>1, <2>3, <2>4
<1> QED
  BY <1>12, <1>13, <1>14, <1>15, <1>16, <1>17, <1>18, <1>19, <1>20 DEF Inv

-----------------------------------------------------------------------------
(***************************************************************************)
(* The steps of a guest                                                     *)
(***************************************************************************)

\* What a guest does changes none of the parts about agents.
LEMMA GuestLeavesAgents ==
  ASSUME Inv, NEW g \in Guests, NEW r \in [Keys -> Nat],
         holds' = [holds EXCEPT ![g] = r], \A k \in Keys : r[k] <= made[k],
         UNCHANGED <<ipc, agent, port, failures, history>>, starts' \in starts..MaxStarts
  PROVE  /\ Typed' /\ Counted' /\ Served' /\ Alone' /\ Owning' /\ Standing'
         /\ \A p \in Processes : holds'[p] = IF p = g THEN r ELSE holds[p]
         /\ \A p \in Processes, k \in Keys : holds'[p][k] <= made'[k]
         /\ \A b \in Agents, j \in 1..4 : Has(agent'[b], j) => holds'[b][KeyAt[j]] # 0
         /\ \A b \in Agents : agent'[b].pc = "off" => holds'[b] = NoObjects
<1>1. UNCHANGED <<bound, made, ticks, tdf, gostop, agent, port, failures, rival, torn, asked>>
  BY DEF ipc, history
<1>2. holds \in [Processes -> [Keys -> Nat]] /\ g \in Processes
  BY DEF Inv, Typed, Processes
<1>3. \A p \in Processes : holds'[p] = IF p = g THEN r ELSE holds[p]
  BY <1>2
<1>4. \A b \in Agents : holds'[b] = holds[b]
  BY <1>3, IpcAssumption DEF Processes
<1>5. starts \in Nat /\ starts' \in Nat /\ starts <= starts' /\ starts' <= MaxStarts
  BY IpcAssumption DEF Inv, Typed
<1>6. Typed'
  BY <1>1, <1>2, <1>5 DEF Inv, Typed
<1>7. Counted'
  <2> SUFFICES ASSUME NEW j \in 1..4
               PROVE  /\ IsFiniteSet(Makers(j)')
                      /\ made'[KeyAt[j]] + Cardinality(Makers(j)') <= starts'
    BY DEF Counted
  <2>1. Makers(j)' = Makers(j)
    BY <1>1 DEF Makers
  <2>2. IsFiniteSet(Makers(j)) /\ made[KeyAt[j]] + Cardinality(Makers(j)) <= starts
    BY DEF Inv, Counted
  <2>3. Cardinality(Makers(j)) \in Nat /\ made[KeyAt[j]] \in Nat
    BY <2>2, FS_CardinalityType, KeyFacts DEF Inv, Typed
  <2> QED
    BY <1>1, <1>5, <2>1, <2>2, <2>3
<1>8. Served' /\ Alone'
  BY <1>1 DEF Inv, Served, Alone, Runs
<1>9. Owning' /\ Standing'
  BY <1>1, <1>4 DEF Inv, Owning, Standing
<1>10. \A p \in Processes, k \in Keys : holds'[p][k] <= made'[k]
  BY <1>1, <1>3 DEF Inv, Attached
<1>11. /\ \A b \in Agents, j \in 1..4 : Has(agent'[b], j) => holds'[b][KeyAt[j]] # 0
       /\ \A b \in Agents : agent'[b].pc = "off" => holds'[b] = NoObjects
  BY <1>1, <1>4 DEF Inv, Attached
<1> QED
  BY <1>3, <1>6, <1>7, <1>8, <1>9, <1>10, <1>11

\* A guest that starts, finds the next object, or ends.
LEMMA GuestStep ==
  ASSUME Inv, NEW g \in Guests, GuestStarts(g) \/ Attach(g) \/ GuestEnds(g)
  PROVE  Inv'
<1> DEFINE i == guest[g].i
           k == KeyAt[i]
<1>1. /\ UNCHANGED <<bound, made, agent, rival, torn>>
      /\ UNCHANGED <<ipc, agent, port, failures, history>>
      /\ starts' \in starts..MaxStarts
  BY IpcAssumption DEF GuestStarts, Attach, GuestEnds, ipc, history, Inv, Typed
<1>2. /\ guest \in [Guests -> [pc : {"off", "attach", "on"}, i : 0..4]]
      /\ guest[g].pc = "attach" => i \in 1..4
      /\ holds \in [Processes -> [Keys -> Nat]] /\ g \in Processes
      /\ holds[g] \in [Keys -> Nat]
      /\ bound \in [Keys -> Nat]
  BY DEF Inv, Typed, Placed, Processes
<1>3. PICK to, r :
        /\ guest' = [guest EXCEPT ![g] = to]
        /\ holds' = [holds EXCEPT ![g] = r]
        /\ \/ to.pc = "attach" /\ to.i = 1 /\ r = holds[g]
           \/ to.pc = "off" /\ to.i = 0 /\ (r = holds[g] \/ r = NoObjects)
           \/ /\ guest[g].pc = "attach" /\ bound[k] # 0
              /\ IF i < 4 THEN to.pc = "attach" /\ to.i = i + 1 ELSE to.pc = "on" /\ to.i = 0
              /\ r = [holds[g] EXCEPT ![k] = bound[k]]
        /\ to \in [pc : {"off", "attach", "on"}, i : 0..4]
  <2>1. CASE GuestStarts(g)
    <3>1. holds' = [holds EXCEPT ![g] = holds[g]]
      BY <1>2, <2>1 DEF GuestStarts
    <3>2. guest' = [guest EXCEPT ![g] = At("attach", 1)]
      BY <2>1 DEF GuestStarts, GuestGoes
    <3>3. /\ At("attach", 1).pc = "attach" /\ At("attach", 1).i = 1
          /\ At("attach", 1) \in [pc : {"off", "attach", "on"}, i : 0..4]
      BY DEF At
    <3> WITNESS At("attach", 1), holds[g]
    <3> QED
      BY <3>1, <3>2, <3>3
  <2>2. CASE GuestEnds(g)
    <3> WITNESS Off, NoObjects
    <3> QED
      BY <2>2 DEF GuestEnds, GuestGoes, Off, At
  <2>3. CASE Attach(g) /\ bound[k] = 0
    <3> WITNESS Off, NoObjects
    <3> QED
      BY <2>3 DEF Attach, GuestGoes, Off, At
  <2>4. CASE Attach(g) /\ bound[k] # 0
    <3> WITNESS IF i < 4 THEN At("attach", i + 1) ELSE At("on", 0),
                [holds[g] EXCEPT ![k] = bound[k]]
    <3>1. guest[g].pc = "attach" /\ i \in 1..4
      BY <1>2, <2>4 DEF Attach
    <3>2. /\ guest' = [guest EXCEPT ![g] = IF i < 4 THEN At("attach", i + 1) ELSE At("on", 0)]
          /\ holds' = [holds EXCEPT ![g][k] = bound[k]]
      BY <2>4 DEF Attach, GuestGoes
    <3>3. holds' = [holds EXCEPT ![g] = [holds[g] EXCEPT ![k] = bound[k]]]
      BY <1>2, <3>2
    <3> QED
      BY <2>4, <3>1, <3>2, <3>3 DEF At
  <2> QED
    BY <2>1, <2>2, <2>3, <2>4
<1>4. \A h \in Guests : guest'[h] = IF h = g THEN to ELSE guest[h]
  BY <1>2, <1>3
<1>5. k \in Keys \/ guest[g].pc # "attach"
  BY <1>2, KeyFacts
<1>6. NoObjects \in [Keys -> Nat] /\ \A c \in Keys : NoObjects[c] = 0
  BY DEF NoObjects
<1>7. r \in [Keys -> Nat] /\ \A c \in Keys : r[c] <= made[c]
  <2>1. \A c \in Keys : made[c] \in Nat /\ bound[c] <= made[c] /\ holds[g][c] <= made[c]
    BY <1>2 DEF Inv, Typed, Attached
  <2>2. CASE r = holds[g] \/ r = NoObjects
    BY <1>2, <1>6, <2>1, <2>2
  <2>3. CASE k \in Keys /\ r = [holds[g] EXCEPT ![k] = bound[k]]
    BY <1>2, <2>1, <2>3
  <2> QED
    BY <1>3, <1>5, <2>2, <2>3
<1>8. /\ Typed' /\ Counted' /\ Served' /\ Alone' /\ Owning' /\ Standing'
      /\ \A p \in Processes : holds'[p] = IF p = g THEN r ELSE holds[p]
      /\ \A p \in Processes, c \in Keys : holds'[p][c] <= made'[c]
      /\ \A b \in Agents, j \in 1..4 : Has(agent'[b], j) => holds'[b][KeyAt[j]] # 0
      /\ \A b \in Agents : agent'[b].pc = "off" => holds'[b] = NoObjects
  BY <1>1, <1>3, <1>7, GuestLeavesAgents
<1> HIDE DEF i, k
\* The objects it has now: those it had, and the one it has just found.
<1>9. \A j \in 1..4 : Has(to, j) =>
        \/ Has(guest[g], j) /\ r[KeyAt[j]] = holds[g][KeyAt[j]]
        \/ r[KeyAt[j]] = bound[KeyAt[j]] /\ bound[KeyAt[j]] # 0
  <2> SUFFICES ASSUME NEW j \in 1..4, Has(to, j)
               PROVE  \/ Has(guest[g], j) /\ r[KeyAt[j]] = holds[g][KeyAt[j]]
                      \/ r[KeyAt[j]] = bound[KeyAt[j]] /\ bound[KeyAt[j]] # 0
    OBVIOUS
  <2>1. /\ guest[g].pc = "attach" /\ bound[k] # 0 /\ i \in 1..4
        /\ IF i < 4 THEN to.pc = "attach" /\ to.i = i + 1 ELSE to.pc = "on" /\ to.i = 0
        /\ r = [holds[g] EXCEPT ![k] = bound[k]]
    BY <1>2, <1>3 DEF Has
  <2>2. k \in Keys /\ KeyAt[j] \in Keys
    BY <1>5, <2>1, KeyFacts
  <2>3. CASE j = i
    BY <1>2, <2>1, <2>2, <2>3 DEF k
  <2>4. CASE j # i
    <3>1. KeyAt[j] # k
      BY <2>1, <2>4, DifferentKeys DEF k
    <3>2. Has(guest[g], j)
      BY <2>1, <2>4 DEF Has, i
    <3> QED
      BY <1>2, <2>1, <2>2, <3>1, <3>2
  <2> QED
    BY <2>3, <2>4
<1>10. Placed'
  BY <1>1, <1>2, <1>3, <1>4 DEF Inv, Placed
<1>11. Attached'
  <2>1. \A h \in Guests, j \in 1..4 : Has(guest'[h], j) => holds'[h][KeyAt[j]] # 0
    BY <1>4, <1>8, <1>9 DEF Inv, Attached, Processes
  <2> QED
    BY <1>8, <2>1 DEF Attached
<1>12. Shared'
  <2>1. Removing' <=> Removing
    BY <1>1 DEF Removing
  <2> SUFFICES ASSUME ~rival, ~torn, NEW h \in Guests
               PROVE  /\ Attaching(h)' => \A j \in 1..4 :
                           Has(guest'[h], j) => holds'[h][KeyAt[j]] = bound[KeyAt[j]]
                      /\ On(h)' => \/ \A c \in Owned : holds'[h][c] = bound[c]
                                   \/ Removing
                                   \/ holds'[h]["sem"] # bound["sem"]
    BY <1>1, <2>1 DEF Shared
  <2>2. CASE h # g
    <3>1. /\ guest'[h] = guest[h] /\ holds'[h] = holds[h]
          /\ (Attaching(h)' <=> Attaching(h)) /\ (On(h)' <=> On(h))
      BY <1>4, <1>8, <2>2 DEF Processes, Attaching, On
    <3> QED
      BY <3>1 DEF Inv, Shared
  <2>3. CASE h = g /\ ~On(h)'
    <3> SUFFICES ASSUME Attaching(g)', NEW j \in 1..4, Has(to, j)
                 PROVE  r[KeyAt[j]] = bound[KeyAt[j]]
      BY <1>2, <1>4, <1>8, <2>3 DEF Attaching
    <3>1. CASE Has(guest[g], j) /\ r[KeyAt[j]] = holds[g][KeyAt[j]]
      <4>1. guest[g].pc = "attach" /\ i \in 1..4 /\ j < i
        BY <1>2, <1>3, <1>4, <3>1 DEF Has, Attaching, i
      <4> QED
        BY <3>1, <4>1 DEF Inv, Shared, Attaching, i
    <3> QED
      BY <1>9, <3>1
  <2>4. CASE h = g /\ On(h)'
    <3>1. /\ guest[g].pc = "attach" /\ i = 4 /\ to.pc = "on"
          /\ guest'[g] = to
      BY <1>2, <1>3, <1>4, <2>4 DEF On
    <3>2. \A j \in 1..4 : Has(guest[g], j) => holds[g][KeyAt[j]] = bound[KeyAt[j]]
      BY <3>1 DEF Inv, Shared, Attaching, i
    <3>3. \A j \in 1..4 : r[KeyAt[j]] = bound[KeyAt[j]]
      BY <1>9, <3>1, <3>2 DEF Has
    <3>4. \A c \in Owned : holds'[g][c] = bound[c]
      BY <1>8, <3>3, KeyFacts DEF Processes
    <3> QED
      BY <2>4, <3>1, <3>4 DEF Attaching
  <2> QED
    BY <2>2, <2>3, <2>4
<1> QED
  BY <1>8, <1>10, <1>11, <1>12 DEF Inv

-----------------------------------------------------------------------------
LEMMA NextInv == Inv /\ [Next]_vars => Inv'
<1> SUFFICES ASSUME Inv, [Next]_vars PROVE Inv'
  OBVIOUS
<1>1. ASSUME NEW a \in Agents,
             \/ Start(a) \/ AgentStep(a) \/ StartFails(a)
             \/ Stop(a) \/ Terminate(a) \/ Crash(a) \/ SuspendVMs(a) \/ ResumeVMs(a)
      PROVE  Inv'
  BY <1>1, StartStep, CreateStep, InitTimersStep, WriteTdfStep, PortStep, SetValStep,
     RemoveStep, CrashStep DEF AgentStep
<1>2. ASSUME NEW g \in Guests, GuestStarts(g) \/ Attach(g) \/ GuestEnds(g)
      PROVE  Inv'
  BY <1>2, GuestStep
<1>3. CASE UNCHANGED vars
  <2>1. /\ UNCHANGED <<bound, made, ticks, tdf, gostop, agent, guest, holds, port,
                       starts, failures, rival, torn, asked>>
    BY <1>3 DEF vars, ipc, history
  <2>2. Typed' /\ Placed' /\ Attached'
    BY <2>1 DEF Inv, Typed, Placed, Attached
  <2>3. Counted' /\ Served' /\ Alone'
    BY <2>1 DEF Inv, Counted, Makers, Served, Runs, Alone
  <2>4. Owning' /\ Standing' /\ Shared'
    BY <2>1 DEF Inv, Owning, Standing, Shared, Attaching, On, Removing
  <2> QED
    BY <2>2, <2>3, <2>4 DEF Inv
<1> QED
  BY <1>1, <1>2, <1>3 DEF Next

-----------------------------------------------------------------------------
(***************************************************************************)
(* Theorems                                                                 *)
(***************************************************************************)

\* The invariant, for any number of agents, guests, starts and failures.
THEOREM IpcInvariant == Spec => []Inv
BY InitInv, NextInv, PTL DEF Spec

\* Type correctness of IpcLifecycle: in particular no key names more objects
\* over time than agents were started, an agent in service holds an object of
\* every key, and at most one serves the port (__ipc_create, TcpAsyncServer).
THEOREM IpcTypeCorrect == Spec => []TypeOK
<1>1. Inv => TypeOK
  <2> SUFFICES ASSUME Inv PROVE TypeOK
    OBVIOUS
  <2>1. \A k \in Keys : /\ made[k] \in 0..MaxStarts /\ bound[k] \in 0..MaxStarts
                        /\ \A p \in Processes : holds[p][k] \in 0..MaxStarts
    <3> SUFFICES ASSUME NEW k \in Keys
                 PROVE  /\ made[k] \in 0..MaxStarts /\ bound[k] \in 0..MaxStarts
                        /\ \A p \in Processes : holds[p][k] \in 0..MaxStarts
      OBVIOUS
    <3>1. made[k] \in Nat /\ made[k] <= MaxStarts /\ MaxStarts \in Nat
      BY MadeBounded, IpcAssumption DEF Inv, Typed
    <3> QED
      BY <3>1 DEF Inv, Typed, Attached
  <2>2. /\ bound \in [Keys -> 0..MaxStarts] /\ made \in [Keys -> 0..MaxStarts]
        /\ holds \in [Agents \cup Guests -> [Keys -> 0..MaxStarts]]
    BY <2>1 DEF Inv, Typed, Processes
  <2>3. \A a \in Agents : Runs(a) => \A k \in Keys : holds[a][k] # 0
    BY KeyFacts DEF Inv, Attached, Runs, Has
  <2>4. Cardinality(port) <= 1
    <3>1. CASE port = {}
      BY <3>1, FS_EmptySet
    <3>2. CASE \E a \in port : TRUE
      <4>1. PICK a \in port : TRUE
        BY <3>2
      <4>2. port = {a}
        BY <4>1 DEF Inv, Served
      <4> QED
        BY <4>2, FS_Singleton
    <3> QED
      BY <3>1, <3>2
  <2> QED
    BY <2>2, <2>3, <2>4 DEF Inv, Typed, Placed, AgentPlace, Served, TypeOK
<1> QED
  BY <1>1, IpcInvariant, PTL

\* Whatever crashed or failed to start before, a guest finds the objects of the
\* agent in service under the keys, as long as no agent was started next to
\* another (IPC_CREAT without IPC_EXCL takes over what a crash left).
THEOREM KeysNameOwned == Spec => []RunningAgentOwnsKeys
<1>1. Inv => RunningAgentOwnsKeys
  BY KeyFacts DEF Inv, Owning, RunningAgentOwnsKeys, Runs, Has
<1> QED
  BY <1>1, IpcInvariant, PTL

\* The guests an agent freezes and frees through the semaphore are those that
\* read its clock and factor, unless a removal was left half done or met a
\* guest that attached (__ipc_remove, __ipc_attach).
THEOREM FrozenReadTheirClock == Spec => []SharedSemSharesClock
<1>1. Inv => SharedSemSharesClock
  <2> SUFFICES ASSUME Inv, ~rival, ~torn, NEW a \in Agents, NEW g \in Guests, Runs(a), On(g),
                      holds[a]["sem"] = holds[g]["sem"]
               PROVE  \A k \in Owned : holds[a][k] = holds[g][k]
    BY DEF SharedSemSharesClock
  <2>1. \A k \in Keys : holds[a][k] = bound[k]
    BY KeyFacts DEF Inv, Owning, Runs, Has
  <2>2. ~Removing
    BY DEF Inv, Alone, Runs, Removing
  <2>3. holds[g]["sem"] = bound["sem"]
    BY <2>1 DEF Keys
  <2>4. \A k \in Owned : holds[g][k] = bound[k]
    BY <2>2, <2>3 DEF Inv, Shared
  <2> QED
    BY <2>1, <2>4, KeyFacts
<1> QED
  BY <1>1, IpcInvariant, PTL

\* A running clock keeps its factor, in service and when an agent takes over
\* what a crashed one left, running or not (timers_state_create stops it first),
\* whatever Protocols 30 and 31 ask meanwhile; unless a rival was started, or
\* Protocol 31 has started the clock between a cycle's stop and its new factor.
THEOREM RunningClockKeepsFactor == Spec => FactorChangesWhileStopped
<1>1. Inv /\ [Next]_vars => [\A a \in Agents :
           /\ ~rival /\ ~RestartedInCycle(a)
           /\ holds[a]["timers"] # 0 /\ holds[a]["tdf"] # 0 /\ ticks[holds[a]["timers"]]
         => tdf'[holds[a]["tdf"]] = tdf[holds[a]["tdf"]]]_vars
  <2> SUFFICES ASSUME Inv, Next, NEW a \in Agents, ~rival, ~RestartedInCycle(a),
                      holds[a]["timers"] # 0, ticks[holds[a]["timers"]]
               PROVE  tdf' = tdf
    BY DEF vars
  <2>1. ASSUME NEW b \in Agents, InitTdf(b) \/ \E f \in Tdfs : SetTdf(b, f)
        PROVE  FALSE
    <3>1. agent[b] \in {At("init", 1), At("stopped", 0)}
      BY <2>1 DEF InitTdf, SetTdf, AgentGoes
    <3>2. agent[b].pc # "off" /\ agent[a].pc # "off"
      BY <3>1 DEF Inv, Attached, NoObjects, Keys, At
    <3>3. a = b
      BY <3>2 DEF Inv, Alone
    <3>4. ~ticks[holds[a]["timers"]]
      BY <3>1, <3>3 DEF Inv, Standing, RestartedInCycle, At
    <3> QED
      BY <3>4
  <2>2. ASSUME NEW b \in Agents,
               \/ Start(b) \/ Create(b) \/ InitTimers(b) \/ Bind(b) \/ Begin(b) \/ Go(b)
               \/ Remove(b) \/ StartFails(b) \/ Stop(b) \/ Terminate(b) \/ Crash(b)
               \/ SuspendVMs(b) \/ ResumeVMs(b)
        PROVE  tdf' = tdf
    BY <2>2 DEF Start, Create, InitTimers, Bind, Begin, Go, Remove, StartFails, Stop,
                Terminate, Crash, SuspendVMs, ResumeVMs, ipc
  <2>3. ASSUME NEW g \in Guests, GuestStarts(g) \/ Attach(g) \/ GuestEnds(g)
        PROVE  tdf' = tdf
    BY <2>3 DEF GuestStarts, Attach, GuestEnds, ipc
  <2> QED
    BY <2>1, <2>2, <2>3 DEF Next, AgentStep
<1> QED
  BY <1>1, IpcInvariant, PTL DEF Spec, FactorChangesWhileStopped
=============================================================================
