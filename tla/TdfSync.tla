------------------------------- MODULE TdfSync -------------------------------
(***************************************************************************)
(* The hosts of the testbed and the TDF table of one agent that listens to   *)
(* them.  Every host broadcasts its required factor once per period, in a    *)
(* UDP datagram that may be lost, delivered twice, or overtaken by a later   *)
(* one; there is no sequence number.  A host may die (send_to throws in the  *)
(* CpuMonitor thread, and nothing catches it) and be started again.          *)
(*                                                                           *)
(* What a host reports is CpuMonitor's `report', left open here.  It may be  *)
(* a NaN: "nan" is what operator<< writes and what atof reads.  In the       *)
(* table, maxTdf's comparisons pass over a NaN, unless it stands at the      *)
(* first entry of the map: then the maximum is a NaN, and so is its          *)
(* distance from the published factor, which no threshold admits.            *)
(***************************************************************************)
EXTENDS TdfTable, FiniteSets

CONSTANTS
  NaN,         \* the factor that is not a number
  MaxChanges,  \* bound: changes of a need, deaths, restarts, operator requests
  MaxDups      \* bound: deliveries of a datagram that will come again

\* The host names are numbers, in the order of the map's keys.
ASSUME SyncAssumption ==
  /\ Hosts \subseteq Nat
  /\ NaN \notin Tdfs /\ NaN # NoTdf
  /\ {MaxChanges, MaxDups} \subseteq Nat

VARIABLES
  need,       \* the factor that the host's CpuMonitor reports
  up,         \* the host's agent runs, and monitors
  net,        \* the datagrams under way
  poisoned,   \* hosts whose entry in tdfMap is a NaN (and not in tdfMap here)
  changes, dups

vars == <<tableVars, need, up, net, poisoned, changes, dups>>

Reports == [host : Hosts, tdf : Tdfs \cup {NaN}]

-----------------------------------------------------------------------------
(***************************************************************************)
(* The hosts                                                                *)
(***************************************************************************)
Changes ==
  /\ changes < MaxChanges
  /\ changes' = changes + 1

\* A NaN stays: every later factor is computed from it.
NeedChanges(h, t) ==
  /\ Changes
  /\ up[h] /\ need[h] # NaN /\ need[h] # t
  /\ need' = [need EXCEPT ![h] = t]
  /\ UNCHANGED <<tableVars, up, net, poisoned, dups>>

\* udpClient_.sendTo("0010|host|tdf")
Report(h) ==
  /\ up[h]
  /\ net' = net \cup {[host |-> h, tdf |-> need[h]]}
  /\ UNCHANGED <<tableVars, need, up, poisoned, changes, dups>>

\* send_to throws; or the host crashes.  A host whose monitoring Protocol 27
\* switches off (isLoadMonitored) falls silent in the same way.
Dies(h) ==
  /\ Changes
  /\ up[h]
  /\ up' = [up EXCEPT ![h] = FALSE]
  /\ UNCHANGED <<tableVars, need, net, poisoned, dups>>

\* A fresh agent begins at tdfMin.
Restarts(h) ==
  /\ Changes
  /\ ~up[h]
  /\ up' = [up EXCEPT ![h] = TRUE]
  /\ need' = [need EXCEPT ![h] = One]
  /\ UNCHANGED <<tableVars, net, poisoned, dups>>

-----------------------------------------------------------------------------
(***************************************************************************)
(* The listening agent                                                      *)
(***************************************************************************)
Entries(map, bad) == {h \in Hosts : map[h] # NoTdf} \cup bad

FirstIsPoisoned(map, bad) ==
  \E h \in bad : \A g \in Entries(map, bad) : h <= g

\* Mutant of Receive: no report gets past a NaN, wherever it stands.
ReceiveNoneWithNaN(h, t) ==
  LET value == IF t = NaN THEN NoTdf ELSE t
      bad   == IF t = NaN THEN poisoned \cup {h} ELSE poisoned \ {h}
  IN /\ poisoned' = bad
     /\ IF bad # {}
        THEN /\ tdfMap' = [tdfMap EXCEPT ![h] = value]
             /\ UNCHANGED <<isTableEnabled, latestTdf, tdfChangeThreshold>>
        ELSE setQuietly(h, value) \/ setAndNotify(h, value)

\* Mutant of Receive: the hysteresis asks "not closer than", as a NaN is.
ReceivePublishingNaN(h, t) ==
  LET value == IF t = NaN THEN NoTdf ELSE t
      bad   == IF t = NaN THEN poisoned \cup {h} ELSE poisoned \ {h}
      map   == [tdfMap EXCEPT ![h] = value]
  IN /\ poisoned' = bad
     /\ IF FirstIsPoisoned(map, bad)
        THEN /\ tdfMap' = map
             /\ latestTdf' = IF isTableEnabled THEN NaN ELSE latestTdf
             /\ UNCHANGED <<isTableEnabled, tdfChangeThreshold>>
        ELSE setQuietly(h, value) \/ setAndNotify(h, value)

\* Protocol 10: TdfTable::set, with a number or a NaN.
Receive(h, t) ==
  LET value == IF t = NaN THEN NoTdf ELSE t
      bad   == IF t = NaN THEN poisoned \cup {h} ELSE poisoned \ {h}
  IN /\ poisoned' = bad
     /\ IF FirstIsPoisoned([tdfMap EXCEPT ![h] = value], bad)
        THEN /\ tdfMap' = [tdfMap EXCEPT ![h] = value]
             /\ UNCHANGED <<isTableEnabled, latestTdf, tdfChangeThreshold>>
        ELSE setQuietly(h, value) \/ setAndNotify(h, value)

Deliver(d) ==
  /\ d \in net
  /\ net' = net \ {d}
  /\ Receive(d.host, d.tdf)
  /\ UNCHANGED <<need, up, changes, dups>>

\* The datagram is delivered, and a copy of it will be.
Duplicate(d) ==
  /\ d \in net
  /\ dups < MaxDups
  /\ dups' = dups + 1
  /\ Receive(d.host, d.tdf)
  /\ UNCHANGED <<need, up, net, changes>>

Lose(d) ==
  /\ d \in net
  /\ net' = net \ {d}
  /\ UNCHANGED <<tableVars, need, up, poisoned, changes, dups>>

\* Protocols 11, 12, 13, 23 and 28.
Operator ==
  /\ Changes
  /\ \/ /\ \/ \E t \in Tdfs : enforceTdf(t)
           \/ enableTable
           \/ disableTable
           \/ \E th \in Thresholds : setThreshold(th)
        /\ UNCHANGED poisoned
     \/ clear /\ poisoned' = {}
  /\ UNCHANGED <<need, up, net, dups>>

-----------------------------------------------------------------------------
Init ==
  /\ TableInit
  /\ need = [h \in Hosts |-> One]
  /\ up = [h \in Hosts |-> TRUE]
  /\ net = {}
  /\ poisoned = {}
  /\ changes = 0 /\ dups = 0

Next ==
  \/ \E h \in Hosts : \/ \E t \in Tdfs \cup {NaN} : NeedChanges(h, t)
                      \/ Report(h) \/ Dies(h) \/ Restarts(h)
  \/ \E d \in Reports : Deliver(d) \/ Duplicate(d) \/ Lose(d)
  \/ Operator

\* Every monitor goes on reporting; a datagram does not stay under way for
\* ever; and of the reports that a host repeats some arrive.
Fairness ==
  /\ \A h \in Hosts : WF_vars(Report(h))
  /\ \A d \in Reports : WF_vars(Deliver(d) \/ Lose(d))
  /\ \A h \in Hosts : SF_vars(Deliver([host |-> h, tdf |-> need[h]]))

Spec == Init /\ [][Next]_vars /\ Fairness

-----------------------------------------------------------------------------
\* Type invariant: in particular a NaN in the table is never published.
TypeOK ==
  /\ TableTypeOK
  /\ need \in [Hosts -> Tdfs \cup {NaN}]
  /\ up \in [Hosts -> BOOLEAN]
  /\ net \subseteq Reports
  /\ poisoned \subseteq {h \in Hosts : tdfMap[h] = NoTdf}
  /\ changes \in 0..MaxChanges /\ dups \in 0..MaxDups

\* What the published factor of a table in charge owes to its entries.
Follows(latest, map) ==
  /\ \A h \in Hosts : map[h] # NoTdf =>
       \/ map[h] <= latest
       \/ map[h] * Unit < latest * (Unit + tdfChangeThreshold)
  /\ \E h \in Hosts : map[h] # NoTdf /\
       \/ map[h] = latest
       \/ map[h] * Unit > latest * (Unit - tdfChangeThreshold)

\* When needs and operators leave off changing, the table ends up with what
\* every live host needs, and the published factor with the largest entry up
\* to the hysteresis, however datagrams were lost, doubled and overtaken; also
\* when the table was enabled, cleared or given another threshold meanwhile,
\* for every later report computes the maximum anew.  The exceptions are the
\* code's: a dead host's entry counts on, and a NaN at the first entry keeps
\* every report from being published.
SettledIsTracked ==
  <>[](isTableEnabled /\ (\E h \in Hosts : up[h]) /\ ~FirstIsPoisoned(tdfMap, poisoned)
       => /\ \A h \in Hosts : up[h] =>
               tdfMap[h] = (IF need[h] = NaN THEN NoTdf ELSE need[h])
          /\ Follows(latestTdf, tdfMap))
=============================================================================
