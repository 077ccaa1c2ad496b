--------------------------- MODULE TdfSync_proofs ----------------------------
(***************************************************************************)
(* Proofs about TdfSync, for any hosts, factors and thresholds, and any      *)
(* number of changes and of datagrams lost, doubled and overtaken.           *)
(***************************************************************************)
EXTENDS TdfSync, TLAPS

\* Every call of the table leaves a number published.
LEMMA TableCallType ==
  ASSUME TableTypeOK,
         \/ \E h \in Hosts, v \in Tdfs \cup {NoTdf} : setQuietly(h, v) \/ setAndNotify(h, v)
         \/ \E t \in Tdfs : enforceTdf(t)
         \/ enableTable \/ disableTable \/ clear
         \/ \E th \in Thresholds : setThreshold(th)
  PROVE  TableTypeOK'
<1>1. ASSUME NEW h \in Hosts, NEW v \in Tdfs \cup {NoTdf}, setQuietly(h, v)
      PROVE  TableTypeOK'
  BY <1>1 DEF setQuietly, TableTypeOK
<1>2. ASSUME NEW h \in Hosts, NEW v \in Tdfs \cup {NoTdf}, setAndNotify(h, v)
      PROVE  TableTypeOK'
  BY <1>2 DEF setAndNotify, TableTypeOK
<1>3. CASE (\E t \in Tdfs : enforceTdf(t)) \/ disableTable
  <2>1. isTableEnabled' \in BOOLEAN
    BY <1>3, Zenon DEF enforceTdf, disableTable
  <2> QED
    BY <1>3, <2>1 DEF enforceTdf, disableTable, TableTypeOK
<1>4. CASE enableTable
  BY <1>4 DEF enableTable, TableTypeOK
<1>5. CASE clear \/ \E th \in Thresholds : setThreshold(th)
  BY <1>5 DEF clear, setThreshold, TableTypeOK
<1> QED
  BY <1>1, <1>2, <1>3, <1>4, <1>5

\* A report takes effect on the map alone, or through one call of set.
LEMMA ReceiveType ==
  ASSUME TypeOK, NEW h \in Hosts, NEW t \in Tdfs \cup {NaN}, Receive(h, t)
  PROVE  TableTypeOK' /\ poisoned' \subseteq {g \in Hosts : tdfMap'[g] = NoTdf}
<1> DEFINE value == IF t = NaN THEN NoTdf ELSE t
<1>1. value \in Tdfs \cup {NoTdf} /\ (t = NaN => value = NoTdf)
  OBVIOUS
<1>2. /\ poisoned' = IF t = NaN THEN poisoned \cup {h} ELSE poisoned \ {h}
      /\ \/ /\ tdfMap' = [tdfMap EXCEPT ![h] = value]
            /\ UNCHANGED <<isTableEnabled, latestTdf, tdfChangeThreshold>>
         \/ setQuietly(h, value) \/ setAndNotify(h, value)
  BY DEF Receive
<1> HIDE DEF value
<1>3. tdfMap' = [tdfMap EXCEPT ![h] = value]
  BY <1>2 DEF setQuietly, setAndNotify
<1>4. TableTypeOK
  BY DEF TypeOK
<1>5. TableTypeOK'
  <2>1. CASE UNCHANGED <<isTableEnabled, latestTdf, tdfChangeThreshold>>
    BY <1>1, <1>3, <1>4, <2>1 DEF TableTypeOK
  <2> QED
    BY <1>1, <1>2, <1>4, <2>1, TableCallType
<1>6. ASSUME NEW g \in poisoned' PROVE g \in Hosts /\ tdfMap'[g] = NoTdf
  <2>1. CASE t = NaN
    BY <1>1, <1>2, <1>3, <1>4, <1>6, <2>1 DEF TypeOK, TableTypeOK
  <2>2. CASE t # NaN
    BY <1>2, <1>3, <1>4, <1>6, <2>2 DEF TypeOK, TableTypeOK
  <2> QED
    BY <2>1, <2>2
<1> QED
  BY <1>5, <1>6

\* Type correctness.  In particular what the table publishes is a number,
\* whatever the hosts report.
THEOREM SyncTypeCorrect == Spec => []TypeOK
<1>1. Init => TypeOK
  <2> SUFFICES ASSUME Init PROVE TypeOK
    OBVIOUS
  <2>1. isTableEnabled \in BOOLEAN
    BY Zenon DEF Init, TableInit
  <2>2. TableTypeOK
    BY <2>1, TdfTableAssumption DEF Init, TableInit, TableTypeOK
  <2>3. need \in [Hosts -> Tdfs \cup {NaN}]
    BY TdfTableAssumption DEF Init
  <2> QED
    BY <2>2, <2>3, SyncAssumption DEF Init, TypeOK
<1>2. TypeOK /\ [Next]_vars => TypeOK'
  <2> SUFFICES ASSUME TypeOK, [Next]_vars PROVE TypeOK'
    OBVIOUS
  <2>1. ASSUME UNCHANGED <<tableVars, poisoned>>
        PROVE  TableTypeOK' /\ poisoned' \subseteq {h \in Hosts : tdfMap'[h] = NoTdf}
    BY <2>1 DEF tableVars, TypeOK, TableTypeOK
  <2>2. Changes => changes' \in 0..MaxChanges
    BY SyncAssumption DEF TypeOK, Changes
  <2>3. ASSUME NEW h \in Hosts, NEW t \in Tdfs \cup {NaN}, NeedChanges(h, t)
        PROVE  TypeOK'
    BY <2>1, <2>2, <2>3 DEF TypeOK, NeedChanges
  <2>4. ASSUME NEW h \in Hosts, Report(h) PROVE TypeOK'
    <3>1. [host |-> h, tdf |-> need[h]] \in Reports
      BY DEF TypeOK, Reports
    <3> QED
      BY <2>1, <2>4, <3>1 DEF TypeOK, Report
  <2>5. ASSUME NEW h \in Hosts, Dies(h) \/ Restarts(h) PROVE TypeOK'
    BY <2>1, <2>2, <2>5, TdfTableAssumption DEF TypeOK, Dies, Restarts
  <2>6. ASSUME NEW d \in Reports, Deliver(d) \/ Duplicate(d) PROVE TypeOK'
    <3>1. d.host \in Hosts /\ d.tdf \in Tdfs \cup {NaN}
      BY DEF Reports
    <3>2. TableTypeOK' /\ poisoned' \subseteq {g \in Hosts : tdfMap'[g] = NoTdf}
      BY <2>6, <3>1, ReceiveType DEF Deliver, Duplicate
    <3>3. dups' \in 0..MaxDups
      BY <2>6, SyncAssumption DEF TypeOK, Deliver, Duplicate
    <3> QED
      BY <2>6, <3>2, <3>3 DEF TypeOK, Deliver, Duplicate
  <2>7. ASSUME NEW d \in Reports, Lose(d) PROVE TypeOK'
    BY <2>1, <2>7 DEF TypeOK, Lose
  <2>8. CASE Operator
    <3>1. TableTypeOK'
      BY <2>8, TableCallType DEF TypeOK, Operator
    <3>2. CASE clear /\ poisoned' = {}
      BY <2>2, <2>8, <3>1, <3>2 DEF TypeOK, Operator
    <3>3. CASE UNCHANGED <<poisoned, tdfMap>>
      BY <2>2, <2>8, <3>1, <3>3 DEF TypeOK, Operator
    <3> QED
      BY <2>8, <3>2, <3>3 DEF Operator, enforceTdf, enableTable, disableTable, setThreshold
  <2>9. CASE UNCHANGED vars
    BY <2>1, <2>9 DEF TypeOK, vars
  <2> QED
    BY <2>3, <2>4, <2>5, <2>6, <2>7, <2>8, <2>9 DEF Next
<1> QED
  BY <1>1, <1>2, PTL DEF Spec
=============================================================================
