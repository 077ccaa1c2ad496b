-------------------------- MODULE LinkTable_proofs --------------------------
(***************************************************************************)
(* Proofs about LinkTable, for any links, values and factors, and any       *)
(* number of requests, passes and failures.                                 *)
(***************************************************************************)
EXTENDS LinkTable, WellFoundedInduction, TLAPS

\* Where a pass stands when it has moved its iterator to link m.
Testing(m) == [VtIdle EXCEPT !.pc = "test", !.link = m]

\* The iterator moves to the least later link, or ends the pass; only while a
\* node is being inserted may it do anything else.
LEMMA Iteration ==
  ASSUME NEW l \in Links \cup {0}, IteratesTo(l)
  PROVE  /\ vt' = VtIdle \/ \E m \in Later(l) : vt' = Testing(m)
         /\ raced' = raced \/ raced' = TRUE
         /\ alive' = alive \/ alive' = FALSE
         /\ io.pc = "insert" => raced' = TRUE
         /\ io.pc # "insert" => raced' = raced
         /\ io.pc # "insert" /\ vt' = VtIdle => Later(l) = {}
         /\ io.pc # "insert" => \A m \in Later(l) : vt'.link <= m
<1>1. CASE io.pc = "insert"
  BY <1>1, Zenon DEF IteratesTo, Testing
<1>2. CASE io.pc # "insert" /\ Later(l) = {}
  BY <1>2 DEF IteratesTo
<1>3. CASE io.pc # "insert" /\ Later(l) # {}
  <2> DEFINE least == CHOOSE m \in Later(l) : \A n \in Later(l) : m <= n
  <2>1. Later(l) \in SUBSET Nat
    BY LinkAssumption DEF Later, InTable
  <2>2. \E m \in Later(l) : \A n \in Later(l) : m <= n
    <3>1. \E m \in Later(l) : \A n \in Later(l) : ~(<<n, m>> \in OpToRel(<, Nat))
      BY <1>3, <2>1, NatLessThanWellFounded, WFMin
    <3>2. PICK m \in Later(l) : \A n \in Later(l) : ~(<<n, m>> \in OpToRel(<, Nat))
      BY <3>1
    <3>3. \A n \in Later(l) : ~(n < m)
      BY <2>1, <3>2 DEF OpToRel
    <3> QED
      BY <2>1, <3>3
  <2>3. least \in Later(l) /\ \A n \in Later(l) : least <= n
    BY <2>2
  <2>4. vt' = Testing(least) /\ raced' = raced /\ alive' = alive
    BY <1>3 DEF IteratesTo, Testing
  <2> HIDE DEF least
  <2>5. vt'.link = least /\ vt' # VtIdle
    BY <2>4 DEF Testing, VtIdle
  <2> QED
    BY <1>3, <2>3, <2>4, <2>5
<1> QED
  BY <1>1, <1>2, <1>3

-----------------------------------------------------------------------------
(***************************************************************************)
(* The invariant                                                            *)
(***************************************************************************)

\* TypeOK, in parts.
TableType ==
  /\ table \in [Links -> Entry \cup {None}]
  /\ latestTdf \in Tdfs

KernelType ==
  /\ root \in [Links -> BOOLEAN]
  /\ knob \in [Links -> [Knobs -> Setting \cup {None}]]

IoType ==
  /\ io \in [pc : {"idle", "insert", "tc"}, op : {"replace", "change"},
             link : Links \cup {0}, val : Values \cup {None}, tdf : Tdfs, n : 0..6]
  /\ io.pc # "idle" => io.link \in Links /\ io.val \in Values
  /\ io.pc = "tc" => io.n \in 1..Len(Commands(io.op))

VtType ==
  /\ vt \in [pc : {"idle", "test", "rate", "delay", "tc", "del", "erase"},
             link : Links \cup {0}, rate : Values \cup {None},
             delay : Values \cup {None}, n : 0..5]
  /\ vt.pc # "idle" => vt.link \in InTable
  /\ vt.pc \in {"delay", "tc"} => vt.rate \in Values
  /\ vt.pc = "tc" => vt.delay \in Values /\ vt.n \in 1..5

FlagType == alive \in BOOLEAN /\ raced \in BOOLEAN

CountType ==
  /\ requests \in 0..MaxRequests /\ passes \in 0..MaxPasses
  /\ failures \in 0..MaxFailures

HistoryType == steady \subseteq InTable /\ doomed \subseteq Links /\ lost \subseteq Links

LEMMA TypeParts ==
  TypeOK <=> /\ TableType /\ KernelType /\ IoType /\ VtType /\ FlagType
             /\ CountType /\ HistoryType
BY DEF TypeOK, TableType, KernelType, IoType, VtType, FlagType, CountType, HistoryType

\* What the two threads know of each other's link: a link under configuration
\* is kept, or was lost to a removal that had begun before.
Crossing ==
  /\ io.pc = "insert" => io.link \notin InTable
  /\ io.pc = "tc" /\ io.link \in InTable => table[io.link].keep
  /\ io.pc = "tc" /\ io.link \notin InTable => io.link \in lost
  /\ vt.pc \in {"del", "erase"} /\ io.pc = "tc" /\ io.link = vt.link
       => vt.link \in lost
  /\ vt.pc = "erase" => ~root[vt.link] \/ vt.link \in lost
  /\ vt.pc = "idle" => vt = VtIdle

\* What the histories say: nobody works on a steady or doomed link but the pass.
Untouched ==
  /\ \A l \in steady : table[l].keep
  /\ vt.pc \in {"del", "erase"} => vt.link \notin steady
  /\ io.pc # "idle" => io.link \notin steady \cup doomed

Inv == TypeOK /\ Crossing /\ Untouched /\ OrphansExplained

-----------------------------------------------------------------------------
(***************************************************************************)
(* Types                                                                    *)
(***************************************************************************)

\* A tc command, run or failed, keeps the kernel well-formed.
LEMMA TcType ==
  ASSUME TypeOK, NEW op, NEW l \in Links, NEW k, NEW s \in Setting,
         TcRuns(op, l, k, s) \/ TcFails(l)
  PROVE  /\ KernelType'
         /\ failures' \in 0..MaxFailures
         /\ steady' \subseteq steady /\ doomed' \subseteq doomed
<1>1. CASE TcFails(l)
  <2>1. failures' \in 0..MaxFailures
    BY <1>1, LinkAssumption DEF TcFails, TypeOK
  <2> QED
    BY <1>1, <2>1 DEF TcFails, TypeOK, KernelType, kernel
<1>2. CASE TcRuns(op, l, k, s)
  <2>1. root' \in [Links -> BOOLEAN]
    <3>1. (root[l] \/ k = "root") \in BOOLEAN
      BY Zenon
    <3> QED
      BY <1>2, <3>1 DEF TcRuns, TypeOK
  <2>2. knob' \in [Links -> [Knobs -> Setting \cup {None}]]
    <3>1. knob \in [Links -> [Knobs -> Setting \cup {None}]]
      BY DEF TypeOK
    <3>2. CASE knob' = knob
      BY <3>1, <3>2
    <3>3. CASE knob' = [knob EXCEPT ![l][k] = s]
      BY <3>1, <3>3
    <3> QED
      BY <1>2, <3>2, <3>3 DEF TcRuns
  <2> QED
    BY <1>2, <2>1, <2>2 DEF TcRuns, TypeOK, KernelType
<1> QED
  BY <1>1, <1>2

\* The iterator stands on an entry, or the pass is over.
LEMMA IterationType ==
  ASSUME TypeOK, NEW l \in Links \cup {0}, IteratesTo(l), Later(l) \subseteq InTable'
  PROVE  VtType' /\ FlagType'
<1>1. 0 \in Links \cup {0} /\ None \in Values \cup {None} /\ 0 \in 0..5
  OBVIOUS
<1>2. VtIdle \in [pc : {"idle", "test", "rate", "delay", "tc", "del", "erase"},
                  link : Links \cup {0}, rate : Values \cup {None},
                  delay : Values \cup {None}, n : 0..5]
  BY DEF VtIdle
<1>5. FlagType'
  <2>1. alive \in BOOLEAN /\ raced \in BOOLEAN
    BY DEF TypeOK
  <2>2. raced' = raced \/ raced' = TRUE
    BY Iteration
  <2>3. alive' = alive \/ alive' = FALSE
    BY Iteration
  <2>4. raced' \in BOOLEAN
    BY <2>1, <2>2, Zenon
  <2>5. alive' \in BOOLEAN
    BY <2>1, <2>3, Zenon
  <2> QED
    BY <2>4, <2>5 DEF FlagType
<1>3. CASE vt' = VtIdle
  <2>1. vt'.pc = "idle"
    BY <1>3 DEF VtIdle
  <2> QED
    BY <1>2, <1>3, <1>5, <2>1 DEF VtType
<1>4. CASE \E m \in Later(l) : vt' = Testing(m)
  <2>1. PICK m \in Later(l) : vt' = Testing(m)
    BY <1>4
  <2>2. m \in InTable' /\ m \in Links
    BY <2>1 DEF Later, InTable
  <2>3. vt' = [pc |-> "test", link |-> m, rate |-> None, delay |-> None, n |-> 0]
    BY <2>1 DEF Testing, VtIdle
  <2>4. VtType'
    <3>1. vt' \in [pc : {"idle", "test", "rate", "delay", "tc", "del", "erase"},
                   link : Links \cup {0}, rate : Values \cup {None},
                   delay : Values \cup {None}, n : 0..5]
      BY <1>1, <2>2, <2>3
    <3>2. vt'.pc = "test" /\ vt'.link \in InTable'
      BY <2>2, <2>3
    <3> QED
      BY <3>1, <3>2 DEF VtType
  <2> QED
    BY <2>4, <1>5
<1> QED
  BY <1>3, <1>4, Iteration

\* A request has been counted.
LEMMA RequestedType ==
  ASSUME TypeOK, Requested
  PROVE  requests' \in 0..MaxRequests
BY LinkAssumption DEF TypeOK, Requested

LEMMA CommandLengths == Len(ReplaceCommands) = 6 /\ Len(ChangeCommands) = 5
BY DEF ReplaceCommands, ChangeCommands

\* What is left of a request is well-formed.
LEMMA JobType ==
  ASSUME TypeOK, NEW op \in {"replace", "change"}, NEW l \in Links, NEW v \in Values
  PROVE  /\ io' = JobOf(op, l, v) => IoType'
         /\ io' = [pc |-> "insert", op |-> op, link |-> l, val |-> v, tdf |-> One, n |-> 0]
              => IoType'
<1>1. One \in Tdfs /\ latestTdf \in Tdfs
  BY LinkAssumption DEF TypeOK
<1>2. 1 \in 1..Len(Commands(op))
  <2>1. Len(Commands(op)) \in {5, 6}
    BY CommandLengths DEF Commands
  <2> QED
    BY <2>1
<1>3. ASSUME io' = JobOf(op, l, v) PROVE IoType'
  <2>1. /\ io'.pc = "tc" /\ io'.op = op /\ io'.link = l /\ io'.val = v /\ io'.n = 1
        /\ io' \in [pc : {"idle", "insert", "tc"}, op : {"replace", "change"},
                    link : Links \cup {0}, val : Values \cup {None}, tdf : Tdfs, n : 0..6]
    BY <1>1, <1>3 DEF JobOf
  <2> QED
    BY <1>2, <2>1 DEF IoType
<1>4. ASSUME io' = [pc |-> "insert", op |-> op, link |-> l, val |-> v, tdf |-> One, n |-> 0]
      PROVE  IoType'
  <2>1. io' \in [pc : {"idle", "insert", "tc"}, op : {"replace", "change"},
                 link : Links \cup {0}, val : Values \cup {None}, tdf : Tdfs, n : 0..6]
    BY <1>1, <1>4
  <2>2. io'.pc = "insert" /\ io'.link = l /\ io'.val = v
    BY <1>4
  <2> QED
    BY <2>1, <2>2 DEF IoType
<1> QED
  BY <1>3, <1>4

\* An entry that replaces one, or is inserted, keeps the table well-formed.
LEMMA StoredType ==
  ASSUME TypeOK, NEW l \in Links, NEW e \in Entry,
         table' = [table EXCEPT ![l] = e], UNCHANGED latestTdf
  PROVE  TableType' /\ InTable' = InTable \cup {l}
<1>1. e # None
  BY LinkAssumption DEF Entry
<1> QED
  BY <1>1 DEF TypeOK, TableType, InTable

LEMMA InvAfter ==
  ASSUME TableType', KernelType', IoType', VtType', FlagType', CountType',
         HistoryType', Crossing', Untouched', OrphansExplained'
  PROVE  Inv'
BY DEF Inv, TypeOK, TableType, KernelType, IoType, VtType, FlagType, CountType,
       HistoryType

\* Links that are kept in the table across a step keep what refers to it.
LEMMA VtKeepsType ==
  ASSUME VtType, UNCHANGED vt, InTable \subseteq InTable'
  PROVE  VtType'
BY DEF VtType

-----------------------------------------------------------------------------
(***************************************************************************)
(* The invariant's steps, one lemma per action                              *)
(***************************************************************************)

LEMMA InitInv == Init => Inv
<1> SUFFICES ASSUME Init PROVE Inv
  OBVIOUS
<1>1. One \in Tdfs /\ Configured \subseteq Links
  BY LinkAssumption
<1>2. PICK e \in Entry :
        /\ table = [l \in Links |-> IF l \in Configured THEN e ELSE None]
        /\ knob = [l \in Links |-> [k \in Knobs |->
                    IF l \in Configured THEN [val |-> e.val, tdf |-> One] ELSE None]]
  BY DEF Init
<1>3. TableType
  BY <1>1, <1>2 DEF Init, TableType
<1>4. KernelType
  <2>1. [val |-> e.val, tdf |-> One] \in Setting
    BY <1>1, <1>2 DEF Entry, Setting
  <2> QED
    BY <1>1, <1>2, <2>1 DEF Init, KernelType
<1>5. IoType /\ io.pc = "idle"
  BY <1>1 DEF Init, IoType, IoIdle
<1>6. VtType /\ vt.pc = "idle" /\ vt = VtIdle
  BY DEF Init, VtType, VtIdle
<1>10. FlagType
  BY DEF Init, FlagType
<1>7. CountType /\ HistoryType
  <2>1. MaxRequests \in Nat /\ MaxPasses \in Nat /\ MaxFailures \in Nat
    BY LinkAssumption
  <2> QED
    BY <2>1, SMT DEF Init, CountType, HistoryType
<1>8. Crossing /\ Untouched
  BY <1>5, <1>6 DEF Init, Crossing, Untouched
<1>9. OrphansExplained
  <2>1. \A l \in Configured : table[l] # None
    BY <1>1, <1>2, LinkAssumption DEF Entry
  <2> QED
    BY <1>1, <2>1 DEF Init, OrphansExplained, InTable
<1> QED
  BY <1>3, <1>4, <1>5, <1>6, <1>7, <1>8, <1>9, <1>10, TypeParts DEF Inv

\* A request that finds its link in the table.
LEMMA SetReplaces ==
  ASSUME Inv, NEW op \in {"replace", "change"}, NEW l \in Links, NEW v \in Values,
         Set(op, l, v), l \in InTable
  PROVE  Inv'
<1>1. TypeOK /\ Crossing /\ Untouched /\ OrphansExplained
  BY DEF Inv
<1>2. /\ table' = [table EXCEPT ![l] = [val |-> v, keep |-> TRUE]]
      /\ io' = JobOf(op, l, v)
      /\ steady' = steady \ {l} /\ doomed' = doomed \ {l}
      /\ raced' = (raced \/ vt.pc = "erase")
      /\ lost' = IF vt.pc \in {"del", "erase"} /\ vt.link = l THEN lost \cup {l} ELSE lost
      /\ UNCHANGED <<root, knob, latestTdf, vt, alive, passes, failures>>
      /\ Requested
  BY DEF Set, Touches, kernel
<1>3. [val |-> v, keep |-> TRUE] \in Entry
  BY DEF Entry
<1>4. TableType' /\ InTable' = InTable \cup {l}
  BY <1>1, <1>2, <1>3, StoredType
<1>5. KernelType' /\ VtType'
  BY <1>1, <1>2, <1>4, TypeParts, VtKeepsType DEF KernelType
<1>6. IoType'
  BY <1>1, <1>2, JobType
<1>7. FlagType'
  <2>1. (raced \/ vt.pc = "erase") \in BOOLEAN
    BY Zenon
  <2> QED
    BY <1>1, <1>2, <2>1 DEF TypeOK, FlagType
<1>8. CountType' /\ HistoryType'
  BY <1>1, <1>2, <1>4, RequestedType DEF TypeOK, CountType, HistoryType
<1>9. io'.pc = "tc" /\ io'.link = l
  BY <1>2 DEF JobOf
<1>10. /\ table'[l].keep
       /\ \A m \in Links \ {l} : table'[m] = table[m]
  BY <1>1, <1>2 DEF TypeOK
<1>11. Crossing'
  BY <1>1, <1>2, <1>4, <1>9, <1>10 DEF Crossing
<1>12. Untouched'
  <2>1. \A m \in steady' : m \in Links \ {l} /\ m \in steady
    BY <1>1, <1>2 DEF TypeOK, InTable
  <2> QED
    BY <1>1, <1>2, <1>9, <1>10, <2>1 DEF Untouched
<1>13. OrphansExplained'
  BY <1>1, <1>2, <1>4 DEF OrphansExplained
<1> QED
  BY <1>4, <1>5, <1>6, <1>7, <1>8, <1>11, <1>12, <1>13, InvAfter

\* A request that begins to insert its link.
LEMMA SetInserts ==
  ASSUME Inv, NEW op \in {"replace", "change"}, NEW l \in Links, NEW v \in Values,
         Set(op, l, v), l \notin InTable
  PROVE  Inv'
<1>1. TypeOK /\ Crossing /\ Untouched /\ OrphansExplained
  BY DEF Inv
<1>2. /\ io' = [pc |-> "insert", op |-> op, link |-> l, val |-> v, tdf |-> One, n |-> 0]
      /\ steady' = steady \ {l} /\ doomed' = doomed \ {l}
      /\ raced' = (raced \/ vt.pc = "erase")
      /\ lost \subseteq lost' /\ lost' \subseteq lost \cup {l}
      /\ UNCHANGED <<table, root, knob, latestTdf, vt, alive, passes, failures>>
      /\ Requested
  BY DEF Set, Touches, kernel
<1>3. InTable' = InTable
  BY <1>2 DEF InTable
<1>4. TableType' /\ KernelType' /\ VtType'
  BY <1>1, <1>2, <1>3, TypeParts, VtKeepsType DEF TableType, KernelType
<1>5. IoType'
  BY <1>1, <1>2, JobType
<1>6. FlagType'
  <2>1. (raced \/ vt.pc = "erase") \in BOOLEAN
    BY Zenon
  <2> QED
    BY <1>1, <1>2, <2>1 DEF TypeOK, FlagType
<1>7. CountType' /\ HistoryType'
  BY <1>1, <1>2, <1>3, RequestedType DEF TypeOK, CountType, HistoryType
<1>8. io'.pc = "insert" /\ io'.link = l
  BY <1>2
<1>9. Crossing'
  BY <1>1, <1>2, <1>3, <1>8 DEF Crossing
<1>10. Untouched'
  BY <1>1, <1>2, <1>8 DEF Untouched
<1>11. OrphansExplained'
  BY <1>1, <1>2, <1>3 DEF OrphansExplained
<1> QED
  BY <1>4, <1>5, <1>6, <1>7, <1>9, <1>10, <1>11, InvAfter

\* The node is in the table.
LEMMA SetInsertedStep ==
  ASSUME Inv, SetInserted
  PROVE  Inv'
<1>1. TypeOK /\ Crossing /\ Untouched /\ OrphansExplained
  BY DEF Inv
<1> DEFINE l == io.link
<1>2. /\ io.pc = "insert" /\ l \in Links /\ l \notin InTable
      /\ io.op \in {"replace", "change"} /\ io.val \in Values
  BY <1>1 DEF SetInserted, TypeOK, Crossing
<1>3. /\ table' = [table EXCEPT ![l] = [val |-> io.val, keep |-> TRUE]]
      /\ io' = JobOf(io.op, l, io.val)
      /\ lost' = lost \ {l}
      /\ UNCHANGED <<root, knob, latestTdf, vt, alive, requests, passes, failures>>
      /\ UNCHANGED <<steady, doomed, raced>>
  BY DEF SetInserted, kernel, bounds
<1>4. [val |-> io.val, keep |-> TRUE] \in Entry
  BY <1>2 DEF Entry
<1> HIDE DEF l
<1>5. TableType' /\ InTable' = InTable \cup {l}
  BY <1>1, <1>2, <1>3, <1>4, StoredType
<1>6. KernelType' /\ VtType'
  BY <1>1, <1>3, <1>5, TypeParts, VtKeepsType DEF KernelType
<1>7. IoType'
  BY <1>1, <1>2, <1>3, JobType
<1>8. FlagType' /\ CountType'
  BY <1>1, <1>3, TypeParts DEF FlagType, CountType
<1>9. HistoryType'
  BY <1>1, <1>3, <1>5 DEF TypeOK, HistoryType
<1>10. io'.pc = "tc" /\ io'.link = l
  BY <1>3 DEF JobOf
<1>11. /\ table'[l].keep
       /\ \A m \in Links \ {l} : table'[m] = table[m]
  BY <1>1, <1>2, <1>3 DEF TypeOK
<1>12. vt.pc # "idle" => vt.link # l
  BY <1>1, <1>2 DEF TypeOK
<1>13. Crossing'
  BY <1>1, <1>3, <1>5, <1>10, <1>11, <1>12 DEF Crossing
<1>14. Untouched'
  <2>1. steady \subseteq Links \ {l}
    BY <1>1, <1>2 DEF TypeOK, InTable
  <2>2. l \notin steady \cup doomed
    BY <1>1, <1>2 DEF Untouched, l
  <2> QED
    BY <1>1, <1>3, <1>10, <1>11, <2>1, <2>2 DEF Untouched
<1>15. OrphansExplained'
  BY <1>1, <1>3, <1>5 DEF OrphansExplained
<1> QED
  BY <1>5, <1>6, <1>7, <1>8, <1>9, <1>13, <1>14, <1>15, InvAfter

\* A command sets up the root discipline of its own link, and no other.
LEMMA TcRoots ==
  ASSUME TypeOK, NEW op, NEW l \in Links, NEW k, NEW s,
         TcRuns(op, l, k, s) \/ TcFails(l)
  PROVE  /\ \A m \in Links \ {l} : root'[m] = root[m]
         /\ k # "root" => root' = root
<1>1. CASE TcFails(l)
  BY <1>1 DEF TcFails, kernel
<1>2. CASE TcRuns(op, l, k, s)
  <2>1. root \in [Links -> BOOLEAN] /\ root' = [root EXCEPT ![l] = @ \/ k = "root"]
    BY <1>2 DEF TcRuns, TypeOK
  <2>2. ASSUME k # "root" PROVE root' = root
    <3>1. (root[l] \/ k = "root") = root[l]
      BY <2>1, <2>2
    <3> QED
      BY <2>1, <3>1
  <2> QED
    BY <2>1, <2>2
<1> QED
  BY <1>1, <1>2

\* A tc command of the io thread.
LEMMA IoTcStep ==
  ASSUME Inv, IoTc
  PROVE  Inv'
<1>1. TypeOK /\ Crossing /\ Untouched /\ OrphansExplained
  BY DEF Inv
<1> DEFINE l == io.link
           k == Commands(io.op)[io.n]
           s == [val |-> io.val, tdf |-> io.tdf]
<1>2. /\ io.pc = "tc" /\ l \in Links /\ s \in Setting
      /\ io.n \in 1..Len(Commands(io.op))
  BY <1>1 DEF IoTc, TypeOK, Setting
<1>3. /\ \/ TcRuns(io.op, l, k, s)
         \/ TcFails(l) /\ UNCHANGED lost
      /\ io' = IF io.n = Len(Commands(io.op)) THEN IoIdle ELSE [io EXCEPT !.n = @ + 1]
      /\ UNCHANGED <<table, latestTdf, vt, alive, requests, passes, raced>>
  BY DEF IoTc
<1>4. lost' = lost /\ InTable' = InTable
  BY <1>3 DEF TcRuns, InTable
<1> HIDE DEF l, k, s
<1>5. /\ KernelType' /\ failures' \in 0..MaxFailures
      /\ steady' \subseteq steady /\ doomed' \subseteq doomed
  BY <1>1, <1>2, <1>3, TcType
<1>6. \A m \in Links \ {l} : root'[m] = root[m]
  BY <1>1, <1>2, <1>3, TcRoots
<1>7. TableType' /\ VtType' /\ FlagType'
  BY <1>1, <1>3, <1>4, TypeParts, VtKeepsType DEF TableType, FlagType
<1>8. IoType' /\ (io'.pc = "tc" => io'.link = l) /\ io'.pc \in {"idle", "tc"}
  <2>1. CASE io.n = Len(Commands(io.op))
    <3>1. io' = IoIdle /\ One \in Tdfs
      BY <1>3, <2>1, LinkAssumption
    <3> QED
      BY <3>1 DEF IoType, IoIdle
  <2>2. CASE io.n # Len(Commands(io.op))
    <3>1. io' = [io EXCEPT !.n = @ + 1]
      BY <1>3, <2>2
    <3>2. io.op \in {"replace", "change"} /\ Len(Commands(io.op)) \in {5, 6}
      BY <1>1, CommandLengths DEF TypeOK, Commands
    <3>3. io.n + 1 \in 1..Len(Commands(io.op)) /\ io.n + 1 \in 0..6
      <4> DEFINE last == Len(Commands(io.op))
                 n == io.n
      <4>1. last \in {5, 6} /\ n \in 1..last /\ n # last
        BY <1>2, <2>2, <3>2
      <4> HIDE DEF last, n
      <4>2. n + 1 \in 1..last /\ n + 1 \in 0..6
        BY <4>1
      <4> QED
        BY <4>2 DEF last, n
    <3>4. /\ io' \in [pc : {"idle", "insert", "tc"}, op : {"replace", "change"},
                      link : Links \cup {0}, val : Values \cup {None}, tdf : Tdfs, n : 0..6]
          /\ io'.pc = "tc" /\ io'.op = io.op /\ io'.link = io.link
          /\ io'.val = io.val /\ io'.n = io.n + 1
      BY <1>1, <1>2, <3>1, <3>3 DEF TypeOK
    <3>5. io.link \in Links /\ io.val \in Values
      BY <1>1, <1>2 DEF TypeOK
    <3> QED
      BY <3>3, <3>4, <3>5 DEF IoType, l
  <2> QED
    BY <2>1, <2>2
<1>9. CountType' /\ HistoryType'
  BY <1>1, <1>3, <1>4, <1>5 DEF TypeOK, CountType, HistoryType
<1>10. Crossing'
  BY <1>1, <1>2, <1>3, <1>4, <1>6, <1>8, TypeParts DEF Crossing, VtType, InTable, l
<1>11. Untouched'
  BY <1>1, <1>2, <1>3, <1>5, <1>8 DEF Untouched, l
<1>12. OrphansExplained'
  BY <1>1, <1>2, <1>4, <1>6 DEF OrphansExplained, Crossing, l
<1> QED
  BY <1>5, <1>7, <1>8, <1>9, <1>10, <1>11, <1>12, InvAfter

\* A link is given up.
LEMMA DropStep ==
  ASSUME Inv, NEW l \in Links, Drop(l)
  PROVE  Inv'
<1>1. TypeOK /\ Crossing /\ Untouched /\ OrphansExplained
  BY DEF Inv
<1>2. /\ Requested /\ io = IoIdle
      /\ steady' = steady \ {l} /\ doomed' = doomed \ {l}
      /\ raced' = (raced \/ vt.pc = "erase")
      /\ alive' = alive \/ alive' = FALSE
      /\ UNCHANGED <<root, knob, latestTdf, io, vt, passes, failures, lost>>
  BY DEF Drop, Touches, Requested, kernel
<1>3. /\ TableType' /\ InTable' = InTable
      /\ \A m \in Links \ {l} : table'[m] = table[m]
  <2>1. CASE l \in InTable /\ table' = [table EXCEPT ![l].keep = FALSE]
    <3>1. table[l] \in Entry
      BY <1>1, <2>1 DEF TypeOK, InTable
    <3>2. [table[l] EXCEPT !.keep = FALSE] \in Entry
      BY <3>1 DEF Entry
    <3>3. table' = [table EXCEPT ![l] = [table[l] EXCEPT !.keep = FALSE]]
      BY <2>1
    <3> DEFINE e == [table[l] EXCEPT !.keep = FALSE]
    <3> HIDE DEF e
    <3>4. e \in Entry /\ table' = [table EXCEPT ![l] = e]
      BY <3>2, <3>3 DEF e
    <3>5. TableType' /\ InTable' = InTable \cup {l}
      BY <1>1, <1>2, <3>4, StoredType
    <3>6. \A m \in Links \ {l} : table'[m] = table[m]
      BY <1>1, <3>4 DEF TypeOK
    <3> QED
      BY <2>1, <3>5, <3>6
  <2>2. CASE table' = table
    BY <1>1, <1>2, <2>2, TypeParts DEF TableType, InTable
  <2> QED
    BY <2>1, <2>2 DEF Drop
<1>4. KernelType' /\ IoType' /\ VtType'
  BY <1>1, <1>2, <1>3, TypeParts, VtKeepsType DEF KernelType, IoType
<1>5. FlagType'
  <2>1. (raced \/ vt.pc = "erase") \in BOOLEAN
    BY Zenon
  <2>2. alive' \in BOOLEAN
    BY <1>1, <1>2 DEF TypeOK
  <2> QED
    BY <1>2, <2>1, <2>2 DEF FlagType
<1>6. CountType' /\ HistoryType'
  BY <1>1, <1>2, <1>3, RequestedType DEF TypeOK, CountType, HistoryType
<1>7. io'.pc = "idle"
  BY <1>2 DEF IoIdle
<1>8. Crossing'
  BY <1>1, <1>2, <1>3, <1>7 DEF Crossing
<1>9. Untouched'
  <2>1. \A m \in steady' : m \in Links \ {l} /\ m \in steady
    BY <1>1, <1>2 DEF TypeOK, InTable
  <2> QED
    BY <1>1, <1>2, <1>3, <1>7, <2>1 DEF Untouched
<1>10. OrphansExplained'
  BY <1>1, <1>2, <1>3 DEF OrphansExplained
<1> QED
  BY <1>3, <1>4, <1>5, <1>6, <1>8, <1>9, <1>10, InvAfter

LEMMA PublishStep ==
  ASSUME Inv, NEW f \in Tdfs, Publish(f)
  PROVE  Inv'
<1>1. TypeOK /\ Crossing /\ Untouched /\ OrphansExplained
  BY DEF Inv
<1>2. /\ Requested /\ latestTdf' = f
      /\ UNCHANGED <<table, root, knob, io, vt, alive, passes, failures>>
      /\ UNCHANGED <<steady, doomed, lost, raced>>
  BY DEF Publish, kernel, history
<1>3. InTable' = InTable
  BY <1>2 DEF InTable
<1>4. TableType' /\ KernelType' /\ IoType' /\ VtType' /\ FlagType'
  BY <1>1, <1>2, <1>3, TypeParts, VtKeepsType DEF TableType, KernelType, IoType, FlagType
<1>5. CountType' /\ HistoryType'
  BY <1>1, <1>2, <1>3, RequestedType DEF TypeOK, CountType, HistoryType
<1>6. Crossing' /\ Untouched' /\ OrphansExplained'
  BY <1>1, <1>2, <1>3 DEF Crossing, Untouched, OrphansExplained
<1> QED
  BY <1>4, <1>5, <1>6, InvAfter

\* The iterator stands at the beginning of a link's turn, or the pass is over.
LEMMA IterationPlace ==
  ASSUME NEW l \in Links \cup {0}, IteratesTo(l)
  PROVE  vt'.pc \in {"idle", "test"} /\ (vt'.pc = "idle" => vt' = VtIdle)
<1>1. VtIdle.pc = "idle" /\ \A m : Testing(m).pc = "test"
  BY DEF VtIdle, Testing
<1> QED
  BY <1>1, Iteration

LEMMA StartPassStep ==
  ASSUME Inv, StartPass
  PROVE  Inv'
<1>1. TypeOK /\ Crossing /\ Untouched /\ OrphansExplained
  BY DEF Inv
<1>2. /\ vt = VtIdle /\ passes < MaxPasses /\ passes' = passes + 1
      /\ IteratesTo(0)
      /\ steady' = {l \in InTable : table[l].keep /\ ~IoWorksOn(l)}
      /\ doomed' = {l \in InTable : ~table[l].keep}
      /\ UNCHANGED <<table, root, knob, latestTdf, io, requests, failures, lost>>
  BY DEF StartPass, kernel
<1>3. InTable' = InTable /\ Later(0) \subseteq InTable'
  BY <1>2 DEF InTable, Later
<1>4. TableType' /\ KernelType' /\ IoType'
  BY <1>1, <1>2, TypeParts DEF TableType, KernelType, IoType
<1>5. VtType' /\ FlagType'
  BY <1>1, <1>2, <1>3, IterationType
<1>6. CountType'
  BY <1>1, <1>2, LinkAssumption DEF TypeOK, CountType
<1>7. HistoryType'
  BY <1>1, <1>2, <1>3 DEF TypeOK, HistoryType, InTable
<1>8. vt'.pc \in {"idle", "test"} /\ (vt'.pc = "idle" => vt' = VtIdle)
  BY <1>2, IterationPlace
<1>9. Crossing'
  BY <1>1, <1>2, <1>3, <1>8 DEF Crossing
<1>10. Untouched'
  BY <1>1, <1>2, <1>8, TypeParts DEF Untouched, Crossing, IoType, IoWorksOn, InTable
<1>11. OrphansExplained'
  BY <1>1, <1>2, <1>3 DEF OrphansExplained
<1> QED
  BY <1>4, <1>5, <1>6, <1>7, <1>9, <1>10, <1>11, InvAfter

\* The steps of a link's turn up to the commands: only the thread's own place
\* changes.
LEMMA TurnStep ==
  ASSUME Inv, TestFlag \/ ReadRate \/ ReadDelay
  PROVE  Inv'
<1>1. TypeOK /\ Crossing /\ Untouched /\ OrphansExplained
  BY DEF Inv
<1>2. UNCHANGED <<table, root, knob, latestTdf, io, alive, requests, passes, failures,
                  steady, doomed, lost, raced>>
  BY DEF TestFlag, ReadRate, ReadDelay, VtSteps, kernel, bounds, history
<1>3. InTable' = InTable
  BY <1>2 DEF InTable
<1>4. /\ TableType' /\ KernelType' /\ IoType' /\ FlagType' /\ CountType'
      /\ HistoryType' /\ OrphansExplained'
  BY <1>1, <1>2, <1>3, TypeParts
     DEF TableType, KernelType, IoType, FlagType, CountType, HistoryType,
         OrphansExplained
<1>5. /\ vt.pc \in {"test", "rate", "delay"}
      /\ vt.link \in InTable /\ table[vt.link] \in Entry /\ table[vt.link].val \in Values
  <2>1. vt.pc \in {"test", "rate", "delay"}
    BY DEF TestFlag, ReadRate, ReadDelay, VtSteps
  <2>2. vt.link \in InTable /\ table[vt.link] \in Entry
    BY <1>1, <2>1 DEF TypeOK, InTable
  <2> QED
    BY <2>1, <2>2 DEF Entry
<1>6. VtType' /\ vt'.pc # "idle" /\ vt'.link = vt.link
      /\ (vt'.pc \in {"del", "erase"} => ~table[vt.link].keep /\ vt'.pc = "del")
  <2>1. CASE TestFlag
    <3>1. \/ table[vt.link].keep /\ vt' = [vt EXCEPT !.pc = "rate"]
          \/ ~table[vt.link].keep /\ vt' = [vt EXCEPT !.pc = "del"]
      BY <2>1 DEF TestFlag, VtSteps
    <3> QED
      BY <1>1, <1>3, <1>5, <3>1 DEF TypeOK, VtType
  <2>2. CASE ReadRate
    BY <1>1, <1>3, <1>5, <2>2 DEF ReadRate, VtSteps, TypeOK, VtType
  <2>3. CASE ReadDelay
    <3>1. vt' = [vt EXCEPT !.pc = "tc", !.delay = table[vt.link].val, !.n = 1]
          /\ vt.pc = "delay"
      BY <2>3 DEF ReadDelay, VtSteps
    <3>2. /\ vt'.pc = "tc" /\ vt'.link = vt.link /\ vt'.rate = vt.rate
          /\ vt'.delay = table[vt.link].val /\ vt'.n = 1
      BY <1>1, <3>1 DEF TypeOK
    <3>3. vt' \in [pc : {"idle", "test", "rate", "delay", "tc", "del", "erase"},
                   link : Links \cup {0}, rate : Values \cup {None},
                   delay : Values \cup {None}, n : 0..5]
      <4> DEFINE d == table[vt.link].val
      <4>1. d \in Values \cup {None}
        BY <1>5
      <4> HIDE DEF d
      <4>2. vt' = [vt EXCEPT !.pc = "tc", !.delay = d, !.n = 1]
        BY <3>1 DEF d
      <4>3. vt' = [pc |-> "tc", link |-> vt.link, rate |-> vt.rate, delay |-> d, n |-> 1]
        BY <1>1, <4>2 DEF TypeOK
      <4>4. vt.link \in Links \cup {0} /\ vt.rate \in Values \cup {None}
        BY <1>1 DEF TypeOK
      <4> QED
        BY <4>1, <4>3, <4>4
    <3>4. vt.rate \in Values
      BY <1>1, <3>1 DEF TypeOK
    <3> QED
      BY <1>3, <1>5, <3>2, <3>3, <3>4 DEF VtType
  <2> QED
    BY <2>1, <2>2, <2>3
<1>7. Crossing'
  BY <1>1, <1>2, <1>3, <1>5, <1>6 DEF Crossing
<1>8. Untouched'
  BY <1>1, <1>2, <1>6 DEF Untouched
<1> QED
  BY <1>4, <1>6, <1>7, <1>8, InvAfter

LEMMA ChangesKnobs ==
  \A n \in 1..5 : ChangeCommands[n] \in Knobs /\ ChangeCommands[n] # "root"
<1> SUFFICES ASSUME NEW n \in 1..5
             PROVE  ChangeCommands[n] \in Knobs /\ ChangeCommands[n] # "root"
  OBVIOUS
<1>1. n = 1 \/ n = 2 \/ n = 3 \/ n = 4 \/ n = 5
  OBVIOUS
<1> QED
  BY <1>1 DEF ChangeCommands, Knobs, Rates, Delays

\* A tc command of a pass.
LEMMA VtTcStep ==
  ASSUME Inv, VtTc
  PROVE  Inv'
<1>1. TypeOK /\ Crossing /\ Untouched /\ OrphansExplained
  BY DEF Inv
<1> DEFINE k == ChangeCommands[vt.n]
           s == [val |-> IF k \in Rates THEN vt.rate ELSE vt.delay, tdf |-> latestTdf]
<1>2. /\ vt.pc = "tc" /\ vt.link \in InTable /\ vt.link \in Links
      /\ vt.n \in 1..5 /\ vt.rate \in Values /\ vt.delay \in Values
  BY <1>1 DEF VtTc, TypeOK, InTable
<1>3. k # "root" /\ s \in Setting
  <2>1. (IF k \in Rates THEN vt.rate ELSE vt.delay) \in Values
    BY <1>2
  <2> QED
    BY <1>1, <1>2, <2>1, ChangesKnobs DEF TypeOK, Setting
<1>4. /\ \/ TcRuns("change", vt.link, k, s)
         \/ TcFails(vt.link) /\ UNCHANGED lost
      /\ IF vt.n = Len(ChangeCommands) THEN IteratesTo(vt.link)
         ELSE vt' = [vt EXCEPT !.n = @ + 1] /\ UNCHANGED <<raced, alive>>
      /\ UNCHANGED <<table, latestTdf, io, requests, passes>>
  BY DEF VtTc
<1>5. lost' = lost /\ InTable' = InTable
  BY <1>4 DEF TcRuns, InTable
<1> HIDE DEF k, s
<1>6. /\ KernelType' /\ failures' \in 0..MaxFailures
      /\ steady' \subseteq steady /\ doomed' \subseteq doomed
  BY <1>1, <1>2, <1>3, <1>4, TcType
<1>7. root' = root
  <2>1. TcRuns("change", vt.link, k, s) \/ TcFails(vt.link)
    BY <1>4
  <2>2. k # "root"
    BY <1>3
  <2> QED
    BY <1>1, <1>2, <2>1, <2>2, TcRoots
<1>8. TableType' /\ IoType'
  BY <1>1, <1>4, TypeParts DEF TableType, IoType
<1>9. /\ VtType' /\ FlagType' /\ vt'.pc \in {"idle", "test", "tc"}
      /\ (vt'.pc = "idle" => vt' = VtIdle)
  <2>1. CASE vt.n = Len(ChangeCommands)
    <3>1. IteratesTo(vt.link) /\ Later(vt.link) \subseteq InTable'
      BY <1>4, <1>5, <2>1 DEF Later
    <3> QED
      BY <1>1, <1>2, <3>1, IterationType, IterationPlace
  <2>2. CASE vt.n # Len(ChangeCommands)
    <3>1. vt' = [vt EXCEPT !.n = @ + 1] /\ UNCHANGED <<raced, alive>>
      BY <1>4, <2>2
    <3>2. vt.n + 1 \in 1..5 /\ vt.n + 1 \in 0..5
      <4> DEFINE n == vt.n
      <4>1. n \in 1..5 /\ n # 5
        BY <1>2, <2>2, CommandLengths
      <4> HIDE DEF n
      <4>2. n + 1 \in 1..5 /\ n + 1 \in 0..5
        BY <4>1
      <4> QED
        BY <4>2 DEF n
    <3>3. VtType' /\ vt'.pc = "tc"
      BY <1>1, <1>2, <1>5, <3>1, <3>2 DEF TypeOK, VtType
    <3>4. FlagType'
      BY <1>1, <3>1 DEF TypeOK, FlagType
    <3> QED
      BY <3>3, <3>4
  <2> QED
    BY <2>1, <2>2
<1>10. CountType' /\ HistoryType'
  BY <1>1, <1>4, <1>5, <1>6 DEF TypeOK, CountType, HistoryType
<1>11. Crossing'
  BY <1>1, <1>4, <1>5, <1>7, <1>9 DEF Crossing
<1>12. Untouched'
  BY <1>1, <1>4, <1>6, <1>9 DEF Untouched
<1>13. OrphansExplained'
  BY <1>1, <1>5, <1>7 DEF OrphansExplained
<1> QED
  BY <1>6, <1>8, <1>9, <1>10, <1>11, <1>12, <1>13, InvAfter

\* The root discipline goes, or the link is lost.
LEMMA DeleteStep ==
  ASSUME Inv, Delete
  PROVE  Inv'
<1>1. TypeOK /\ Crossing /\ Untouched /\ OrphansExplained
  BY DEF Inv
<1> DEFINE l == vt.link
<1>2. vt.pc = "del" /\ l \in Links /\ l \in InTable
  BY <1>1 DEF Delete, TypeOK, InTable
<1>3. /\ \/ /\ root' = [root EXCEPT ![l] = FALSE]
            /\ knob' = [knob EXCEPT ![l] = [k \in Knobs |-> None]]
            /\ UNCHANGED <<failures, lost, steady, doomed>>
         \/ TcFails(l) /\ lost' = lost \cup {l}
      /\ vt' = [vt EXCEPT !.pc = "erase"]
      /\ UNCHANGED <<table, latestTdf, io, alive, requests, passes, raced>>
  BY DEF Delete
<1>4. InTable' = InTable
  BY <1>3 DEF InTable
<1>5. VtType' /\ vt'.pc = "erase" /\ vt'.link = l
  BY <1>1, <1>2, <1>3, <1>4 DEF TypeOK, VtType
<1> HIDE DEF l
<1>6. /\ \A m \in Links \ {l} : root'[m] = root[m]
      /\ ~root'[l] \/ l \in lost'
      /\ lost \subseteq lost' /\ lost' \subseteq Links
      /\ steady' \subseteq steady /\ doomed' \subseteq doomed
  BY <1>1, <1>2, <1>3 DEF TypeOK, TcFails, kernel
<1>7. KernelType' /\ failures' \in 0..MaxFailures
  <2>1. CASE TcFails(l)
    BY <1>1, <1>2, <2>1, TcType, LinkAssumption DEF TcFails, KernelType, TypeOK, kernel
  <2>2. CASE /\ root' = [root EXCEPT ![l] = FALSE]
             /\ knob' = [knob EXCEPT ![l] = [k \in Knobs |-> None]]
             /\ failures' = failures
    <3>1. [k \in Knobs |-> None] \in [Knobs -> Setting \cup {None}]
      OBVIOUS
    <3> QED
      BY <1>1, <1>2, <2>2, <3>1 DEF TypeOK, KernelType
  <2> QED
    BY <1>3, <2>1, <2>2
<1>8. TableType' /\ IoType' /\ FlagType'
  BY <1>1, <1>3, TypeParts DEF TableType, IoType, FlagType
<1>9. CountType' /\ HistoryType'
  BY <1>1, <1>3, <1>4, <1>6, <1>7 DEF TypeOK, CountType, HistoryType
<1>10. Crossing'
  BY <1>1, <1>2, <1>3, <1>4, <1>5, <1>6 DEF Crossing, l
<1>11. Untouched'
  BY <1>1, <1>2, <1>3, <1>5, <1>6 DEF Untouched, l
<1>12. OrphansExplained'
  BY <1>1, <1>2, <1>4, <1>6 DEF OrphansExplained
<1> QED
  BY <1>5, <1>7, <1>8, <1>9, <1>10, <1>11, <1>12, InvAfter

\* The entry goes, whoever put it there.
LEMMA EraseStep ==
  ASSUME Inv, Erase
  PROVE  Inv'
<1>1. TypeOK /\ Crossing /\ Untouched /\ OrphansExplained
  BY DEF Inv
<1> DEFINE l == vt.link
<1>2. vt.pc = "erase" /\ l \in Links /\ l \in InTable
  BY <1>1 DEF Erase, TypeOK, InTable
<1>3. /\ table' = [table EXCEPT ![l] = None]
      /\ IteratesTo(l)
      /\ UNCHANGED <<root, knob, latestTdf, io, requests, passes, failures>>
      /\ UNCHANGED <<steady, doomed, lost>>
  BY DEF Erase, kernel, bounds
<1>4. (~root[l] \/ l \in lost) /\ l \notin steady
      /\ (io.pc = "tc" /\ io.link = l => l \in lost)
  BY <1>1, <1>2 DEF Crossing, Untouched
<1> HIDE DEF l
<1>5. /\ InTable' = InTable \ {l}
      /\ \A m \in Links \ {l} : table'[m] = table[m]
  BY <1>1, <1>2, <1>3 DEF TypeOK, InTable
<1>6. TableType' /\ KernelType' /\ IoType'
  BY <1>1, <1>2, <1>3, TypeParts DEF TableType, KernelType, IoType
<1>7. Later(l) \subseteq InTable'
  <2>1. \A m \in Later(l) : m \in InTable /\ m \in Nat /\ m > l /\ l \in Nat
    BY <1>2, LinkAssumption DEF Later, InTable
  <2> QED
    BY <1>5, <2>1
<1>8. VtType' /\ FlagType'
  BY <1>1, <1>2, <1>3, <1>7, IterationType
<1>9. CountType' /\ HistoryType'
  BY <1>1, <1>3, <1>4, <1>5 DEF TypeOK, CountType, HistoryType
<1>10. vt'.pc \in {"idle", "test"} /\ (vt'.pc = "idle" => vt' = VtIdle)
  BY <1>2, <1>3, IterationPlace
<1>11. io.pc # "idle" => io.link \in Links
  BY <1>1 DEF TypeOK
<1>12. Crossing'
  BY <1>1, <1>3, <1>4, <1>5, <1>10, <1>11 DEF Crossing
<1>13. Untouched'
  <2>1. steady \subseteq Links \ {l}
    BY <1>1, <1>4 DEF TypeOK, InTable
  <2> QED
    BY <1>1, <1>3, <1>5, <1>10, <2>1 DEF Untouched
<1>14. OrphansExplained'
  BY <1>1, <1>3, <1>4, <1>5 DEF OrphansExplained
<1> QED
  BY <1>6, <1>8, <1>9, <1>12, <1>13, <1>14, InvAfter

-----------------------------------------------------------------------------
(***************************************************************************)
(* What holds in every state                                                *)
(***************************************************************************)

LEMMA NextInv == Inv /\ [Next]_vars => Inv'
<1> SUFFICES ASSUME Inv, [Next]_vars PROVE Inv'
  OBVIOUS
<1>1. ASSUME NEW op \in {"replace", "change"}, NEW l \in Links, NEW v \in Values,
             Set(op, l, v)
      PROVE  Inv'
  BY <1>1, SetReplaces, SetInserts
<1>2. CASE UNCHANGED vars
  BY <1>2 DEF vars, kernel, bounds, history, Inv, TypeOK, Crossing, Untouched,
              OrphansExplained, InTable
<1> QED
  BY <1>1, <1>2, DropStep, PublishStep, SetInsertedStep, IoTcStep, StartPassStep,
     TurnStep, VtTcStep, DeleteStep, EraseStep DEF Next, IoNext, PassStep

THEOREM LinkInvariant == Spec => []Inv
BY InitInv, NextInv, PTL DEF Spec

\* Types, and that an iterator stands on an entry as long as the VirtualTime
\* thread alone erases.
THEOREM LinkTypeCorrect == Spec => []TypeOK
<1>1. Inv => TypeOK
  BY DEF Inv
<1> QED
  BY <1>1, LinkInvariant, PTL

\* A discipline without an entry is one of a link that was lost.
THEOREM OrphansAreExplained == Spec => []OrphansExplained
<1>1. Inv => OrphansExplained
  BY DEF Inv
<1> QED
  BY <1>1, LinkInvariant, PTL

-----------------------------------------------------------------------------
(***************************************************************************)
(* What a pass has done so far                                              *)
(***************************************************************************)

\* The links that were given up before the pass: those behind the iterator are
\* gone, those before it still stand there and are marked.
DoomedGoes ==
  vt.pc # "idle" /\ ~raced => \A l \in doomed :
    /\ l < vt.link => table[l] = None /\ ~root[l]
    /\ l >= vt.link => l \in InTable /\ ~table[l].keep
    /\ l = vt.link => /\ vt.pc \in {"test", "del", "erase"}
                      /\ vt.pc = "erase" => ~root[l]

LEMMA LinkNumbers == Links \subseteq Nat /\ \A l \in Links : l > 0
BY LinkAssumption

\* An iterator that nobody disturbs skips no link.
LEMMA NothingSkipped ==
  ASSUME NEW l \in Links \cup {0}, IteratesTo(l), ~raced', raced \in BOOLEAN
  PROVE  /\ io.pc # "insert" /\ ~raced /\ raced' = raced
         /\ vt' = VtIdle => Later(l) = {}
         /\ vt' # VtIdle => vt'.pc = "test" /\ vt'.link \in Later(l)
         /\ \A m \in Later(l) : vt'.link <= m
<1>1. io.pc # "insert" /\ ~raced /\ raced' = raced
  BY Iteration
<1>2. \A m : Testing(m).pc = "test" /\ Testing(m).link = m
  BY DEF Testing, VtIdle
<1> QED
  BY <1>1, <1>2, Iteration

LEMMA DoomedStep == Inv /\ DoomedGoes /\ [Next]_vars => DoomedGoes'
<1> SUFFICES ASSUME Inv, DoomedGoes, [Next]_vars, vt'.pc # "idle", ~raced',
                    NEW l \in doomed'
             PROVE  /\ l < vt'.link => table'[l] = None /\ ~root'[l]
                    /\ l >= vt'.link => l \in InTable' /\ ~table'[l].keep
                    /\ l = vt'.link => /\ vt'.pc \in {"test", "del", "erase"}
                                       /\ vt'.pc = "erase" => ~root'[l]
  BY DEF DoomedGoes
<1> DEFINE Goes == /\ l < vt'.link => table'[l] = None /\ ~root'[l]
                   /\ l >= vt'.link => l \in InTable' /\ ~table'[l].keep
                   /\ l = vt'.link => /\ vt'.pc \in {"test", "del", "erase"}
                                      /\ vt'.pc = "erase" => ~root'[l]
           \* What is known of a link that was doomed before the step.
           Went == /\ l \in doomed
                   /\ l < vt.link => table[l] = None /\ ~root[l]
                   /\ l >= vt.link => l \in InTable /\ ~table[l].keep
                   /\ l = vt.link => /\ vt.pc \in {"test", "del", "erase"}
                                     /\ vt.pc = "erase" => ~root[l]
<1>1. TypeOK /\ Crossing /\ Untouched /\ TypeOK'
  BY NextInv DEF Inv
<1>2. l \in Links /\ raced \in BOOLEAN /\ Links \subseteq Nat
  BY <1>1, LinkNumbers DEF TypeOK
<1>3. ASSUME vt.pc # "idle", ~raced, l \in doomed PROVE Went
  BY <1>3 DEF DoomedGoes
<1>4. ASSUME NEW op \in {"replace", "change"}, NEW m \in Links, NEW v \in Values,
             Set(op, m, v)
      PROVE  Goes
  <2>1. /\ l \in doomed /\ l # m /\ ~raced
        /\ UNCHANGED <<vt, root>>
        /\ table' = table \/ table' = [table EXCEPT ![m] = [val |-> v, keep |-> TRUE]]
    BY <1>4 DEF Set, Touches, kernel
  <2>2. table'[l] = table[l]
    BY <1>1, <1>2, <2>1 DEF TypeOK
  <2> QED
    BY <1>2, <1>3, <2>1, <2>2 DEF InTable
<1>5. ASSUME NEW m \in Links, Drop(m) PROVE Goes
  <2>1. /\ l \in doomed /\ l # m /\ ~raced
        /\ UNCHANGED <<vt, root>>
        /\ table' = table \/ table' = [table EXCEPT ![m].keep = FALSE]
    BY <1>5 DEF Drop, Touches, kernel
  <2>2. table'[l] = table[l]
    BY <1>1, <1>2, <2>1 DEF TypeOK
  <2> QED
    BY <1>2, <1>3, <2>1, <2>2 DEF InTable
<1>6. CASE SetInserted
  <2>1. /\ l \in doomed /\ l # io.link /\ ~raced
        /\ UNCHANGED <<vt, root>>
        /\ table' = [table EXCEPT ![io.link] = [val |-> io.val, keep |-> TRUE]]
    BY <1>1, <1>6 DEF SetInserted, Untouched, kernel
  <2>2. table'[l] = table[l]
    BY <1>1, <1>2, <2>1 DEF TypeOK
  <2> QED
    BY <1>2, <1>3, <2>1, <2>2 DEF InTable
<1>7. CASE IoTc
  <2> DEFINE k == Commands(io.op)[io.n]
             s == [val |-> io.val, tdf |-> io.tdf]
  <2>1. /\ TcRuns(io.op, io.link, k, s) \/ TcFails(io.link)
        /\ UNCHANGED <<table, vt, raced>>
        /\ io.pc = "tc"
    BY <1>7 DEF IoTc
  <2>2. doomed' \subseteq doomed /\ l \in doomed /\ l # io.link /\ io.link \in Links
    BY <1>1, <2>1 DEF TcRuns, TcFails, Untouched, TypeOK
  <2> HIDE DEF k, s
  <2>3. root'[l] = root[l]
    BY <1>1, <1>2, <2>1, <2>2, TcRoots
  <2> QED
    BY <1>2, <1>3, <2>1, <2>2, <2>3 DEF InTable
<1>8. CASE \E f \in Tdfs : Publish(f)
  <2>1. vt' = VtIdle /\ VtIdle.pc = "idle"
    BY <1>8 DEF Publish, VtIdle
  <2> QED
    BY <2>1
<1>9. CASE StartPass
  <2>1. /\ IteratesTo(0) /\ UNCHANGED table
        /\ doomed' = {m \in InTable : ~table[m].keep}
    BY <1>9 DEF StartPass
  <2>2. l \in Later(0) /\ l \in InTable' /\ ~table'[l].keep
    BY <1>2, <2>1, LinkNumbers DEF Later, InTable
  <2>3. vt'.pc = "test" /\ vt'.link \in Later(0) /\ vt'.link <= l
    <3>1. VtIdle.pc = "idle"
      BY DEF VtIdle
    <3> QED
      BY <1>2, <2>1, <2>2, <3>1, NothingSkipped
  <2>4. vt'.link \in Nat
    BY <1>2, <2>3 DEF Later, InTable
  <2> QED
    BY <1>2, <2>2, <2>3, <2>4
<1>10. CASE TestFlag \/ ReadRate \/ ReadDelay
  <2>1. /\ UNCHANGED <<table, root, doomed, raced>>
        /\ vt.pc \in {"test", "rate", "delay"}
    BY <1>10 DEF TestFlag, ReadRate, ReadDelay, VtSteps, kernel, history
  <2>2. Went
    BY <1>3, <2>1
  <2>3. vt'.link = vt.link
    BY <1>1, <1>10 DEF TestFlag, ReadRate, ReadDelay, VtSteps, TypeOK
  <2>4. l = vt.link => TestFlag /\ vt' = [vt EXCEPT !.pc = "del"]
    BY <1>2, <1>10, <2>2 DEF TestFlag, ReadRate, ReadDelay, VtSteps
  <2>5. l = vt.link => vt'.pc = "del"
    BY <1>1, <2>4 DEF TypeOK
  <2> QED
    BY <1>2, <2>1, <2>2, <2>3, <2>5 DEF InTable
\* The iterator moves on from a link that is gone, or that was not doomed.
<1>11. ASSUME vt.pc # "idle", IteratesTo(vt.link), l \in doomed,
              l # vt.link => table'[l] = table[l] /\ root'[l] = root[l],
              l = vt.link => table'[l] = None /\ ~root'[l]
       PROVE  Goes
  <2>1. vt.link \in Links
    BY <1>1, <1>11 DEF TypeOK, InTable
  <2>2. Went
    BY <1>2, <1>3, <1>11, <2>1, NothingSkipped
  <2>3. /\ vt'.pc = "test" /\ vt'.link \in Later(vt.link)
        /\ \A m \in Later(vt.link) : vt'.link <= m
    <3>1. VtIdle.pc = "idle"
      BY DEF VtIdle
    <3> QED
      BY <1>2, <1>11, <2>1, <3>1, NothingSkipped
  <2>4. vt'.link \in Nat /\ vt.link \in Nat /\ vt'.link > vt.link
    BY <1>2, <2>1, <2>3 DEF Later, InTable
  <2>5. CASE l <= vt.link
    <3>1. l < vt'.link
      BY <1>2, <2>4, <2>5
    <3>2. table'[l] = None /\ ~root'[l]
      BY <1>2, <1>11, <2>2, <2>4, <2>5
    <3> QED
      BY <1>2, <2>4, <3>1, <3>2
  <2>6. CASE l > vt.link
    <3>1. l \in Later(vt.link) /\ l \in InTable' /\ ~table'[l].keep
      BY <1>2, <1>11, <2>2, <2>4, <2>6 DEF Later, InTable
    <3>2. l >= vt'.link
      BY <1>2, <2>3, <2>4, <3>1
    <3> QED
      BY <1>2, <2>3, <2>4, <3>1, <3>2
  <2> QED
    BY <1>2, <2>4, <2>5, <2>6
<1>12. CASE VtTc
  <2> DEFINE k == ChangeCommands[vt.n]
             s == [val |-> IF k \in Rates THEN vt.rate ELSE vt.delay, tdf |-> latestTdf]
  <2>1. /\ vt.pc = "tc" /\ UNCHANGED table
        /\ TcRuns("change", vt.link, k, s) \/ TcFails(vt.link)
        /\ \/ IteratesTo(vt.link)
           \/ vt' = [vt EXCEPT !.n = @ + 1] /\ UNCHANGED <<raced, alive>>
    BY <1>12 DEF VtTc
  <2>2. l \in doomed /\ vt.link \in Links /\ vt.n \in 1..5
    BY <1>1, <2>1 DEF TcRuns, TcFails, TypeOK, InTable
  <2>3. k # "root"
    BY <2>2, ChangesKnobs
  <2> HIDE DEF k, s
  <2>4. root' = root
    BY <1>1, <2>1, <2>2, <2>3, TcRoots
  <2>5. ~raced
    BY <1>2, <2>1, <2>2, NothingSkipped
  <2>6. Went /\ l # vt.link
    BY <1>2, <1>3, <2>1, <2>2, <2>5
  <2>7. CASE IteratesTo(vt.link)
    BY <1>11, <2>1, <2>2, <2>4, <2>6, <2>7
  <2>8. CASE vt' = [vt EXCEPT !.n = @ + 1]
    <3>1. vt'.link = vt.link
      BY <1>1, <2>8 DEF TypeOK
    <3> QED
      BY <1>2, <2>1, <2>4, <2>6, <3>1 DEF InTable
  <2> QED
    BY <2>1, <2>7, <2>8
<1>13. CASE Delete
  <2>1. /\ vt.pc = "del" /\ UNCHANGED <<table, raced>>
        /\ vt' = [vt EXCEPT !.pc = "erase"]
        /\ \/ root' = [root EXCEPT ![vt.link] = FALSE] /\ doomed' = doomed
           \/ root' = root /\ doomed' = doomed \ {vt.link}
    BY <1>13 DEF Delete, TcFails, kernel
  <2>2. Went
    BY <1>3, <2>1
  <2>3. vt'.pc = "erase" /\ vt'.link = vt.link
    BY <1>1, <2>1 DEF TypeOK
  <2>4. (l = vt.link => ~root'[l]) /\ (~root[l] => ~root'[l])
    BY <1>1, <1>2, <2>1 DEF TypeOK
  <2> QED
    BY <1>2, <2>1, <2>2, <2>3, <2>4 DEF InTable
<1>14. CASE Erase
  <2>1. /\ vt.pc = "erase" /\ UNCHANGED <<root, doomed>>
        /\ table' = [table EXCEPT ![vt.link] = None]
        /\ IteratesTo(vt.link)
    BY <1>14 DEF Erase, kernel
  <2>2. vt.link \in Links
    BY <1>1, <2>1 DEF TypeOK, InTable
  <2>3. ~raced
    BY <1>2, <2>1, <2>2, NothingSkipped
  <2>4. Went
    BY <1>3, <2>1, <2>3
  <2>5. /\ l # vt.link => table'[l] = table[l]
        /\ l = vt.link => table'[l] = None /\ ~root'[l]
    BY <1>1, <1>2, <2>1, <2>2, <2>4 DEF TypeOK
  <2> QED
    BY <1>11, <2>1, <2>5
<1>15. CASE UNCHANGED vars
  <2>1. UNCHANGED <<table, root, vt, doomed, raced>>
    BY <1>15 DEF vars, kernel, history
  <2> QED
    BY <1>3, <2>1 DEF InTable
<1> QED
  BY <1>4, <1>5, <1>6, <1>7, <1>8, <1>9, <1>10, <1>12, <1>13, <1>14, <1>15
  DEF Next, IoNext, PassStep

\* Only the last command of a link and the removal of one move the iterator, and
\* a pass ends where no later link is left.
LEMMA CompletionIterates ==
  ASSUME Inv, Next, PassCompletes
  PROVE  /\ vt.pc # "idle" /\ vt.link \in InTable /\ vt.link \in Links
         /\ Erase \/ (VtTc /\ vt.n = Len(ChangeCommands))
         /\ ~raced /\ Later(vt.link) = {}
<1>1. TypeOK /\ raced \in BOOLEAN /\ Crossing
  BY DEF Inv, TypeOK
<1>2. /\ vt # VtIdle /\ vt' = VtIdle /\ ~raced' /\ vt'.pc = "idle"
  BY DEF PassCompletes, VtIdle
<1>3. vt.pc # "idle" /\ vt.link \in InTable /\ vt.link \in Links
  BY <1>1, <1>2 DEF Crossing, TypeOK, InTable
<1>4. /\ Erase \/ (VtTc /\ vt.n = Len(ChangeCommands))
      /\ IteratesTo(vt.link)
  <2>1. VtTc \/ Erase \/ vt' = vt \/ vt'.pc \in {"rate", "delay", "tc", "del", "erase"}
    <3>1. CASE TestFlag \/ ReadRate \/ ReadDelay \/ Delete
      BY <1>1, <3>1 DEF TestFlag, ReadRate, ReadDelay, Delete, VtSteps, TypeOK
    <3>2. CASE StartPass
      BY <1>2, <3>2 DEF StartPass
    <3>3. CASE IoNext
      BY <3>3 DEF IoNext, Set, SetInserted, IoTc, Drop, Publish
    <3> QED
      BY <3>1, <3>2, <3>3 DEF Next, PassStep
  <2>2. VtTc \/ Erase
    BY <1>2, <2>1
  <2>3. ASSUME VtTc, vt.n # Len(ChangeCommands) PROVE FALSE
    <3>1. vt' = [vt EXCEPT !.n = @ + 1] /\ vt.pc = "tc"
      BY <2>3 DEF VtTc
    <3>2. vt'.pc = "tc"
      BY <1>1, <3>1 DEF TypeOK
    <3> QED
      BY <1>2, <3>2
  <2>4. CASE VtTc
    <3>1. vt.n = Len(ChangeCommands)
      BY <2>3, <2>4
    <3> QED
      BY <2>4, <3>1 DEF VtTc
  <2>5. CASE Erase
    BY <2>5 DEF Erase
  <2> QED
    BY <2>2, <2>4, <2>5
<1>5. ~raced /\ Later(vt.link) = {}
  BY <1>1, <1>2, <1>3, <1>4, NothingSkipped
<1> QED
  BY <1>3, <1>4, <1>5

\* Where the pass ends, no doomed link is left.
LEMMA CompletionDrops ==
  ASSUME Inv, DoomedGoes, Next, PassCompletes
  PROVE  \A l \in doomed' : ~root'[l] /\ table'[l] = None
<1>1. TypeOK /\ raced \in BOOLEAN
  BY DEF Inv, TypeOK
<1>3. vt.pc # "idle" /\ vt.link \in InTable /\ vt.link \in Links
  BY CompletionIterates
<1>4. VtTc \/ Erase
  BY CompletionIterates
<1>5. ~raced /\ Later(vt.link) = {}
  BY CompletionIterates
<1> SUFFICES ASSUME NEW l \in doomed' PROVE ~root'[l] /\ table'[l] = None
  OBVIOUS
<1>6. doomed' \subseteq doomed
  BY <1>4 DEF VtTc, Erase, TcRuns, TcFails
<1>7. l \in Nat /\ vt.link \in Nat /\ l \in Links
  BY <1>1, <1>3, <1>6, LinkNumbers DEF TypeOK
<1>8. /\ l < vt.link => table[l] = None /\ ~root[l]
      /\ l >= vt.link => l \in InTable
      /\ l = vt.link => /\ vt.pc \in {"test", "del", "erase"}
                        /\ vt.pc = "erase" => ~root[l]
  BY <1>3, <1>5, <1>6 DEF DoomedGoes
<1>9. l <= vt.link
  BY <1>5, <1>7, <1>8 DEF Later
<1>10. CASE VtTc
  <2> DEFINE k == ChangeCommands[vt.n]
             s == [val |-> IF k \in Rates THEN vt.rate ELSE vt.delay, tdf |-> latestTdf]
  <2>1. /\ vt.pc = "tc" /\ UNCHANGED table
        /\ TcRuns("change", vt.link, k, s) \/ TcFails(vt.link)
    BY <1>10 DEF VtTc
  <2>2. k # "root"
    BY <1>1, <2>1, ChangesKnobs DEF TypeOK
  <2> HIDE DEF k, s
  <2>3. root' = root
    BY <1>1, <1>3, <2>1, <2>2, TcRoots
  <2> QED
    BY <1>7, <1>8, <1>9, <2>1, <2>3
<1>11. CASE Erase
  <2>1. /\ vt.pc = "erase" /\ UNCHANGED root
        /\ table' = [table EXCEPT ![vt.link] = None]
    BY <1>11 DEF Erase, kernel
  <2>2. table'[l] = IF l = vt.link THEN None ELSE table[l]
    BY <1>1, <1>7, <2>1 DEF TypeOK
  <2> QED
    BY <1>7, <1>8, <1>9, <2>1, <2>2
<1> QED
  BY <1>4, <1>10, <1>11

\* A pass that nobody disturbs inside the map removes every link that was given
\* up before it began.
THEOREM PassesDrop == Spec => PassDrops
<1>1. Init => DoomedGoes
  BY DEF Init, DoomedGoes, VtIdle
<1>2. Inv /\ DoomedGoes /\ [Next]_vars
      => [PassCompletes => \A l \in doomed' : ~root'[l] /\ table'[l] = None]_vars
  BY CompletionDrops
<1> QED
  BY <1>1, <1>2, DoomedStep, LinkInvariant, PTL DEF Spec, PassDrops

-----------------------------------------------------------------------------
\* Knob k of a link is set to what its entry says, at the current factor, or it
\* does not exist.
Scaled(l, k) == knob[l][k] \in {None, [val |-> table[l].val, tdf |-> latestTdf]}

\* The links that the pass is held to: those behind the iterator are rescaled,
\* and of the one under it the thread has read the entry it still has.
SteadyScales ==
  vt.pc # "idle" /\ ~raced => \A l \in steady :
    /\ l < vt.link => \A k \in Knobs : Scaled(l, k)
    /\ l = vt.link => /\ vt.pc \in {"delay", "tc"} => vt.rate = table[l].val
                      /\ vt.pc = "tc" =>
                           /\ vt.delay = table[l].val
                           /\ \A i \in 1..(vt.n - 1) : Scaled(l, ChangeCommands[i])

LEMMA KnobsChanged ==
  \A k \in Knobs : \E i \in 1..5 : ChangeCommands[i] = k
<1> SUFFICES ASSUME NEW k \in Knobs PROVE \E i \in 1..5 : ChangeCommands[i] = k
  OBVIOUS
<1>1. /\ ChangeCommands[1] = "1:10" /\ ChangeCommands[2] = "1:20"
      /\ ChangeCommands[3] = "1:30" /\ ChangeCommands[4] = "10:"
      /\ ChangeCommands[5] = "20:"
  BY DEF ChangeCommands
<1>2. k \in {"1:10", "1:20", "1:30", "10:", "20:"}
  BY DEF Knobs, Rates, Delays
<1>3. 1 \in 1..5 /\ 2 \in 1..5 /\ 3 \in 1..5 /\ 4 \in 1..5 /\ 5 \in 1..5
  OBVIOUS
<1> QED
  BY <1>1, <1>2, <1>3

\* A command sets the knob it names, of its own link, and no other.
LEMMA TcKnobs ==
  ASSUME TypeOK, NEW op, NEW l \in Links, NEW k \in Knobs, NEW s,
         TcRuns(op, l, k, s) \/ TcFails(l)
  PROVE  /\ \A m \in Links \ {l} : knob'[m] = knob[m]
         /\ \A j \in Knobs \ {k} : knob'[l][j] = knob[l][j]
         /\ op = "change" /\ TcRuns(op, l, k, s) => knob'[l][k] \in {None, s}
<1>1. CASE TcFails(l) /\ ~TcRuns(op, l, k, s)
  BY <1>1 DEF TcFails, kernel
<1>2. CASE TcRuns(op, l, k, s)
  <2>1. CASE TcAccepts(op, l, k)
    <3>1. knob' = [knob EXCEPT ![l][k] = s]
      BY <1>2, <2>1 DEF TcRuns
    <3> QED
      BY <3>1 DEF TypeOK
  <2>2. CASE ~TcAccepts(op, l, k)
    <3>1. knob' = knob
      BY <1>2, <2>2 DEF TcRuns
    <3>2. op = "change" => knob[l][k] = None
      BY <2>2 DEF TcAccepts
    <3> QED
      BY <3>1, <3>2
  <2> QED
    BY <2>1, <2>2
<1> QED
  BY <1>1, <1>2

\* A command of a request may also be the one that sets up the root.
LEMMA TcOtherKnobs ==
  ASSUME TypeOK, NEW op, NEW l \in Links, NEW k, NEW s,
         TcRuns(op, l, k, s) \/ TcFails(l)
  PROVE  \A m \in Links \ {l} : knob'[m] = knob[m]
<1>1. CASE TcFails(l)
  BY <1>1 DEF TcFails, kernel
<1>2. CASE TcRuns(op, l, k, s)
  <2>1. knob' = knob \/ knob' = [knob EXCEPT ![l][k] = s]
    BY <1>2 DEF TcRuns
  <2> QED
    BY <2>1 DEF TypeOK
<1> QED
  BY <1>1, <1>2

\* A command of a pass brings the knob it names up to date, and spoils none.
LEMMA PassScalesKnob ==
  ASSUME Inv, VtTc, SteadyScales, ~raced, NEW l \in steady', l = vt.link
  PROVE  /\ l \in steady /\ table' = table /\ latestTdf' = latestTdf
         /\ \A i \in 1..vt.n : Scaled(l, ChangeCommands[i])'
<1> DEFINE k == ChangeCommands[vt.n]
           s == [val |-> IF k \in Rates THEN vt.rate ELSE vt.delay, tdf |-> latestTdf]
<1>1. TypeOK /\ vt.pc = "tc" /\ vt.n \in 1..5 /\ l \in Links
  BY DEF Inv, TypeOK, VtTc, InTable
<1>2. /\ TcRuns("change", l, k, s) /\ l \in steady
      /\ UNCHANGED <<table, latestTdf>>
  BY DEF VtTc, TcRuns, TcFails
<1>3. /\ s = [val |-> table[l].val, tdf |-> latestTdf]
      /\ \A i \in 1..(vt.n - 1) : Scaled(l, ChangeCommands[i])
  <2>1. vt.rate = table[l].val /\ vt.delay = table[l].val
    BY <1>1, <1>2 DEF SteadyScales
  <2> QED
    BY <1>1, <1>2, <2>1 DEF SteadyScales
<1>4. k \in Knobs
  BY <1>1, ChangesKnobs
<1> HIDE DEF k, s
<1>5. /\ \A j \in Knobs \ {k} : knob'[l][j] = knob[l][j]
      /\ knob'[l][k] \in {None, s}
  BY <1>1, <1>2, <1>4, TcKnobs
<1>6. ASSUME NEW i \in 1..vt.n PROVE Scaled(l, ChangeCommands[i])'
  <2>1. i \in 1..5 /\ (i \in 1..(vt.n - 1) \/ i = vt.n)
    <3> DEFINE n == vt.n
    <3>1. n \in 1..5 /\ i \in 1..n
      BY <1>1
    <3> HIDE DEF n
    <3>2. i \in 1..5 /\ (i \in 1..(n - 1) \/ i = n)
      BY <3>1
    <3> QED
      BY <3>2 DEF n
  <2>2. CASE ChangeCommands[i] = k
    BY <1>2, <1>3, <1>5, <2>2 DEF Scaled
  <2>3. CASE ChangeCommands[i] # k
    <3>1. i \in 1..(vt.n - 1) /\ ChangeCommands[i] \in Knobs \ {k}
      BY <2>1, <2>3, ChangesKnobs DEF k
    <3> QED
      BY <1>2, <1>3, <1>5, <3>1 DEF Scaled
  <2> QED
    BY <2>2, <2>3
<1> QED
  BY <1>2, <1>6

\* The last command of a link leaves all of its knobs scaled.
LEMMA LastCommandScales ==
  ASSUME Inv, VtTc, SteadyScales, ~raced, NEW l \in steady', l = vt.link,
         vt.n = Len(ChangeCommands)
  PROVE  \A k \in Knobs : Scaled(l, k)'
<1>1. \A i \in 1..5 : Scaled(l, ChangeCommands[i])'
  BY PassScalesKnob, CommandLengths
<1> QED
  BY <1>1, KnobsChanged

LEMMA SteadyStep == Inv /\ SteadyScales /\ [Next]_vars => SteadyScales'
<1> DEFINE
      Goes(l) ==
        /\ l < vt'.link => \A k \in Knobs : Scaled(l, k)'
        /\ l = vt'.link => /\ vt'.pc \in {"delay", "tc"} => vt'.rate = table'[l].val
                           /\ vt'.pc = "tc" =>
                                /\ vt'.delay = table'[l].val
                                /\ \A i \in 1..(vt'.n - 1) : Scaled(l, ChangeCommands[i])'
<1> SUFFICES ASSUME Inv, SteadyScales, [Next]_vars, vt'.pc # "idle", ~raced',
                    NEW l \in steady'
             PROVE  Goes(l)
  BY DEF SteadyScales
<1>1. TypeOK /\ Crossing /\ Untouched /\ TypeOK'
  BY NextInv DEF Inv
<1>2. l \in Links /\ raced \in BOOLEAN /\ Links \subseteq Nat
  BY <1>1, LinkNumbers DEF TypeOK, InTable
<1>3. ASSUME vt.pc # "idle", ~raced, l \in steady
      PROVE  /\ l < vt.link => \A k \in Knobs : Scaled(l, k)
             /\ l = vt.link => /\ vt.pc \in {"delay", "tc"} => vt.rate = table[l].val
                               /\ vt.pc = "tc" =>
                                    /\ vt.delay = table[l].val
                                    /\ \A i \in 1..(vt.n - 1) : Scaled(l, ChangeCommands[i])
  BY <1>3 DEF SteadyScales
\* A step of the io thread that concerns another link.
<1>4. ASSUME UNCHANGED <<vt, latestTdf>>, ~raced, l \in steady,
             table'[l] = table[l], knob'[l] = knob[l]
      PROVE  Goes(l)
  BY <1>3, <1>4 DEF Scaled
<1>5. ASSUME NEW op \in {"replace", "change"}, NEW m \in Links, NEW v \in Values,
             Set(op, m, v)
      PROVE  Goes(l)
  <2>1. /\ l \in steady /\ l # m /\ ~raced
        /\ UNCHANGED <<vt, knob, latestTdf>>
        /\ table' = table \/ table' = [table EXCEPT ![m] = [val |-> v, keep |-> TRUE]]
    BY <1>5 DEF Set, Touches, kernel
  <2>2. table'[l] = table[l]
    BY <1>1, <1>2, <2>1 DEF TypeOK
  <2> QED
    BY <1>4, <2>1, <2>2
<1>6. ASSUME NEW m \in Links, Drop(m) PROVE Goes(l)
  <2>1. /\ l \in steady /\ l # m /\ ~raced
        /\ UNCHANGED <<vt, knob, latestTdf>>
        /\ table' = table \/ table' = [table EXCEPT ![m].keep = FALSE]
    BY <1>6 DEF Drop, Touches, kernel
  <2>2. table'[l] = table[l]
    BY <1>1, <1>2, <2>1 DEF TypeOK
  <2> QED
    BY <1>4, <2>1, <2>2
<1>7. CASE SetInserted
  <2>1. /\ l \in steady /\ l # io.link /\ ~raced
        /\ UNCHANGED <<vt, knob, latestTdf>>
        /\ table' = [table EXCEPT ![io.link] = [val |-> io.val, keep |-> TRUE]]
    BY <1>1, <1>7 DEF SetInserted, Untouched, kernel
  <2>2. table'[l] = table[l]
    BY <1>1, <1>2, <2>1 DEF TypeOK
  <2> QED
    BY <1>4, <2>1, <2>2
<1>8. CASE IoTc
  <2> DEFINE k == Commands(io.op)[io.n]
             s == [val |-> io.val, tdf |-> io.tdf]
  <2>1. /\ TcRuns(io.op, io.link, k, s) \/ TcFails(io.link)
        /\ UNCHANGED <<table, latestTdf, vt, raced>>
        /\ io.pc = "tc"
    BY <1>8 DEF IoTc
  <2>2. l \in steady /\ l # io.link /\ io.link \in Links
    BY <1>1, <2>1 DEF TcRuns, TcFails, Untouched, TypeOK
  <2> HIDE DEF k, s
  <2>3. knob'[l] = knob[l]
    BY <1>1, <1>2, <2>1, <2>2, TcOtherKnobs
  <2> QED
    BY <1>4, <2>1, <2>2, <2>3
<1>9. CASE \E f \in Tdfs : Publish(f)
  <2>1. vt' = VtIdle /\ VtIdle.pc = "idle"
    BY <1>9 DEF Publish, VtIdle
  <2> QED
    BY <2>1
<1>10. CASE StartPass
  <2>1. /\ IteratesTo(0)
        /\ steady' = {m \in InTable : table[m].keep /\ ~IoWorksOn(m)}
    BY <1>10 DEF StartPass
  <2>2. l \in Later(0)
    BY <1>2, <2>1, LinkNumbers DEF Later, InTable
  <2>3. vt'.pc = "test" /\ vt'.link \in Later(0) /\ vt'.link <= l
    <3>1. VtIdle.pc = "idle"
      BY DEF VtIdle
    <3> QED
      BY <1>2, <2>1, <2>2, <3>1, NothingSkipped
  <2>4. vt'.link \in Nat
    BY <1>2, <2>3 DEF Later, InTable
  <2> QED
    BY <1>2, <2>3, <2>4
<1>11. CASE TestFlag \/ ReadRate \/ ReadDelay
  <2>1. /\ UNCHANGED <<table, knob, latestTdf, steady, raced>>
        /\ vt.pc \in {"test", "rate", "delay"}
    BY <1>11 DEF TestFlag, ReadRate, ReadDelay, VtSteps, kernel, history
  <2>2. vt'.link = vt.link
    BY <1>1, <1>11 DEF TestFlag, ReadRate, ReadDelay, VtSteps, TypeOK
  <2>3. \A k \in Knobs : Scaled(l, k)' <=> Scaled(l, k)
    BY <2>1 DEF Scaled
  <2>4. CASE TestFlag
    <3>1. vt'.pc \in {"rate", "del"}
      BY <1>1, <2>4 DEF TestFlag, VtSteps, TypeOK
    <3> QED
      BY <1>3, <2>1, <2>2, <2>3, <3>1
  <2>5. CASE ReadRate
    <3>1. vt'.pc = "delay" /\ vt'.rate = table[vt.link].val
      BY <1>1, <2>5 DEF ReadRate, VtSteps, TypeOK
    <3> QED
      BY <1>3, <2>1, <2>2, <2>3, <3>1
  <2>6. CASE ReadDelay
    <3>1. vt' = [vt EXCEPT !.pc = "tc", !.delay = table[vt.link].val, !.n = 1]
          /\ vt.pc = "delay"
      BY <2>6 DEF ReadDelay, VtSteps
    <3>2. vt'.pc = "tc" /\ vt'.rate = vt.rate /\ vt'.delay = table[vt.link].val /\ vt'.n = 1
      BY <1>1, <3>1 DEF TypeOK
    <3>3. 1..(vt'.n - 1) = {}
      BY <3>2
    <3> QED
      BY <1>3, <2>1, <2>2, <2>3, <3>1, <3>2, <3>3
  <2> QED
    BY <1>11, <2>4, <2>5, <2>6
\* The iterator moves on from a link that is scaled, or that is not steady.
<1>12. ASSUME vt.pc # "idle", IteratesTo(vt.link), l \in steady,
              l <= vt.link => \A k \in Knobs : Scaled(l, k)'
       PROVE  Goes(l)
  <2>1. vt.link \in Links /\ l \in InTable
    BY <1>1, <1>12 DEF TypeOK, InTable
  <2>2. /\ vt'.pc = "test" /\ vt'.link \in Later(vt.link)
        /\ \A m \in Later(vt.link) : vt'.link <= m
    <3>1. VtIdle.pc = "idle"
      BY DEF VtIdle
    <3> QED
      BY <1>2, <1>12, <2>1, <3>1, NothingSkipped
  <2>3. vt'.link \in Nat /\ vt.link \in Nat /\ vt'.link > vt.link
    BY <1>2, <2>1, <2>2 DEF Later, InTable
  <2>4. l < vt'.link => l <= vt.link
    BY <1>2, <2>1, <2>2, <2>3 DEF Later
  <2> QED
    BY <1>12, <2>2, <2>4
<1>13. CASE VtTc
  <2> DEFINE k == ChangeCommands[vt.n]
             s == [val |-> IF k \in Rates THEN vt.rate ELSE vt.delay, tdf |-> latestTdf]
  <2>1. /\ vt.pc = "tc" /\ UNCHANGED <<table, latestTdf>>
        /\ TcRuns("change", vt.link, k, s) \/ TcFails(vt.link)
        /\ IF vt.n = Len(ChangeCommands) THEN IteratesTo(vt.link)
           ELSE vt' = [vt EXCEPT !.n = @ + 1] /\ UNCHANGED <<raced, alive>>
    BY <1>13 DEF VtTc
  <2>2. l \in steady /\ vt.link \in Links /\ vt.n \in 1..5
    BY <1>1, <2>1 DEF TcRuns, TcFails, TypeOK, InTable
  <2>3. ~raced
    BY <1>2, <2>1, <2>2, NothingSkipped
  <2> HIDE DEF k, s
  <2>4. l # vt.link => knob'[l] = knob[l]
    BY <1>1, <1>2, <2>1, <2>2, TcOtherKnobs
  <2>5. l < vt.link => \A j \in Knobs : Scaled(l, j)'
    <3> SUFFICES ASSUME l < vt.link, NEW j \in Knobs PROVE Scaled(l, j)'
      OBVIOUS
    <3>1. l # vt.link
      BY <1>2, <2>2
    <3>2. Scaled(l, j)
      BY <1>3, <2>1, <2>2, <2>3
    <3> QED
      BY <2>1, <2>4, <3>1, <3>2 DEF Scaled
  <2>6. CASE vt.n = Len(ChangeCommands)
    <3>1. l = vt.link => \A j \in Knobs : Scaled(l, j)'
      BY <1>13, <2>3, <2>6, LastCommandScales
    <3>2. l \in Nat /\ vt.link \in Nat
      BY <1>2, <2>2
    <3>3. l <= vt.link => l < vt.link \/ l = vt.link
      BY <3>2
    <3>4. l <= vt.link => \A j \in Knobs : Scaled(l, j)'
      BY <2>5, <3>1, <3>3, Zenon
    <3> QED
      BY <1>12, <2>1, <2>2, <2>6, <3>4
  <2>7. CASE vt.n # Len(ChangeCommands)
    <3>1. vt' = [vt EXCEPT !.n = @ + 1]
      BY <2>1, <2>7
    <3>2. /\ vt'.link = vt.link /\ vt'.rate = vt.rate /\ vt'.delay = vt.delay
          /\ vt'.n = vt.n + 1
      BY <1>1, <3>1 DEF TypeOK
    <3>3. 1..(vt'.n - 1) = 1..vt.n
      BY <2>2, <3>2
    <3>4. l = vt.link => \A i \in 1..vt.n : Scaled(l, ChangeCommands[i])'
      BY <1>13, <2>3, PassScalesKnob
    <3> QED
      BY <1>3, <2>1, <2>2, <2>3, <2>5, <3>2, <3>3, <3>4
  <2> QED
    BY <2>6, <2>7
<1>14. CASE Delete
  <2>1. /\ vt.pc = "del" /\ UNCHANGED <<table, latestTdf, raced>>
        /\ vt' = [vt EXCEPT !.pc = "erase"]
        /\ steady' \subseteq steady
        /\ knob' = knob \/ knob' = [knob EXCEPT ![vt.link] = [k \in Knobs |-> None]]
    BY <1>14 DEF Delete, TcFails, kernel
  <2>2. l \in steady /\ l # vt.link
    BY <1>1, <2>1 DEF Untouched
  <2>3. vt'.pc = "erase" /\ vt'.link = vt.link
    BY <1>1, <2>1 DEF TypeOK
  <2>4. knob'[l] = knob[l]
    BY <1>1, <1>2, <2>1, <2>2 DEF TypeOK
  <2> QED
    BY <1>3, <2>1, <2>2, <2>3, <2>4 DEF Scaled
<1>15. CASE Erase
  <2>1. /\ vt.pc = "erase" /\ UNCHANGED <<knob, latestTdf, steady>>
        /\ table' = [table EXCEPT ![vt.link] = None]
        /\ IteratesTo(vt.link)
    BY <1>15 DEF Erase, kernel
  <2>2. l \in steady /\ l # vt.link /\ vt.link \in Links
    BY <1>1, <2>1 DEF Untouched, TypeOK, InTable
  <2>3. table'[l] = table[l] /\ ~raced
    BY <1>1, <1>2, <2>1, <2>2, NothingSkipped DEF TypeOK
  <2>4. l <= vt.link => \A k \in Knobs : Scaled(l, k)'
    <3> SUFFICES ASSUME l <= vt.link, NEW k \in Knobs PROVE Scaled(l, k)'
      OBVIOUS
    <3>1. l \in Nat /\ vt.link \in Nat
      BY <1>2, <2>2
    <3>2. Scaled(l, k)
      BY <1>3, <2>1, <2>2, <2>3, <3>1
    <3> QED
      BY <2>1, <2>3, <3>2 DEF Scaled
  <2> QED
    BY <1>12, <2>1, <2>2, <2>4
<1>16. CASE UNCHANGED vars
  <2>1. UNCHANGED <<table, knob, latestTdf, vt, steady, raced>>
    BY <1>16 DEF vars, kernel, history
  <2> QED
    BY <1>4, <2>1
<1> QED
  BY <1>5, <1>6, <1>7, <1>8, <1>9, <1>10, <1>11, <1>13, <1>14, <1>15, <1>16
  DEF Next, IoNext, PassStep

\* Where the pass ends, every steady link is behind the iterator or under it.
LEMMA CompletionScales ==
  ASSUME Inv, SteadyScales, Next, PassCompletes
  PROVE  \A l \in steady', k \in Knobs :
           knob'[l][k] \in {None, [val |-> table'[l].val, tdf |-> latestTdf']}
<1>1. TypeOK /\ Untouched /\ SteadyScales
  BY DEF Inv
<1>2. /\ vt.pc # "idle" /\ vt.link \in Links /\ ~raced /\ Later(vt.link) = {}
      /\ Erase \/ (VtTc /\ vt.n = Len(ChangeCommands))
  BY CompletionIterates
<1> SUFFICES ASSUME NEW l \in steady' PROVE \A k \in Knobs : Scaled(l, k)'
  BY DEF Scaled
<1>3. l \in steady /\ l \in InTable /\ l \in Nat /\ vt.link \in Nat
  <2>1. steady' \subseteq steady
    BY <1>2 DEF VtTc, Erase, TcRuns, TcFails
  <2> QED
    BY <1>1, <1>2, <2>1, LinkNumbers DEF TypeOK, InTable
<1>4. l <= vt.link
  BY <1>2, <1>3 DEF Later
<1>5. l < vt.link => \A k \in Knobs : Scaled(l, k)
  BY <1>2, <1>3 DEF SteadyScales
<1>6. CASE VtTc /\ vt.n = Len(ChangeCommands)
  <2> DEFINE k == ChangeCommands[vt.n]
             s == [val |-> IF k \in Rates THEN vt.rate ELSE vt.delay, tdf |-> latestTdf]
  <2>1. /\ UNCHANGED <<table, latestTdf>>
        /\ TcRuns("change", vt.link, k, s) \/ TcFails(vt.link)
    BY <1>6 DEF VtTc
  <2> HIDE DEF k, s
  <2>2. CASE l = vt.link
    BY <1>2, <1>6, <2>2, LastCommandScales
  <2>3. CASE l # vt.link
    <3>1. l < vt.link /\ l \in Links
      BY <1>3, <1>4, <2>3 DEF InTable
    <3>2. knob'[l] = knob[l]
      BY <1>1, <1>2, <2>1, <2>3, <3>1, TcOtherKnobs
    <3> QED
      BY <1>5, <2>1, <3>1, <3>2 DEF Scaled
  <2> QED
    BY <2>2, <2>3
<1>7. CASE Erase
  <2>1. /\ vt.pc = "erase" /\ UNCHANGED <<knob, latestTdf>>
        /\ table' = [table EXCEPT ![vt.link] = None]
    BY <1>7 DEF Erase, kernel
  <2>2. l # vt.link
    BY <1>1, <1>3, <2>1 DEF Untouched
  <2>3. l < vt.link
    BY <1>3, <1>4, <2>2
  <2>4. table'[l] = table[l]
    BY <1>1, <1>3, <2>1, <2>2 DEF TypeOK, InTable
  <2> QED
    BY <1>5, <2>1, <2>3, <2>4 DEF Scaled
<1> QED
  BY <1>2, <1>6, <1>7

\* A pass that nobody disturbs inside the map leaves every kept link that nobody
\* touched with what its entry says, at the current factor.
THEOREM PassesScale == Spec => PassScales
<1>1. Init => SteadyScales
  BY DEF Init, SteadyScales, VtIdle
<1>2. Inv /\ SteadyScales /\ [Next]_vars
      => [PassCompletes => \A l \in steady', k \in Knobs :
            knob'[l][k] \in {None, [val |-> table'[l].val, tdf |-> latestTdf']}]_vars
  BY CompletionScales
<1> QED
  BY <1>1, <1>2, SteadyStep, LinkInvariant, PTL DEF Spec, PassScales
=============================================================================
