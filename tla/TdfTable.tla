------------------------------ MODULE TdfTable ------------------------------
(***************************************************************************)
(* The TDF table of one agent (class TdfTable and MemoryDatabase's          *)
(* enforceTdf, MemoryDatabase.cpp).                                         *)
(*                                                                          *)
(* Every host broadcasts the time dilation factor it needs; every agent     *)
(* keeps the last report of each host and publishes the largest one, unless *)
(* it differs from the published factor by less than tdfChangeThreshold.    *)
(* An operator may override the table with enforceTdf.                      *)
(*                                                                          *)
(* All calls that change this state are made by the agent's io thread, and  *)
(* set and enforceTdf hold tdfTable.mutex: each is one step here.  Which     *)
(* steps also call cond.notify_all() is kept apart (setAndNotify,           *)
(* enforceTdf), for AdaptiveVirtualTime says who hears it.                  *)
(*                                                                          *)
(* Factors are natural numbers in a fixed-point unit (One is 1.0) instead   *)
(* of long doubles; a threshold th stands for th / Unit.                    *)
(***************************************************************************)
EXTENDS Integers

CONSTANTS
  Hosts,        \* hosts whose CpuMonitor reports a required TDF
  Tdfs,         \* the factors a report or an operator may ask for
  One,          \* the factor 1.0
  NoTdf,        \* "this host has no entry"
  Unit,         \* denominator of the thresholds
  Thresholds    \* numerators tdfChangeThreshold may take

ASSUME TdfTableAssumption ==
  /\ Tdfs \subseteq Nat
  /\ \E b \in Tdfs : \A t \in Tdfs : t <= b    \* long doubles are bounded
  /\ One \in Tdfs
  /\ NoTdf \notin Tdfs
  /\ Unit \in Nat \ {0}
  /\ Thresholds \subseteq Nat

VARIABLES
  tdfMap,              \* TdfTable::tdfMap
  isTableEnabled,      \* TdfTable::isTableEnabled_
  latestTdf,           \* TdfTable::latestTdf_, the published factor
  tdfChangeThreshold   \* Configuration::tdfChangeThreshold

tableVars == <<tdfMap, isTableEnabled, latestTdf, tdfChangeThreshold>>

TableTypeOK ==
  /\ tdfMap \in [Hosts -> Tdfs \cup {NoTdf}]
  /\ isTableEnabled \in BOOLEAN
  /\ latestTdf \in Tdfs
  /\ tdfChangeThreshold \in Thresholds

TableInit ==
  /\ tdfMap = [h \in Hosts |-> NoTdf]
  /\ isTableEnabled = FALSE
  /\ latestTdf = One
  /\ tdfChangeThreshold \in Thresholds

-----------------------------------------------------------------------------

\* Mutant of IsMaxTdf: the comparison is turned round.
IsMinTdf(m, map) ==
  /\ \E h \in Hosts : map[h] = m
  /\ m # NoTdf
  /\ \A h \in Hosts : map[h] # NoTdf => map[h] >= m

\* m is the largest factor reported in map (maxTdf).
IsMaxTdf(m, map) ==
  /\ \E h \in Hosts : map[h] = m
  /\ m # NoTdf
  /\ \A h \in Hosts : map[h] # NoTdf => map[h] <= m

Distance(a, b) == IF a < b THEN b - a ELSE a - b

\* Mutant of ExceedsThreshold: relative to the new factor, not to the old.
ExceedsThresholdOfNew(m) == Distance(m, latestTdf) * Unit >= tdfChangeThreshold * m

\* fabs(m - latest) / latest >= threshold.  At latest = 0 the quotient is
\* infinite, which passes, or (for m = 0 too) not a number, which does not.
ExceedsThreshold(m) ==
  /\ Distance(m, latestTdf) * Unit >= tdfChangeThreshold * latestTdf
  /\ latestTdf = 0 => m # 0

\* TdfTable::set(host, t) when nothing is published: the table is disabled,
\* or the maximum is too close to the published factor.
setQuietly(h, t) ==
  LET map == [tdfMap EXCEPT ![h] = t] IN
  /\ isTableEnabled =>
       \A m \in Tdfs : IsMaxTdf(m, map) => ~ExceedsThreshold(m)
  /\ tdfMap' = map
  /\ UNCHANGED <<isTableEnabled, latestTdf, tdfChangeThreshold>>

\* Mutant of setAndNotify: the isTableEnabled() test is missing.
setAndNotifyAlways(h, t) ==
  LET map == [tdfMap EXCEPT ![h] = t] IN
  /\ \E m \in Tdfs : /\ IsMaxTdf(m, map)
                     /\ ExceedsThreshold(m)
                     /\ latestTdf' = m
  /\ tdfMap' = map
  /\ UNCHANGED <<isTableEnabled, tdfChangeThreshold>>

\* TdfTable::set(host, t) when the maximum is published and notified.
setAndNotify(h, t) ==
  LET map == [tdfMap EXCEPT ![h] = t] IN
  /\ isTableEnabled
  /\ \E m \in Tdfs : /\ IsMaxTdf(m, map)
                     /\ ExceedsThreshold(m)
                     /\ latestTdf' = m
  /\ tdfMap' = map
  /\ UNCHANGED <<isTableEnabled, tdfChangeThreshold>>

\* MemoryDatabase::enforceTdf(t), which also notifies.
enforceTdf(t) ==
  /\ isTableEnabled' = FALSE
  /\ latestTdf' = t
  /\ UNCHANGED <<tdfMap, tdfChangeThreshold>>

\* enableTable and disableTable neither publish nor notify.
enableTable ==
  /\ isTableEnabled' = TRUE
  /\ UNCHANGED <<tdfMap, latestTdf, tdfChangeThreshold>>

disableTable ==
  /\ isTableEnabled' = FALSE
  /\ UNCHANGED <<tdfMap, latestTdf, tdfChangeThreshold>>

\* TdfTable::clear
clear ==
  /\ tdfMap' = [h \in Hosts |-> NoTdf]
  /\ UNCHANGED <<isTableEnabled, latestTdf, tdfChangeThreshold>>

setThreshold(th) ==
  /\ tdfChangeThreshold' = th
  /\ UNCHANGED <<tdfMap, isTableEnabled, latestTdf>>

TableNext ==
  \/ \E h \in Hosts, t \in Tdfs : setQuietly(h, t) \/ setAndNotify(h, t)
  \/ \E t \in Tdfs : enforceTdf(t)
  \/ enableTable
  \/ disableTable
  \/ clear
  \/ \E th \in Thresholds : setThreshold(th)

TableSpec == TableInit /\ [][TableNext]_tableVars

-----------------------------------------------------------------------------
(***************************************************************************)
(* Properties                                                               *)
(***************************************************************************)

\* The published factor tracks what the hosts need, up to the hysteresis of
\* set(): a report that changes the enabled table leaves no host needing
\* (1 + threshold) times the published factor or more, and the published
\* factor is not inflated either: some host needs more than (1 - threshold)
\* times it, or exactly it.
PublishedTracksNeed ==
  [][(isTableEnabled /\ isTableEnabled' /\ tdfMap' # tdfMap /\ \E h \in Hosts : tdfMap'[h] # NoTdf)
     => /\ \A h \in Hosts : tdfMap'[h] # NoTdf =>
             \/ tdfMap'[h] <= latestTdf'
             \/ tdfMap'[h] * Unit < latestTdf' * (Unit + tdfChangeThreshold)
        /\ \E h \in Hosts : tdfMap'[h] # NoTdf /\
             \/ tdfMap'[h] = latestTdf'
             \/ tdfMap'[h] * Unit > latestTdf' * (Unit - tdfChangeThreshold)
    ]_tableVars

\* With the table in charge, what is published is what the most loaded host
\* needs: a published factor changes only to the largest recorded requirement
\* (a mean or a minimum would leave a host behind), and an operator's factor
\* that no host asked for never coexists with a table in charge.
PublishesANeed ==
  [][(latestTdf' # latestTdf /\ isTableEnabled')
     => /\ \E h \in Hosts : tdfMap'[h] = latestTdf'
        /\ \A h \in Hosts : tdfMap'[h] # NoTdf => tdfMap'[h] <= latestTdf'
    ]_tableVars

\* An operator's override stands until the operator hands control back: with
\* the table disabled, no report, however large, moves the published factor,
\* and only another override (which leaves the table disabled) may.
OverrideStands ==
  [][(~isTableEnabled /\ latestTdf' # latestTdf)
     => (tdfMap' = tdfMap /\ ~isTableEnabled')]_tableVars
=============================================================================
