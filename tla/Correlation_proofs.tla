------------------------- MODULE Correlation_proofs -------------------------
(* Proofs about Correlation, for every set of hosts, signals and rules.    *)
EXTENDS Correlation, FiniteSetTheorems, SequenceTheorems, TLAPS

-----------------------------------------------------------------------------
(* Lemmas about the streaks.                                               *)

(* Every key a rule hits is a streak key of that rule.                     *)
LEMMA HitsAreStreakKeys ==
    ASSUME offline \subseteq Hosts, NEW job
    PROVE  Hits(job) \subseteq StreakKeys
<1>0. \A r \in {"host_down_syslog", "integration_host", "port_error"} :
         \A h \in Hosts : HostStreak(r, {h}) \in StreakKeys
  BY DEF StreakKeys, HostStreak
<1>1. HostDownSyslogHits \subseteq StreakKeys
  <2>1. Primary(offline) \subseteq Hosts /\ Cascaded(offline) \subseteq Hosts
    BY DEF Primary, Cascaded
  <2>2. HostStreak("upstream_failure", Cascaded(offline)) \in StreakKeys
    BY <2>1 DEF StreakKeys, HostStreak
  <2> QED
    BY <1>0, <2>1, <2>2 DEF HostDownSyslogHits
<1>2. MultiHostDownHits \subseteq StreakKeys
  <2> DEFINE big == {G \in SubnetGroups : Cardinality(G) >= 3}
             rest == Primary(offline) \ UNION big
             groups == big \cup (IF Cardinality(rest) >= 3 THEN {rest} ELSE {})
  <2>1. Primary(offline) \subseteq Hosts
    BY DEF Primary
  <2>2. big \subseteq SUBSET Hosts
    BY <2>1 DEF SubnetGroups
  <2>3. groups \subseteq SUBSET Hosts
    BY <2>1, <2>2
  <2>4. MultiHostDownHits = {HostStreak("multi_host_down", G) : G \in groups}
    BY DEF MultiHostDownHits
  <2>5. \A G \in SUBSET Hosts : HostStreak("multi_host_down", G) \in StreakKeys
    BY DEF StreakKeys, HostStreak
  <2> HIDE DEF groups
  <2> QED
    BY <2>3, <2>4, <2>5
<1>3. IntegrationHostHits \subseteq StreakKeys
  BY <1>0 DEF IntegrationHostHits
<1>4. PortErrorHits \subseteq StreakKeys
  BY <1>0 DEF PortErrorHits
<1>5. SignalHits(job) \subseteq StreakKeys
  BY DEF SignalHits, StreakKeys
<1> QED
  BY <1>1, <1>2, <1>3, <1>4, <1>5 DEF Hits

(* A key is counted a natural number of times.                             *)
LEMMA TimesNat == ASSUME NEW k PROVE Times(k) \in Nat
<1>1. (UNION {FailedOn(h) : h \in k.hosts}) \subseteq Integrations
  BY DEF FailedOn
<1>2. IsFiniteSet(UNION {FailedOn(h) : h \in k.hosts})
  BY <1>1, FS_Subset, ConstantsAssumption
<1> QED
  BY <1>2, FS_CardinalityType DEF Times

(* Counting keeps the counters in their range.                             *)
LEMMA CountedType ==
    ASSUME hits \in [StreakKeys -> 0..MinCycles], NEW K
    PROVE  Counted(K) \in [StreakKeys -> 0..MinCycles]
BY TimesNat, ConstantsAssumption DEF Counted, Saturate

(* What fires is opened under an incident key.                             *)
LEMMA KeyOfType ==
    ASSUME NEW K \in SUBSET StreakKeys
    PROVE  {KeyOf(k) : k \in Fires(K)} \subseteq IncidentKeys
BY DEF Fires, IncidentKeys

(* The rows that are written keep their type.                              *)
LEMMA FindOrCreateType ==
    ASSUME inc \in [Ids -> Incident], NEW K \in SUBSET IncidentKeys, FindOrCreate(K)
    PROVE  inc' \in [Ids -> Incident]
<1> DEFINE new == {k \in K : LiveRows(k) = {}}
<1>1. PICK row \in [new -> {i \in Ids : Free(i)}] :
        inc' = [i \in Ids |->
            IF \E k \in new : row[k] = i
            THEN [key |-> CHOOSE k \in new : row[k] = i, status |-> "open", age |-> 0]
            ELSE IF Live(i) /\ inc[i].key \in K THEN [inc[i] EXCEPT !.age = 0]
            ELSE inc[i]]
  BY DEF FindOrCreate
<1>2. ASSUME NEW i \in Ids PROVE inc'[i] \in Incident
  <2>1. 0 \in 0..ResolveAfter
    BY ConstantsAssumption
  <2>2. CASE \E k \in new : row[k] = i
    <3>1. (CHOOSE k \in new : row[k] = i) \in IncidentKeys
      BY <2>2
    <3> QED
      BY <1>1, <2>1, <2>2, <3>1 DEF Incident, Statuses
  <2>3. CASE ~\E k \in new : row[k] = i
    <3>1. inc[i] \in Incident /\ [inc[i] EXCEPT !.age = 0] \in Incident
      BY <2>1 DEF Incident
    <3> QED
      BY <1>1, <2>3, <3>1
  <2> QED
    BY <2>2, <2>3
<1> QED
  BY <1>1, <1>2

(* Resolving a row leaves an incident that is no longer live.              *)
LEMMA ResolvedType ==
    ASSUME inc \in [Ids -> Incident], NEW i \in Ids
    PROVE  Resolved(i) \in Incident /\ Resolved(i).status \notin {"open", "acknowledged"}
<1>1. 0 \in 0..ResolveAfter
  BY ConstantsAssumption
<1>2. NoIncident \in Incident /\ NoIncident.status = "none"
  BY <1>1 DEF NoIncident, Incident, IncidentKeys, Statuses
<1>3. inc[i] \in Incident
  OBVIOUS
<1>4. [inc[i] EXCEPT !.status = "resolved", !.age = 0] \in Incident
  BY <1>1, <1>3 DEF Incident, Statuses
<1> QED
  BY <1>2, <1>3, <1>4 DEF Resolved, Incident

-----------------------------------------------------------------------------
(* Type correctness: every handler leaves the incident table, the streak   *)
(* counters and the locals of run_correlation well formed.                 *)
THEOREM TypeCorrect == Spec => []TypeOK
<1>1. Init => TypeOK
  <2> SUFFICES ASSUME Init PROVE TypeOK
    OBVIOUS
  <2>1. 0 \in 0..ResolveAfter /\ 0 \in 0..MinCycles /\ 0 \in 0..MaxRestarts
    BY ConstantsAssumption
  <2>2. inc \in [Ids -> Incident]
    BY <2>1 DEF Init, NoIncident, Incident, IncidentKeys, Statuses
  <2>3. 1 \in 1..Len(RuleSeq) + 1
    BY ConstantsAssumption, LenProperties
  <2> QED
    BY <2>1, <2>2, <2>3 DEF Init, TypeOK
<1>2. TypeOK /\ [Next]_vars => TypeOK'
  <2> SUFFICES ASSUME TypeOK, [Next]_vars PROVE TypeOK'
    OBVIOUS
  <2> USE DEF TypeOK
  <2>0. Len(RuleSeq) \in Nat /\ 0 \in 0..ResolveAfter /\ 0 \in 0..MinCycles
    BY ConstantsAssumption, LenProperties
  <2>1. CASE StartCycle
    <3>1. \A d \in 1..MaxDelay : Aged(d) \in [Ids -> Incident]
      <4> SUFFICES ASSUME NEW d \in 1..MaxDelay, NEW i \in Ids
                   PROVE  Aged(d)[i] \in Incident
        BY DEF Aged
      <4>1. inc[i] \in Incident /\ inc[i].age \in Nat /\ inc[i].age <= ResolveAfter
        BY ConstantsAssumption DEF Incident
      <4>2. (IF inc[i].age + d > ResolveAfter THEN ResolveAfter ELSE inc[i].age + d)
               \in 0..ResolveAfter
        BY <4>1, ConstantsAssumption
      <4> QED
        BY <4>1, <4>2 DEF Aged, Incident
    <3>2. OfflineNow \subseteq Hosts
      BY DEF OfflineNow
    <3> QED
      BY <2>0, <2>1, <3>1, <3>2 DEF StartCycle
  <2>2. CASE SkipRule
    BY <2>0, <2>2 DEF SkipRule, NextRule
  <2>3. CASE RunRule
    <3> DEFINE K == Hits(RuleSeq[pos])
    <3>1. K \subseteq StreakKeys
      BY HitsAreStreakKeys
    <3>2. inc' \in [Ids -> Incident]
      BY <2>3, <3>1, KeyOfType, FindOrCreateType DEF RunRule
    <3>3. hits' \in [StreakKeys -> 0..MinCycles]
      BY <2>3, CountedType DEF RunRule
    <3> QED
      BY <2>0, <2>3, <3>1, <3>2, <3>3 DEF RunRule, NextRule
  <2>4. CASE RuleFails
    <3>1. Hits(RuleSeq[pos]) \subseteq StreakKeys
      BY HitsAreStreakKeys
    <3>2. hits' \in [StreakKeys -> 0..MinCycles] /\ seen' \subseteq StreakKeys
      BY <2>4, <3>1, CountedType DEF RuleFails
    <3>3. pos' \in 1..Len(RuleSeq) + 1
      BY <2>0, <2>4 DEF RuleFails, NextRule
    <3>4. allOk' \in BOOLEAN
      BY <2>4 DEF RuleFails
    <3> QED
      BY <2>4, <3>2, <3>3, <3>4, Zenon DEF RuleFails
  <2>5. CASE PrecursorQueryFails
    BY <2>0, <2>5 DEF PrecursorQueryFails, NextRule
  <2>6. CASE AutoResolve
    BY <2>6 DEF AutoResolve
  <2>7. ASSUME NEW ok \in BOOLEAN, EndCycle(ok), inc' \in [Ids -> Incident],
               UNCHANGED <<world, acking, restarts>>
        PROVE  TypeOK'
    <3>1. Pruned \in [StreakKeys -> 0..MinCycles]
      BY <2>0 DEF Pruned
    <3>2. hits' \in [StreakKeys -> 0..MinCycles]
      BY <2>7, <3>1 DEF EndCycle
    <3>3. pos' \in 1..Len(RuleSeq) + 1
      BY <2>0, <2>7 DEF EndCycle, Idle
    <3> QED
      BY <2>7, <3>2, <3>3, Zenon DEF EndCycle, Idle
  <2>8. CASE SkipAutoResolve
    BY <2>7, <2>8 DEF SkipAutoResolve
  <2>9. CASE AutoResolveCommits
    <3>1. inc' \in [Ids -> Incident]
      BY <2>9, ResolvedType DEF AutoResolveCommits
    <3> QED
      BY <2>7, <2>9, <3>1 DEF AutoResolveCommits
  <2>10. CASE AutoResolveFails
    BY <2>7, <2>10 DEF AutoResolveFails
  <2>11. CASE \E i \in Ids : AckRead(i)
    BY <2>11 DEF AckRead, cycle
  <2>12. CASE \E i \in Ids : AckWrite(i)
    <3>1. PICK i \in Ids : AckWrite(i)
      BY <2>12
    <3>2. inc' \in [Ids -> Incident]
      BY <2>0, <3>1 DEF AckWrite, Incident, Statuses
    <3> QED
      BY <3>1, <3>2 DEF AckWrite, cycle
  <2>13. CASE \E i \in Ids : AckAgain(i)
    <3>1. PICK i \in Ids : AckAgain(i)
      BY <2>13
    <3>2. inc' \in [Ids -> Incident]
      BY <2>0, <3>1 DEF AckAgain, Incident
    <3> QED
      BY <3>1, <3>2 DEF AckAgain, cycle
  <2>14. CASE \E i \in Ids : UserResolve(i)
    BY <2>14, ResolvedType DEF UserResolve, cycle
  <2>15. CASE DiskCheck
    <3>1. [key |-> DiskKey, status |-> "open", age |-> 0] \in Incident
      BY <2>0 DEF Incident, IncidentKeys, Statuses
    <3>2. \A i \in Ids : [inc EXCEPT ![i].age = 0] \in [Ids -> Incident]
      BY <2>0 DEF Incident
    <3>3. inc' \in [Ids -> Incident]
      BY <2>15, <3>1, <3>2, ResolvedType DEF DiskCheck
    <3> QED
      BY <2>15, <3>3 DEF DiskCheck, cycle
  <2>16. CASE Restart
    <3>1. restarts' \in 0..MaxRestarts
      BY <2>16, ConstantsAssumption DEF Restart
    <3>2. pos' \in 1..Len(RuleSeq) + 1
      BY <2>0, <2>16 DEF Restart, Idle
    <3>3. hits' \in [StreakKeys -> 0..MinCycles]
      BY <2>0, <2>16 DEF Restart
    <3> QED
      BY <2>16, <3>1, <3>2, <3>3, Zenon DEF Restart, Idle
  <2>17. CASE \E c \in Conditions : WorldChanges(c)
    BY <2>17 DEF WorldChanges, cycle
  <2>18. CASE UNCHANGED vars
    BY <2>18 DEF vars
  <2> QED
    BY <2>1, <2>2, <2>3, <2>4, <2>5, <2>6, <2>8, <2>9, <2>10, <2>11, <2>12, <2>13,
       <2>14, <2>15, <2>16, <2>17, <2>18 DEF Next
<1> QED
  BY <1>1, <1>2, PTL DEF Spec

-----------------------------------------------------------------------------
(* A step that opens no row and leaves the keys of the open ones alone     *)
(* keeps them unique.                                                      *)
LEMMA UniqueIfOnlyKept ==
    ASSUME OpenUnique,
           \A i \in Ids : inc'[i].status = "open" => /\ inc[i].status = "open"
                                                   /\ inc'[i].key = inc[i].key
    PROVE  OpenUnique'
BY DEF OpenUnique

(* _find_or_create_incident inserts a row only for a key without a live    *)
(* row, and one row per key.                                               *)
LEMMA FindOrCreateUnique ==
    ASSUME inc \in [Ids -> Incident], OpenUnique, NEW K, FindOrCreate(K)
    PROVE  OpenUnique'
<1> DEFINE new == {k \in K : LiveRows(k) = {}}
<1>1. PICK row \in [new -> {i \in Ids : Free(i)}] :
        /\ \A a, b \in new : row[a] = row[b] => a = b
        /\ inc' = [i \in Ids |->
            IF \E k \in new : row[k] = i
            THEN [key |-> CHOOSE k \in new : row[k] = i, status |-> "open", age |-> 0]
            ELSE IF Live(i) /\ inc[i].key \in K THEN [inc[i] EXCEPT !.age = 0]
            ELSE inc[i]]
  BY DEF FindOrCreate
<1> DEFINE Inserted(i) == \E k \in new : row[k] = i
<1>2. ASSUME NEW i \in Ids, Inserted(i)
      PROVE  inc'[i].key \in new /\ row[inc'[i].key] = i
  <2>1. inc'[i] = [key |-> CHOOSE k \in new : row[k] = i, status |-> "open", age |-> 0]
    BY <1>1, <1>2
  <2> QED
    BY <1>2, <2>1
<1>3. ASSUME NEW i \in Ids, ~Inserted(i)
      PROVE  inc'[i].status = inc[i].status /\ inc'[i].key = inc[i].key
  <2>1. inc[i] \in Incident
    OBVIOUS
  <2> QED
    BY <1>1, <1>3, <2>1 DEF Incident
<1>4. ASSUME NEW i \in Ids, NEW k \in new, inc[i].status = "open" PROVE inc[i].key # k
  BY <1>4 DEF LiveRows, Live
<1> HIDE DEF new
<1> SUFFICES ASSUME NEW i \in Ids, NEW j \in Ids, inc'[i].status = "open",
                    inc'[j].status = "open", inc'[i].key = inc'[j].key
             PROVE  i = j
  BY DEF OpenUnique
<1>5. CASE Inserted(i) /\ Inserted(j)
  BY <1>2, <1>5
<1>6. CASE Inserted(i) /\ ~Inserted(j)
  BY <1>2, <1>3, <1>4, <1>6
<1>7. CASE ~Inserted(i) /\ Inserted(j)
  BY <1>2, <1>3, <1>4, <1>7
<1>8. CASE ~Inserted(i) /\ ~Inserted(j)
  BY <1>3, <1>8 DEF OpenUnique
<1> QED
  BY <1>5, <1>6, <1>7, <1>8

(* Two open incidents of one rule never name the same hosts, although no   *)
(* constraint of the table enforces it: the lookup before the insert is    *)
(* enough, because rules run one after the other and no other writer opens *)
(* an incident of theirs.                                                  *)
THEOREM OpenIncidentsUnique == Spec => []OpenUnique
<1>1. Init => OpenUnique
  BY DEF Init, OpenUnique, NoIncident
<1>2. TypeOK /\ OpenUnique /\ [Next]_vars => OpenUnique'
  <2> SUFFICES ASSUME TypeOK, OpenUnique, [Next]_vars PROVE OpenUnique'
    OBVIOUS
  <2>0. inc \in [Ids -> Incident]
    BY DEF TypeOK
  <2>1. CASE StartCycle
    <3>1. PICK d \in 1..MaxDelay : inc' = Aged(d)
      BY <2>1 DEF StartCycle
    <3>2. \A i \in Ids : inc'[i].status = inc[i].status /\ inc'[i].key = inc[i].key
      BY <2>0, <3>1 DEF Aged, Incident
    <3> QED
      BY <3>2, UniqueIfOnlyKept
  <2>2. CASE RunRule
    BY <2>0, <2>2, FindOrCreateUnique DEF RunRule
  <2>3. CASE AutoResolveCommits
    <3>1. \A i \in Ids : inc'[i] = IF i \in toResolve THEN Resolved(i) ELSE inc[i]
      BY <2>3 DEF AutoResolveCommits
    <3> QED
      BY <2>0, <3>1, ResolvedType, UniqueIfOnlyKept
  <2>4. CASE \E i \in Ids : AckWrite(i)
    <3>1. PICK i \in Ids : AckWrite(i)
      BY <2>4
    <3>2. \A j \in Ids : inc'[j] = IF j = i THEN [inc[i] EXCEPT !.status = "acknowledged", !.age = 0]
                                   ELSE inc[j]
      BY <2>0, <3>1 DEF AckWrite
    <3>3. inc'[i].status = "acknowledged"
      BY <2>0, <3>2 DEF Incident
    <3> QED
      BY <3>2, <3>3, UniqueIfOnlyKept
  <2>5. CASE \E i \in Ids : AckAgain(i)
    <3>1. PICK i \in Ids : AckAgain(i)
      BY <2>5
    <3>2. \A j \in Ids : inc'[j].status = inc[j].status /\ inc'[j].key = inc[j].key
      BY <2>0, <3>1 DEF AckAgain, Incident
    <3> QED
      BY <3>2, UniqueIfOnlyKept
  <2>6. CASE \E i \in Ids : UserResolve(i)
    BY <2>0, <2>6, ResolvedType, UniqueIfOnlyKept DEF UserResolve
  <2>7. CASE DiskCheck
    <3> DEFINE old == {i \in Ids : Live(i) /\ inc[i].key.rule = "disk_space"}
               opened == [key |-> DiskKey, status |-> "open", age |-> 0]
    <3>1. CASE \E i \in old : inc' = [inc EXCEPT ![i] = Resolved(i)]
      BY <2>0, <3>1, ResolvedType, UniqueIfOnlyKept
    <3>2. CASE \E i \in old : inc' = [inc EXCEPT ![i].age = 0]
      <4>1. PICK i \in old : inc' = [inc EXCEPT ![i].age = 0]
        BY <3>2
      <4>2. \A j \in Ids : inc'[j].status = inc[j].status /\ inc'[j].key = inc[j].key
        BY <2>0, <4>1 DEF Incident
      <4> QED
        BY <4>2, UniqueIfOnlyKept
    <3>3. CASE old = {} /\ \E i \in Ids : inc' = [inc EXCEPT ![i] = opened]
      <4>1. PICK i \in Ids : inc' = [inc EXCEPT ![i] = opened]
        BY <3>3
      <4>2. \A j \in Ids : inc'[j] = IF j = i THEN opened ELSE inc[j]
        BY <2>0, <4>1
      <4>3. \A j \in Ids : inc[j].status = "open" => inc[j].key # DiskKey
        BY <3>3 DEF Live, DiskKey
      <4> QED
        BY <4>2, <4>3 DEF OpenUnique
    <3> QED
      BY <2>7, <3>1, <3>2, <3>3 DEF DiskCheck
  <2>8. CASE UNCHANGED inc
    BY <2>8 DEF OpenUnique
  <2> QED
    BY <2>1, <2>2, <2>3, <2>4, <2>5, <2>6, <2>7, <2>8
    DEF Next, SkipRule, RuleFails, PrecursorQueryFails, AutoResolve, SkipAutoResolve,
        AutoResolveFails, AckRead, Restart, WorldChanges, vars
<1> QED
  BY <1>1, <1>2, TypeCorrect, PTL DEF Spec

-----------------------------------------------------------------------------
(* The rule whose run may count a streak key.                              *)
CountedBy(k, job) ==
    \/ k.rule = job /\ job \in HostRules
    \/ k.rule = "upstream_failure" /\ job = "host_down_syslog"
    \/ \E s \in Signals : SignalStreak(s) = k /\ s.job = job

(* What was counted in this cycle was counted by a rule that has run in it; *)
(* between cycles nothing is marked as counted.                            *)
SeenByEarlierRules ==
    \A k \in seen : /\ phase # "idle"
                    /\ \E n \in 1..Len(RuleSeq) : n < pos /\ CountedBy(k, RuleSeq[n])

(* No two rules share a streak key.                                        *)
LEMMA CountedByOneRule ==
    ASSUME NEW k, NEW a, NEW b, CountedBy(k, a), CountedBy(k, b)
    PROVE  a = b
BY SignalsAssumption DEF CountedBy, SignalStreak, HostRules

(* A rule counts keys of its own only.                                     *)
LEMMA HitsCountedBy ==
    ASSUME NEW job \in HostRules \cup LogRules, NEW k \in Hits(job)
    PROVE  CountedBy(k, job)
<1>0. \A r, S : HostStreak(r, S).rule = r
  BY DEF HostStreak
<1>1. CASE job = "host_down_syslog"
  <2>1. k \in HostDownSyslogHits
    BY <1>1 DEF Hits
  <2>2. \E S : k = HostStreak("host_down_syslog", S) \/ k = HostStreak("upstream_failure", S)
    BY <2>1 DEF HostDownSyslogHits
  <2>3. k.rule \in {"host_down_syslog", "upstream_failure"}
    BY <1>0, <2>2
  <2> QED
    BY <1>1, <2>3 DEF CountedBy, HostRules
<1>2. CASE job = "multi_host_down"
  <2>1. k \in MultiHostDownHits
    BY <1>2 DEF Hits
  <2>2. \E S : k = HostStreak("multi_host_down", S)
    BY <2>1 DEF MultiHostDownHits
  <2>3. k.rule = "multi_host_down"
    BY <1>0, <2>2
  <2> QED
    BY <1>2, <2>3 DEF CountedBy, HostRules
<1>3. CASE job = "integration_host"
  <2>1. k \in IntegrationHostHits
    BY <1>3 DEF Hits
  <2>2. \E S : k = HostStreak("integration_host", S)
    BY <2>1 DEF IntegrationHostHits
  <2>3. k.rule = "integration_host"
    BY <1>0, <2>2
  <2> QED
    BY <1>3, <2>3 DEF CountedBy, HostRules
<1>4. CASE job = "port_error"
  <2>1. k \in PortErrorHits
    BY <1>4 DEF Hits
  <2>2. \E S : k = HostStreak("port_error", S)
    BY <2>1 DEF PortErrorHits
  <2>3. k.rule = "port_error"
    BY <1>0, <2>2
  <2> QED
    BY <1>4, <2>3 DEF CountedBy, HostRules
<1>5. CASE job \in LogRules
  <2>1. Hits(job) = SignalHits(job)
    BY <1>5 DEF Hits, LogRules
  <2> QED
    BY <2>1 DEF SignalHits, CountedBy
<1> QED
  BY <1>1, <1>2, <1>3, <1>4, <1>5 DEF HostRules

(* SeenByEarlierRules holds in every reachable state.                      *)
LEMMA SeenInvariant == Spec => []SeenByEarlierRules
<1>1. Init => SeenByEarlierRules
  BY DEF Init, SeenByEarlierRules
<1>2. TypeOK /\ SeenByEarlierRules /\ [Next]_vars => SeenByEarlierRules'
  <2> SUFFICES ASSUME TypeOK, SeenByEarlierRules, [Next]_vars PROVE SeenByEarlierRules'
    OBVIOUS
  <2>0. pos \in Nat /\ Len(RuleSeq) \in Nat
        /\ \A n \in 1..Len(RuleSeq) : RuleSeq[n] \in HostRules \cup LogRules
    BY ConstantsAssumption, LenProperties DEF TypeOK
  <2>1. CASE StartCycle
    BY <2>1 DEF StartCycle, SeenByEarlierRules
  <2>2. ASSUME NextRule, pos' = pos + 1, phase' = phase,
               NEW K \in SUBSET Hits(RuleSeq[pos]), seen' = seen \cup K
        PROVE  SeenByEarlierRules'
    <3>1. pos \in 1..Len(RuleSeq)
      BY <2>2 DEF NextRule, TypeOK
    <3>2. \A k \in K : CountedBy(k, RuleSeq[pos])
      BY <2>0, <3>1, HitsCountedBy
    <3> SUFFICES ASSUME NEW k \in seen'
                 PROVE  /\ phase' # "idle"
                        /\ \E n \in 1..Len(RuleSeq) : n < pos' /\ CountedBy(k, RuleSeq[n])
      BY DEF SeenByEarlierRules, CountedBy
    <3>3. CASE k \in seen
      BY <2>0, <2>2, <3>3 DEF SeenByEarlierRules
    <3>4. CASE k \in K
      BY <2>0, <2>2, <3>1, <3>2, <3>4 DEF NextRule
    <3> QED
      BY <2>2, <3>3, <3>4
  <2>3. CASE RunRule
    BY <2>2, <2>3 DEF RunRule
  <2>4. CASE RuleFails
    BY <2>2, <2>4 DEF RuleFails
  <2>5. CASE SkipRule \/ PrecursorQueryFails
    <3>1. NextRule /\ pos' = pos + 1 /\ phase' = phase /\ seen' = seen \cup {}
      BY <2>5 DEF SkipRule, PrecursorQueryFails
    <3> QED
      BY <2>2, <3>1
  <2>6. CASE AutoResolve
    BY <2>6 DEF AutoResolve, SeenByEarlierRules, CountedBy
  <2>7. CASE seen' = {}
    BY <2>7 DEF SeenByEarlierRules
  <2>8. CASE UNCHANGED <<seen, phase, pos>>
    BY <2>8 DEF SeenByEarlierRules, CountedBy
  <2> QED
    BY <2>1, <2>3, <2>4, <2>5, <2>6, <2>7, <2>8
    DEF Next, SkipAutoResolve, AutoResolveCommits, AutoResolveFails, EndCycle, AckRead,
        AckWrite, AckAgain, UserResolve, DiskCheck, Restart, WorldChanges, cycle, vars
<1> QED
  BY <1>1, <1>2, TypeCorrect, PTL DEF Spec

(* A cycle counts at most once towards the consecutive runs a rule must    *)
(* match before it fires (_track_rule_hit), for every set of rules in      *)
(* every order and also when rules fail half way; the rule for             *)
(* integrations is the exception.                                          *)
THEOREM CyclesCountOnce == Spec => OneHitPerCycle
<1> DEFINE Once == \A k \in StreakKeys : k.rule # "integration_host" => CountsOnce(k)
<1>1. TypeOK /\ SeenByEarlierRules /\ [Next]_vars => [Once]_vars
  <2> SUFFICES ASSUME TypeOK, SeenByEarlierRules, Next,
                      NEW k \in StreakKeys, k.rule # "integration_host"
               PROVE  CountsOnce(k)
    BY DEF vars
  <2>0. hits[k] \in 0..MinCycles /\ MinCycles \in Nat
    BY ConstantsAssumption DEF TypeOK
  <2>1. ASSUME NextRule, NEW K \in SUBSET Hits(RuleSeq[pos]), hits' = Counted(K)
        PROVE  CountsOnce(k)
    <3>1. pos \in 1..Len(RuleSeq)
      BY <2>1 DEF NextRule, TypeOK
    <3>2. RuleSeq[pos] \in HostRules \cup LogRules
      BY <3>1, ConstantsAssumption, LenProperties
    <3>3. k \in seen => k \notin K
      BY <3>1, <3>2, HitsCountedBy, CountedByOneRule, ConstantsAssumption DEF SeenByEarlierRules
    <3>4. hits'[k] = IF k \in K THEN Saturate(hits[k] + 1) ELSE hits[k]
      BY <2>1 DEF Counted, Times
    <3> QED
      BY <2>0, <3>3, <3>4 DEF CountsOnce, Saturate
  <2>2. CASE RunRule
    BY <2>1, <2>2 DEF RunRule
  <2>3. CASE RuleFails
    BY <2>1, <2>3 DEF RuleFails
  <2>4. CASE hits' = hits
    BY <2>0, <2>4 DEF CountsOnce
  <2>5. CASE \E ok \in BOOLEAN : EndCycle(ok)
    BY <2>0, <2>5 DEF EndCycle, Pruned, CountsOnce
  <2>6. CASE Restart
    BY <2>0, <2>6 DEF Restart, CountsOnce
  <2> QED
    BY <2>2, <2>3, <2>4, <2>5, <2>6
    DEF Next, StartCycle, SkipRule, PrecursorQueryFails, AutoResolve, SkipAutoResolve,
        AutoResolveCommits, AutoResolveFails, AckRead, AckWrite, AckAgain, UserResolve,
        DiskCheck, WorldChanges, TypeOK
<1> QED
  BY <1>1, TypeCorrect, SeenInvariant, PTL DEF Spec, OneHitPerCycle

-----------------------------------------------------------------------------
(* What was the case at some moment of a cycle stays so until its end.     *)
MomentsStay ==
    /\ \A c \in AllConditions : WasAbsent(c) => WasAbsent(c)'
    /\ \A c \in AllConditions : WasPresent(c) => WasPresent(c)'

(* Only the start and the end of a cycle forget its moments.               *)
LEMMA MomentsKept ==
    ASSUME TypeOK, [Next]_vars, phase # "idle", phase' # "idle"
    PROVE  MomentsStay
<1>1. CASE UNCHANGED <<world, changed>>
  BY <1>1 DEF MomentsStay, WasAbsent, WasPresent
<1>2. CASE \E c \in Conditions : WorldChanges(c)
  BY <1>2 DEF WorldChanges, MomentsStay, WasAbsent, WasPresent
<1> QED
  BY <1>1, <1>2
  DEF Next, StartCycle, SkipRule, RunRule, RuleFails, PrecursorQueryFails, AutoResolve,
      SkipAutoResolve, AutoResolveCommits, AutoResolveFails, EndCycle, Idle, AckRead,
      AckWrite, AckAgain, UserResolve, DiskCheck, Restart, vars

(* What can be observed of a host.                                         *)
LEMMA HostConditions ==
    ASSUME NEW h \in Hosts
    PROVE  {Down(h), Maint(h), Errors(h), PortError(h)} \subseteq AllConditions
BY DEF AllConditions

(* A host that was fine at some moment of the cycle still was.             *)
LEMMA WasOnlineKept ==
    ASSUME MomentsStay, NEW h \in Hosts, WasOnline(h)
    PROVE  WasOnline(h)'
BY HostConditions DEF MomentsStay, WasOnline

(* The offline set of a cycle is what was the case when it was looked up:  *)
(* a host outside it was fine at that moment, one inside it was down.      *)
LookupHonest ==
    phase # "idle" /\ known =>
        \A h \in Hosts : /\ h \notin offline => WasOnline(h)
                         /\ h \in offline => WasPresent(Down(h))

(* LookupHonest: established by the lookup, kept by every later change of  *)
(* the world, which is recorded as one.                                    *)
LEMMA LookupInvariant == Spec => []LookupHonest
<1>1. Init => LookupHonest
  BY DEF Init, LookupHonest
<1>2. TypeOK /\ LookupHonest /\ [Next]_vars => LookupHonest'
  <2> SUFFICES ASSUME TypeOK, LookupHonest, [Next]_vars, phase' # "idle", known',
                      NEW h \in Hosts
               PROVE  /\ h \notin offline' => WasOnline(h)'
                      /\ h \in offline' => WasPresent(Down(h))'
    BY DEF LookupHonest
  <2>1. CASE StartCycle
    <3>1. offline' = OfflineNow /\ world' = world
      BY <2>1 DEF StartCycle
    <3> QED
      BY <3>1 DEF OfflineNow, InMaintenance, WasOnline, WasAbsent, WasPresent
  <2>2. CASE ~StartCycle
    <3>1. phase # "idle" /\ offline' = offline /\ known' = known
      BY <2>2
      DEF Next, SkipRule, RunRule, RuleFails, PrecursorQueryFails, NextRule, AutoResolve,
          SkipAutoResolve, AutoResolveCommits, AutoResolveFails, EndCycle, Idle, AckRead,
          AckWrite, AckAgain, UserResolve, DiskCheck, Restart, WorldChanges, cycle, vars
    <3>2. MomentsStay
      BY <3>1, MomentsKept
    <3> QED
      BY <3>1, <3>2, WasOnlineKept, HostConditions DEF LookupHonest, MomentsStay
  <2> QED
    BY <2>1, <2>2
<1> QED
  BY <1>1, <1>2, TypeCorrect, PTL DEF Spec

-----------------------------------------------------------------------------
(* The incident keys of the rules about one host name one host.            *)
LEMMA OneHostKeys ==
    ASSUME NEW k \in IncidentKeys, k.rule \in {"host_down_syslog", "integration_host", "port_error"}
    PROVE  \E h \in Hosts : k.hosts = {h}
<1>1. PICK s \in StreakKeys : k = KeyOf(s)
  BY DEF IncidentKeys, DiskKey
<1>2. s.rule = k.rule /\ s.hosts = k.hosts
  BY <1>1 DEF KeyOf
<1>3. s \notin {SignalStreak(t) : t \in Signals}
  BY <1>2, SignalsAssumption DEF SignalStreak, HostRules
<1> QED
  BY <1>2, <1>3 DEF StreakKeys

(* A host set that was fine at some moment of the cycle counts as          *)
(* recovered until the cycle ends.                                         *)
LEMMA RecoveredKept ==
    ASSUME MomentsStay, NEW k \in IncidentKeys, Recovered(k)
    PROVE  Recovered(k)'
<1>1. \A h \in Hosts : WasOnline(h) => WasOnline(h)'
  BY WasOnlineKept
<1>2. \A h \in Hosts : /\ WasAbsent(Errors(h)) => WasAbsent(Errors(h))'
                       /\ WasAbsent(PortError(h)) => WasAbsent(PortError(h))'
  BY HostConditions DEF MomentsStay
<1>3. CASE k.rule = "host_down_syslog"
  <2>1. k.hosts \subseteq Hosts
    BY <1>3, OneHostKeys
  <2> QED
    BY <1>1, <1>2, <1>3, <2>1 DEF Recovered
<1>4. CASE k.rule = "integration_host"
  <2>1. k.hosts \subseteq Hosts
    BY <1>4, OneHostKeys
  <2> QED
    BY <1>1, <1>4, <2>1 DEF Recovered
<1>5. CASE k.rule = "port_error"
  <2>1. k.hosts \subseteq Hosts
    BY <1>5, OneHostKeys
  <2> QED
    BY <1>2, <1>5, <2>1 DEF Recovered
<1>6. CASE k.rule = "multi_host_down"
  <2> DEFINE before == {h \in Hosts : ~WasOnline(h)}
             after == {h \in Hosts : ~WasOnline(h)'}
  <2>1. after \subseteq before /\ before \subseteq Hosts
    BY <1>1
  <2>2. IsFiniteSet(before)
    BY <2>1, ConstantsAssumption, FS_Subset
  <2>3. Cardinality(after) <= Cardinality(before) /\ IsFiniteSet(after)
    BY <2>1, <2>2, FS_Subset
  <2>4. Cardinality(after) \in Nat /\ Cardinality(before) \in Nat
    BY <2>2, <2>3, FS_CardinalityType
  <2>5. Cardinality(before) < 3
    BY <1>6 DEF Recovered
  <2>6. Cardinality(after) < 3
    BY <2>3, <2>4, <2>5
  <2> QED
    BY <1>6, <2>6 DEF Recovered
<1>7. CASE k.rule \notin HostRules
  BY <1>7 DEF Recovered, HostRules
<1> QED
  BY <1>3, <1>4, <1>5, <1>6, <1>7 DEF HostRules

(* What _auto_resolve lets go has recovered.                               *)
LEMMA ResolvableRecovered ==
    ASSUME TypeOK, LookupHonest, phase # "idle", known, NEW i \in Ids, Resolvable(i)
    PROVE  Recovered(inc[i].key)
<1> DEFINE k == inc[i].key
<1>0. k \in IncidentKeys
  BY DEF TypeOK, Incident
<1>1. \A h \in Hosts : h \notin offline => WasOnline(h)
  BY DEF LookupHonest
<1>2. CASE k.rule \in TimeoutRules
  <2>1. k.rule \notin HostRules
    BY <1>2, SignalsAssumption DEF TimeoutRules
  <2> QED
    BY <2>1 DEF Recovered, HostRules
<1>3. CASE k.rule = "host_down_syslog"
  <2>1. PICK h \in Hosts : k.hosts = {h}
    BY <1>0, <1>3, OneHostKeys
  <2>2. k.rule \notin TimeoutRules
    BY <1>3, SignalsAssumption DEF TimeoutRules, HostRules
  <2>3. h \notin offline \/ Errors(h) \notin world
    BY <1>3, <2>1, <2>2 DEF Resolvable
  <2> QED
    BY <1>1, <1>3, <2>1, <2>3 DEF Recovered, WasAbsent
<1>4. CASE k.rule = "integration_host"
  <2>1. PICK h \in Hosts : k.hosts = {h}
    BY <1>0, <1>4, OneHostKeys
  <2>2. k.rule \notin TimeoutRules
    BY <1>4, SignalsAssumption DEF TimeoutRules, HostRules
  <2>3. h \notin offline
    BY <1>4, <2>1, <2>2 DEF Resolvable
  <2> QED
    BY <1>1, <1>4, <2>1, <2>3 DEF Recovered
<1>5. CASE k.rule = "port_error"
  <2>1. PICK h \in Hosts : k.hosts = {h}
    BY <1>0, <1>5, OneHostKeys
  <2>2. k.rule \notin TimeoutRules
    BY <1>5, SignalsAssumption DEF TimeoutRules, HostRules
  <2>3. PortError(h) \notin world
    BY <1>5, <2>1, <2>2 DEF Resolvable
  <2> QED
    BY <1>5, <2>1, <2>3 DEF Recovered, WasAbsent
<1>6. CASE k.rule = "multi_host_down"
  <2> DEFINE down == {h \in Hosts : ~WasOnline(h)}
  <2>1. k.rule \notin TimeoutRules
    BY <1>6, SignalsAssumption DEF TimeoutRules, HostRules
  <2>2. Cardinality(offline) < 3
    BY <1>6, <2>1 DEF Resolvable
  <2>3. down \subseteq offline /\ IsFiniteSet(offline)
    BY <1>1, ConstantsAssumption, FS_Subset DEF TypeOK
  <2>4. Cardinality(down) <= Cardinality(offline) /\ IsFiniteSet(down)
    BY <2>3, FS_Subset
  <2>5. Cardinality(down) < 3
    BY <2>2, <2>3, <2>4, FS_CardinalityType
  <2> QED
    BY <1>6, <2>5 DEF Recovered
<1>7. CASE k.rule \notin HostRules
  BY <1>7 DEF Recovered, HostRules
<1> QED
  BY <1>2, <1>3, <1>4, <1>5, <1>6, <1>7 DEF HostRules

(* Between the decision of _auto_resolve and its commit, others may write  *)
(* the rows it decided on, but never turn one into another incident: a row *)
(* keeps its key or is no longer an incident.                              *)
HeldRowsKeepKey ==
    \A i \in toResolve : inc'[i].key \in {inc[i].key, DiskKey}

(* While _auto_resolve waits for its commit the cycle stands still, and    *)
(* rows it holds are not given to new incidents.                           *)
LEMMA HeldRows ==
    ASSUME TypeOK, [Next]_vars, phase = "resolving", phase' = "resolving"
    PROVE  HeldRowsKeepKey /\ UNCHANGED <<hits, seen, pos, known, offline, allOk, toResolve>>
<1>0. inc \in [Ids -> Incident] /\ toResolve \subseteq Ids
  BY DEF TypeOK
<1>1. CASE UNCHANGED inc
  <2>1. UNCHANGED <<hits, seen, pos, known, offline, allOk, toResolve>>
    BY <1>1
    DEF Next, StartCycle, SkipRule, RunRule, RuleFails, PrecursorQueryFails, NextRule,
        AutoResolve, SkipAutoResolve, AutoResolveCommits, AutoResolveFails, EndCycle, Idle,
        AckRead, AckWrite, AckAgain, UserResolve, DiskCheck, Restart, WorldChanges, cycle, vars
  <2> QED
    BY <1>1, <2>1 DEF HeldRowsKeepKey
<1>2. CASE \E i \in Ids : AckWrite(i)
  BY <1>0, <1>2 DEF AckWrite, HeldRowsKeepKey, Incident, cycle
<1>3. CASE \E i \in Ids : AckAgain(i)
  BY <1>0, <1>3 DEF AckAgain, HeldRowsKeepKey, Incident, cycle
<1>4. ASSUME NEW i \in Ids PROVE Resolved(i).key \in {inc[i].key, DiskKey}
  <2>1. inc[i] \in Incident
    BY <1>0
  <2> QED
    BY <2>1 DEF Resolved, NoIncident, Incident
<1>5. CASE \E i \in Ids : UserResolve(i)
  BY <1>0, <1>4, <1>5 DEF UserResolve, HeldRowsKeepKey, cycle
<1>6. CASE DiskCheck
  <2>1. UNCHANGED <<hits, seen, pos, known, offline, allOk, toResolve>>
    BY <1>6 DEF DiskCheck, cycle
  <2>2. CASE \E i \in Ids : inc' = [inc EXCEPT ![i] = Resolved(i)]
    BY <1>0, <1>4, <2>1, <2>2 DEF HeldRowsKeepKey
  <2>3. CASE \E i \in Ids : inc' = [inc EXCEPT ![i].age = 0]
    BY <1>0, <2>1, <2>3 DEF HeldRowsKeepKey, Incident
  <2>4. CASE \E i \in Ids : inc' = [inc EXCEPT ![i] = [key |-> DiskKey, status |-> "open", age |-> 0]]
    BY <1>0, <2>1, <2>4 DEF HeldRowsKeepKey
  <2> QED
    BY <1>6, <2>1, <2>2, <2>3, <2>4 DEF DiskCheck
<1> QED
  BY <1>1, <1>2, <1>3, <1>5, <1>6
  DEF Next, StartCycle, SkipRule, RunRule, RuleFails, PrecursorQueryFails, NextRule,
      AutoResolve, SkipAutoResolve, AutoResolveCommits, AutoResolveFails, EndCycle, Idle,
      AckRead, Restart, WorldChanges, vars

(* Whatever _auto_resolve is about to commit has recovered at some moment  *)
(* of this cycle, also if people and the disk job write the rows meanwhile.*)
HeldRowsRecovered ==
    phase = "resolving" =>
        \A i \in toResolve : \A k \in IncidentKeys : inc[i].key = k => Recovered(k)

(* HeldRowsRecovered: established by the decision, kept until the commit.  *)
LEMMA HeldRowsInvariant == Spec => []HeldRowsRecovered
<1>1. Init => HeldRowsRecovered
  BY DEF Init, HeldRowsRecovered
<1>2. TypeOK /\ LookupHonest /\ HeldRowsRecovered /\ [Next]_vars => HeldRowsRecovered'
  <2> SUFFICES ASSUME TypeOK, LookupHonest, HeldRowsRecovered, [Next]_vars,
                      phase' = "resolving", NEW i \in toResolve', NEW k \in IncidentKeys,
                      inc'[i].key = k
               PROVE  Recovered(k)'
    BY DEF HeldRowsRecovered
  <2>1. CASE AutoResolve
    <3>1. phase # "idle" /\ known /\ i \in Ids /\ Resolvable(i) /\ inc[i].key = k
      BY <2>1 DEF AutoResolve
    <3>2. Recovered(k)
      BY <3>1, ResolvableRecovered
    <3> QED
      BY <3>1, <3>2, MomentsKept, RecoveredKept
  <2>2. CASE phase = "resolving"
    <3>1. HeldRowsKeepKey /\ i \in toResolve
      BY <2>2, HeldRows
    <3>2. MomentsStay
      BY <2>2, MomentsKept
    <3>3. Recovered(k)
      <4>1. CASE k = DiskKey
        BY <4>1 DEF Recovered, DiskKey
      <4>2. CASE k = inc[i].key
        BY <2>2, <3>1, <4>2 DEF HeldRowsRecovered
      <4> QED
        BY <3>1, <4>1, <4>2 DEF HeldRowsKeepKey
    <3> QED
      BY <3>2, <3>3, RecoveredKept
  <2> QED
    BY <2>1, <2>2
    DEF Next, StartCycle, SkipRule, RunRule, RuleFails, PrecursorQueryFails, NextRule,
        SkipAutoResolve, AutoResolveCommits, AutoResolveFails, EndCycle, Idle,
        AckRead, AckWrite, AckAgain, UserResolve, DiskCheck, Restart, WorldChanges, cycle, vars
<1> QED
  BY <1>1, <1>2, TypeCorrect, LookupInvariant, PTL DEF Spec

(* The engine resolves an incident of hosts only if, at some moment of the *)
(* same cycle, the hosts were fine, for every topology, every set of rules *)
(* and whatever fails or is written by others in between.                  *)
THEOREM AutoResolveIsHonest == Spec => ResolvedHonestly
<1> DEFINE Honest == \A i \in Ids : AutoResolved(i) => Recovered(inc[i].key)
<1>1. TypeOK /\ HeldRowsRecovered /\ [Next]_vars => [Honest]_vars
  BY DEF TypeOK, Incident, HeldRowsRecovered, AutoResolved
<1> QED
  BY <1>1, TypeCorrect, HeldRowsInvariant, PTL DEF Spec, ResolvedHonestly

-----------------------------------------------------------------------------
(* A streak belongs to a rule of the cycle, and in a cycle that is         *)
(* complete so far, a rule that has run saw every streak of its own, or    *)
(* could not have seen it at some moment of the cycle.                     *)
StreaksHaveRule ==
    \A k \in StreakKeys : hits[k] > 0 => \E n \in 1..Len(RuleSeq) : CountedBy(k, RuleSeq[n])
AllRulesDone == phase = "resolving" => pos > Len(RuleSeq)
CompleteIsKnown == phase # "idle" /\ allOk => known
MissedHonestly ==
    phase # "idle" /\ allOk =>
        \A n \in 1..Len(RuleSeq), k \in StreakKeys :
            n < pos /\ CountedBy(k, RuleSeq[n]) /\ k \notin seen /\ ~PrecursorStreak(k)
                => CouldMiss(k)

(* The streak keys of the rules about one host name one host.              *)
LEMMA OneHostStreaks ==
    ASSUME NEW k \in StreakKeys, k.rule \in {"host_down_syslog", "integration_host", "port_error"}
    PROVE  \E h \in Hosts : k = HostStreak(k.rule, {h}) /\ k.hosts = {h}
<1>1. k \notin {SignalStreak(t) : t \in Signals}
  BY SignalsAssumption DEF SignalStreak, HostRules
<1> QED
  BY <1>1 DEF StreakKeys, HostStreak

(* What can be observed of signals and integrations.                       *)
LEMMA SignalConditions ==
    /\ \A s \in Signals : Matching(s) \in AllConditions
    /\ \A i \in Integrations : SnapFailed(i) \in AllConditions
BY DEF AllConditions

(* A rule that could have missed its key at some moment of the cycle still *)
(* could until the cycle ends.                                             *)
LEMMA CouldMissKept ==
    ASSUME MomentsStay, NEW k \in StreakKeys, CouldMiss(k)
    PROVE  CouldMiss(k)'
<1>1. \A h \in Hosts : WasOnline(h) => WasOnline(h)'
  BY WasOnlineKept
<1>2. \A h \in Hosts : /\ WasAbsent(Errors(h)) => WasAbsent(Errors(h))'
                       /\ WasAbsent(PortError(h)) => WasAbsent(PortError(h))'
                       /\ WasPresent(Maint(h)) => WasPresent(Maint(h))'
                       /\ WasPresent(Down(h)) => WasPresent(Down(h))'
  BY HostConditions DEF MomentsStay
<1>3. /\ \A s \in Signals : WasAbsent(Matching(s)) => WasAbsent(Matching(s))'
      /\ \A i \in Integrations : WasAbsent(SnapFailed(i)) => WasAbsent(SnapFailed(i))'
  BY SignalConditions DEF MomentsStay
<1>4. \A r \in TimeoutRules : r \notin HostRules
  BY SignalsAssumption DEF TimeoutRules
<1>5. CASE k.rule = "host_down_syslog"
  <2>1. PICK h \in Hosts : k.hosts = {h}
    BY <1>5, OneHostStreaks
  <2>2. WasOnline(h) \/ WasAbsent(Errors(h)) \/ \E a \in Ancestors(h) : WasPresent(Down(a))
    BY <1>4, <1>5, <2>1 DEF CouldMiss, HostRules
  <2>3. Ancestors(h) \subseteq Hosts
    BY DEF Ancestors
  <2>4. WasOnline(h)' \/ WasAbsent(Errors(h))' \/ \E a \in Ancestors(h) : WasPresent(Down(a))'
    BY <1>1, <1>2, <2>2, <2>3
  <2> QED
    BY <1>4, <1>5, <2>1, <2>4 DEF CouldMiss, HostRules
<1>6. CASE k.rule = "integration_host"
  <2>1. PICK h \in Hosts : k.hosts = {h}
    BY <1>6, OneHostStreaks
  <2>2. WasOnline(h) \/ \A i \in Integrations : HostOf[i] = h => WasAbsent(SnapFailed(i))
    BY <1>4, <1>6, <2>1 DEF CouldMiss, HostRules
  <2>3. WasOnline(h)' \/ \A i \in Integrations : HostOf[i] = h => WasAbsent(SnapFailed(i))'
    BY <1>1, <1>3, <2>2
  <2> QED
    BY <1>4, <1>6, <2>1, <2>3 DEF CouldMiss, HostRules
<1>7. CASE k.rule = "port_error"
  <2>1. PICK h \in Hosts : k.hosts = {h}
    BY <1>7, OneHostStreaks
  <2> QED
    BY <1>2, <1>4, <1>7, <2>1 DEF CouldMiss, HostRules
<1>8. CASE k.rule \in TimeoutRules
  <2>1. k.rule \notin {"host_down_syslog", "integration_host", "port_error"}
    BY <1>4, <1>8 DEF HostRules
  <2>2. PICK s \in Signals : SignalStreak(s) = k /\ WasAbsent(Matching(s))
    BY <1>8, <2>1 DEF CouldMiss
  <2>3. WasAbsent(Matching(s))'
    BY <1>3, <2>2
  <2> QED
    BY <1>8, <2>1, <2>2, <2>3 DEF CouldMiss
<1>9. CASE k.rule \notin {"host_down_syslog", "integration_host", "port_error"} \cup TimeoutRules
  BY <1>9 DEF CouldMiss
<1> QED
  BY <1>5, <1>6, <1>7, <1>8, <1>9

(* A rule that runs to its end either counts a streak of its own or could  *)
(* not see it.                                                             *)
LEMMA UncountedCouldMiss ==
    ASSUME TypeOK, LookupHonest, phase # "idle", NEW job \in HostRules \cup LogRules,
           Runs(job), NEW k \in StreakKeys, CountedBy(k, job), k \notin Hits(job)
    PROVE  CouldMiss(k)
<1>0. ASSUME job \in NeedsOffline
      PROVE  \A h \in Hosts : /\ h \notin offline => WasOnline(h)
                              /\ h \in offline => WasPresent(Down(h))
  BY <1>0 DEF Runs, LookupHonest
<1>1. ASSUME NEW s \in Signals, SignalStreak(s) = k, s.job = job PROVE CouldMiss(k)
  <2>1. k.rule \in TimeoutRules /\ k.rule \notin HostRules
    BY <1>1, SignalsAssumption DEF TimeoutRules, SignalStreak
  <2>2. Hits(job) = SignalHits(job)
    BY <1>1, ConstantsAssumption DEF Hits, LogRules
  <2>3. Matching(s) \notin world
    BY <1>1, <2>2 DEF SignalHits
  <2> QED
    BY <1>1, <2>1, <2>3 DEF CouldMiss, WasAbsent, HostRules
<1>6. \A r \in TimeoutRules : r \notin HostRules
  BY SignalsAssumption DEF TimeoutRules
<1>2. CASE k.rule = job /\ job = "host_down_syslog"
  <2>1. PICK h \in Hosts : k = HostStreak("host_down_syslog", {h})
    BY <1>2, OneHostStreaks
  <2>2. k.hosts = {h}
    BY <2>1 DEF HostStreak
  <2>3. h \notin Primary(offline) \/ Errors(h) \notin world
    BY <1>2, <2>1 DEF Hits, HostDownSyslogHits
  <2>4. h \in Cascaded(offline) => \E a \in Ancestors(h) : a \in Hosts /\ a \in offline
    BY DEF Cascaded, Ancestors
  <2>5. WasOnline(h) \/ WasAbsent(Errors(h)) \/ \E a \in Ancestors(h) : WasPresent(Down(a))
    BY <1>0, <1>2, <2>3, <2>4 DEF Primary, NeedsOffline, WasAbsent
  <2> QED
    BY <1>2, <1>6, <2>2, <2>5 DEF CouldMiss, HostRules
<1>3. CASE k.rule = job /\ job = "integration_host"
  <2>1. PICK h \in Hosts : k = HostStreak("integration_host", {h})
    BY <1>3, OneHostStreaks
  <2>2. k.hosts = {h}
    BY <2>1 DEF HostStreak
  <2>3. h \notin offline \/ FailedOn(h) = {}
    BY <1>3, <2>1 DEF Hits, IntegrationHostHits
  <2>4. WasOnline(h) \/ \A i \in Integrations : HostOf[i] = h => WasAbsent(SnapFailed(i))
    BY <1>0, <1>3, <2>3 DEF FailedOn, NeedsOffline, WasAbsent
  <2> QED
    BY <1>3, <1>6, <2>2, <2>4 DEF CouldMiss, HostRules
<1>4. CASE k.rule = job /\ job = "port_error"
  <2>1. PICK h \in Hosts : k = HostStreak("port_error", {h})
    BY <1>4, OneHostStreaks
  <2>2. k.hosts = {h}
    BY <2>1 DEF HostStreak
  <2>3. PortError(h) \notin world \/ Maint(h) \in world
    BY <1>4, <2>1 DEF Hits, PortErrorHits, InMaintenance
  <2> QED
    BY <1>4, <1>6, <2>2, <2>3 DEF CouldMiss, HostRules, WasAbsent, WasPresent
<1>5. CASE k.rule \in {"multi_host_down", "upstream_failure"}
  <2>1. k.rule \notin TimeoutRules
    BY <1>5, SignalsAssumption DEF TimeoutRules, HostRules
  <2> QED
    BY <1>5, <2>1 DEF CouldMiss
<1> QED
  BY <1>1, <1>2, <1>3, <1>4, <1>5 DEF CountedBy, HostRules

(* Streaks come from rules of the cycle; auto-resolve runs after the last  *)
(* of them; a complete cycle knows the offline hosts.                      *)
LEMMA StreaksInvariant ==
    Spec => [](StreaksHaveRule /\ AllRulesDone /\ CompleteIsKnown)
<1> DEFINE Inv == StreaksHaveRule /\ AllRulesDone /\ CompleteIsKnown
<1>1. Init => Inv
  BY DEF Init, StreaksHaveRule, AllRulesDone, CompleteIsKnown
<1>2. TypeOK /\ Inv /\ [Next]_vars => Inv'
  <2> SUFFICES ASSUME TypeOK, Inv, [Next]_vars PROVE Inv'
    OBVIOUS
  <2>1. AllRulesDone'
    BY DEF AllRulesDone, Next, StartCycle, SkipRule, RunRule, RuleFails, PrecursorQueryFails,
        NextRule, AutoResolve, SkipAutoResolve, AutoResolveCommits, AutoResolveFails, EndCycle,
        Idle, AckRead, AckWrite, AckAgain, UserResolve, DiskCheck, Restart, WorldChanges,
        cycle, vars
  <2>2. CompleteIsKnown'
    <3>1. CASE StartCycle
      <4>1. PICK ok \in BOOLEAN : known' = ok /\ allOk' = ok
        BY <3>1 DEF StartCycle
      <4> QED
        BY <4>1, Zenon DEF CompleteIsKnown
    <3>2. CASE AutoResolve
      BY <3>2, Zenon DEF AutoResolve, CompleteIsKnown
    <3>3. CASE RuleFails
      BY <3>3, Zenon DEF RuleFails, CompleteIsKnown
    <3>4. CASE phase' = "idle"
      BY <3>4 DEF CompleteIsKnown
    <3>5. CASE UNCHANGED <<phase, known, allOk>>
      BY <3>5, Zenon DEF CompleteIsKnown
    <3> QED
      BY <3>1, <3>2, <3>3, <3>4, <3>5
      DEF Next, SkipRule, RunRule, PrecursorQueryFails, SkipAutoResolve, AutoResolveCommits,
          AutoResolveFails, EndCycle, Idle, AckRead, AckWrite, AckAgain, UserResolve,
          DiskCheck, Restart, WorldChanges, cycle, vars
  <2>3. StreaksHaveRule'
    <3> SUFFICES ASSUME NEW k \in StreakKeys, hits'[k] > 0
                 PROVE  \E n \in 1..Len(RuleSeq) : CountedBy(k, RuleSeq[n])
      BY DEF StreaksHaveRule, CountedBy
    <3>0. hits[k] \in Nat /\ MinCycles \in Nat
      BY ConstantsAssumption DEF TypeOK
    <3>1. CASE hits[k] > 0
      BY <3>1 DEF StreaksHaveRule
    <3>2. ASSUME NextRule, NEW K \in SUBSET Hits(RuleSeq[pos]), hits' = Counted(K),
                 ~(hits[k] > 0)
          PROVE  \E n \in 1..Len(RuleSeq) : CountedBy(k, RuleSeq[n])
      <4>1. pos \in 1..Len(RuleSeq)
        BY <3>2 DEF NextRule, TypeOK
      <4>2. RuleSeq[pos] \in HostRules \cup LogRules
        BY <4>1, ConstantsAssumption, LenProperties
      <4>3. k \in K
        BY <3>0, <3>2 DEF Counted
      <4> QED
        BY <4>1, <4>2, <4>3, HitsCountedBy
    <3>3. CASE RunRule
      BY <3>1, <3>2, <3>3 DEF RunRule
    <3>4. CASE RuleFails
      BY <3>1, <3>2, <3>4 DEF RuleFails
    <3>5. CASE hits' = hits
      BY <3>1, <3>5
    <3>6. CASE \E ok \in BOOLEAN : EndCycle(ok)
      BY <3>0, <3>1, <3>6 DEF EndCycle, Pruned
    <3>7. CASE Restart
      BY <3>7 DEF Restart
    <3> QED
      BY <3>3, <3>4, <3>5, <3>6, <3>7
      DEF Next, StartCycle, SkipRule, PrecursorQueryFails, AutoResolve, SkipAutoResolve,
          AutoResolveCommits, AutoResolveFails, AckRead, AckWrite, AckAgain, UserResolve,
          DiskCheck, WorldChanges, vars, TypeOK
  <2> QED
    BY <2>1, <2>2, <2>3
<1> QED
  BY <1>1, <1>2, TypeCorrect, PTL DEF Spec

(* MissedHonestly: each rule adds its own keys when it runs to its end.    *)
LEMMA MissedInvariant == Spec => []MissedHonestly
<1>1. Init => MissedHonestly
  BY DEF Init, MissedHonestly
<1>2. TypeOK /\ LookupHonest /\ CompleteIsKnown /\ MissedHonestly /\ [Next]_vars
        => MissedHonestly'
  <2> SUFFICES ASSUME TypeOK, LookupHonest, CompleteIsKnown, MissedHonestly, [Next]_vars,
                      phase' # "idle", allOk', NEW n \in 1..Len(RuleSeq),
                      NEW k \in StreakKeys, n < pos', CountedBy(k, RuleSeq[n]),
                      k \notin seen', ~PrecursorStreak(k)
               PROVE  CouldMiss(k)'
    BY DEF MissedHonestly, CountedBy, PrecursorStreak
  <2>0. n \in Nat /\ pos \in Nat /\ RuleSeq[n] \in HostRules \cup LogRules
    BY ConstantsAssumption, LenProperties DEF TypeOK
  <2>1. CASE StartCycle
    BY <2>0, <2>1 DEF StartCycle
  <2>2. ASSUME phase # "idle", CouldMiss(k) PROVE CouldMiss(k)'
    BY <2>2, MomentsKept, CouldMissKept
  <2>3. ASSUME phase # "idle", allOk, n < pos, k \notin seen PROVE CouldMiss(k)'
    BY <2>2, <2>3 DEF MissedHonestly
  <2>4. CASE RunRule
    <3>1. phase # "idle" /\ allOk /\ k \notin seen /\ k \notin Hits(RuleSeq[pos])
          /\ Runs(RuleSeq[pos]) /\ pos' = pos + 1
      BY <2>4 DEF RunRule, NextRule
    <3>2. CASE n < pos
      BY <2>3, <3>1, <3>2
    <3>3. CASE n = pos
      BY <2>0, <2>2, <3>1, <3>3, UncountedCouldMiss
    <3> QED
      BY <2>0, <3>1, <3>2, <3>3
  <2>5. CASE RuleFails
    BY <2>5 DEF RuleFails
  <2>6. CASE SkipRule
    BY <2>6 DEF SkipRule, NextRule, Runs, CompleteIsKnown
  <2>7. CASE PrecursorQueryFails
    <3>1. phase # "idle" /\ allOk /\ k \notin seen /\ pos' = pos + 1
          /\ RuleSeq[pos] = "precursor_observed"
      BY <2>7 DEF PrecursorQueryFails, NextRule
    <3>2. n # pos
      BY <3>1 DEF CountedBy, PrecursorStreak, HostRules
    <3> QED
      BY <2>0, <2>3, <3>1, <3>2
  <2>8. CASE AutoResolve
    <3>1. phase # "idle" /\ allOk /\ pos' = pos /\ seen' = seen
      BY <2>8 DEF AutoResolve, TypeOK
    <3> QED
      BY <2>3, <3>1
  <2>9. CASE UNCHANGED <<seen, phase, pos, allOk>>
    BY <2>3, <2>9
  <2> QED
    BY <2>1, <2>4, <2>5, <2>6, <2>7, <2>8, <2>9
    DEF Next, SkipAutoResolve, AutoResolveCommits, AutoResolveFails, EndCycle, Idle, AckRead,
        AckWrite, AckAgain, UserResolve, DiskCheck, Restart, WorldChanges, cycle, vars
<1> QED
  BY <1>1, <1>2, TypeCorrect, LookupInvariant, StreaksInvariant, PTL DEF Spec

(* A streak is forgotten only after a cycle in which its rule could at     *)
(* some moment not have matched: no failed lookup, rolled-back rule or     *)
(* skipped rule ever costs one, for every set of rules in every order.     *)
THEOREM StreaksEndHonestly == Spec => StreakEndsHonestly
<1> DEFINE Honest == \A k \in StreakKeys : StreakEnds(k) /\ ~PrecursorStreak(k) => CouldMiss(k)
<1>1. TypeOK /\ StreaksHaveRule /\ AllRulesDone /\ MissedHonestly /\ [Next]_vars => [Honest]_vars
  <2> SUFFICES ASSUME TypeOK, StreaksHaveRule, AllRulesDone, MissedHonestly, Next,
                      NEW k \in StreakKeys, StreakEnds(k), ~PrecursorStreak(k)
               PROVE  CouldMiss(k)
    BY DEF vars
  <2>0. hits[k] \in Nat /\ hits[k] > 0 /\ hits'[k] = 0 /\ restarts' = restarts
        /\ MinCycles \in Nat \ {0} /\ restarts \in Nat
    BY ConstantsAssumption DEF TypeOK, StreakEnds
  <2>1. ASSUME NEW K, hits' = Counted(K) PROVE FALSE
    <3>1. hits'[k] = IF k \in K THEN Saturate(hits[k] + Times(k)) ELSE hits[k]
      BY <2>1 DEF Counted
    <3>2. Times(k) \in Nat
      BY TimesNat
    <3> QED
      BY <2>0, <3>1, <3>2 DEF Saturate
  <2>2. CASE AutoResolveCommits
    <3>1. allOk /\ k \notin seen /\ phase = "resolving"
      BY <2>0, <2>2 DEF AutoResolveCommits, EndCycle, Pruned
    <3>2. PICK n \in 1..Len(RuleSeq) : CountedBy(k, RuleSeq[n])
      BY <2>0 DEF StreaksHaveRule
    <3>3. n < pos
      BY <3>1, <3>2, ConstantsAssumption, LenProperties DEF AllRulesDone, TypeOK
    <3> QED
      BY <3>1, <3>2, <3>3 DEF MissedHonestly
  <2>3. CASE hits' = hits
    BY <2>0, <2>3
  <2>4. CASE RunRule \/ RuleFails
    BY <2>1, <2>4 DEF RunRule, RuleFails
  <2>5. CASE Restart
    BY <2>0, <2>5 DEF Restart
  <2>6. CASE SkipAutoResolve \/ AutoResolveFails
    BY <2>3, <2>6 DEF SkipAutoResolve, AutoResolveFails, EndCycle
  <2> QED
    BY <2>2, <2>3, <2>4, <2>5, <2>6
    DEF Next, StartCycle, SkipRule, PrecursorQueryFails, AutoResolve, AckRead, AckWrite,
        AckAgain, UserResolve, DiskCheck, WorldChanges
<1> QED
  BY <1>1, TypeCorrect, StreaksInvariant, MissedInvariant, PTL DEF Spec, StreakEndsHonestly

-----------------------------------------------------------------------------
(* In a cycle that is complete so far, the live incident of a confirmed    *)
(* streak that was counted has just been touched; so none that             *)
(* _auto_resolve has decided on as quiet belongs to such a streak.         *)
ConfirmedAreFresh ==
    allOk => \A k \in seen, i \in Ids :
                hits[k] >= MinCycles /\ Live(i) /\ inc[i].key = KeyOf(k) => inc[i].age = 0
HeldAreQuiet ==
    phase = "resolving" /\ allOk =>
        \A i \in toResolve, k \in seen :
            inc[i].key.rule \in TimeoutRules /\ hits[k] >= MinCycles => inc[i].key # KeyOf(k)

(* A row _find_or_create_incident leaves live is fresh, or untouched and   *)
(* of another key.                                                         *)
LEMMA FindOrCreateTouches ==
    ASSUME inc \in [Ids -> Incident], NEW K, FindOrCreate(K), NEW i \in Ids, Live(i)'
    PROVE  inc'[i].age = 0 \/ (inc'[i] = inc[i] /\ inc[i].key \notin K)
<1> DEFINE new == {k \in K : LiveRows(k) = {}}
<1>1. PICK row \in [new -> {j \in Ids : Free(j)}] :
        inc' = [j \in Ids |->
            IF \E k \in new : row[k] = j
            THEN [key |-> CHOOSE k \in new : row[k] = j, status |-> "open", age |-> 0]
            ELSE IF Live(j) /\ inc[j].key \in K THEN [inc[j] EXCEPT !.age = 0]
            ELSE inc[j]]
  BY DEF FindOrCreate
<1>2. inc[i] \in Incident
  OBVIOUS
<1>3. CASE \E k \in new : row[k] = i
  <2>1. inc'[i] = [key |-> CHOOSE k \in new : row[k] = i, status |-> "open", age |-> 0]
    BY <1>1, <1>3
  <2> QED
    BY <2>1
<1>4. CASE ~\E k \in new : row[k] = i
  BY <1>1, <1>2, <1>4 DEF Incident, Live
<1> QED
  BY <1>3, <1>4

(* Other writers leave a live row as old as it is, or fresh.               *)
LEMMA OthersTouch ==
    ASSUME inc \in [Ids -> Incident],
           \/ \E j \in Ids : AckWrite(j) \/ AckAgain(j) \/ UserResolve(j)
           \/ DiskCheck,
           NEW i \in Ids, Live(i)'
    PROVE  inc'[i].age = 0 \/ inc'[i] = inc[i]
<1>1. inc[i] \in Incident
  OBVIOUS
<1>2. ASSUME NEW j \in Ids, inc' = [inc EXCEPT ![j] = Resolved(j)]
      PROVE  inc'[i] = inc[i]
  BY <1>2, ResolvedType DEF Live
<1>3. ASSUME NEW j \in Ids, inc' = [inc EXCEPT ![j].age = 0]
      PROVE  inc'[i].age = 0 \/ inc'[i] = inc[i]
  BY <1>1, <1>3 DEF Incident
<1>4. ASSUME NEW j \in Ids, AckWrite(j)
      PROVE  inc'[i].age = 0 \/ inc'[i] = inc[i]
  BY <1>1, <1>4 DEF AckWrite, Incident
<1>5. ASSUME NEW j \in Ids, inc' = [inc EXCEPT ![j] = [key |-> DiskKey, status |-> "open", age |-> 0]]
      PROVE  inc'[i].age = 0 \/ inc'[i] = inc[i]
  BY <1>5
<1> QED
  BY <1>2, <1>3, <1>4, <1>5 DEF AckAgain, UserResolve, DiskCheck

(* ConfirmedAreFresh: the rule that confirms a streak touches its incident *)
(* in the same transaction.                                                *)
LEMMA FreshInvariant == Spec => []ConfirmedAreFresh
<1>1. Init => ConfirmedAreFresh
  BY DEF Init, ConfirmedAreFresh
<1>2. TypeOK /\ SeenByEarlierRules /\ ConfirmedAreFresh /\ [Next]_vars => ConfirmedAreFresh'
  <2> SUFFICES ASSUME TypeOK, SeenByEarlierRules, ConfirmedAreFresh, [Next]_vars, allOk',
                      NEW k \in seen', NEW i \in Ids, hits'[k] >= MinCycles, Live(i)',
                      inc'[i].key = KeyOf(k)
               PROVE  inc'[i].age = 0
    BY DEF ConfirmedAreFresh, KeyOf
  <2>0. inc \in [Ids -> Incident] /\ seen \subseteq StreakKeys /\ MinCycles \in Nat
    BY ConstantsAssumption DEF TypeOK
  <2>1. CASE StartCycle
    BY <2>1 DEF StartCycle, SeenByEarlierRules
  <2>2. CASE RunRule
    <3> DEFINE K == Hits(RuleSeq[pos])
               fired == {KeyOf(j) : j \in Fires(K)}
    <3>1. /\ FindOrCreate(fired) /\ hits' = Counted(K)
          /\ seen' = seen \cup K /\ allOk
      BY <2>2 DEF RunRule
    <3>2. inc'[i].age = 0 \/ (inc'[i] = inc[i] /\ inc[i].key \notin fired)
      BY <2>0, <3>1, FindOrCreateTouches
    <3>3. k \in StreakKeys
      BY <2>0, <3>1, HitsAreStreakKeys DEF TypeOK
    <3>4. hits[k] \in Nat /\ Times(k) \in Nat
      BY <3>3, TimesNat DEF TypeOK
    <3>5. CASE k \in K
      <4>1. hits[k] + Times(k) >= MinCycles
        BY <2>0, <3>1, <3>3, <3>4, <3>5 DEF Counted, Saturate
      <4>2. KeyOf(k) \in fired
        BY <3>5, <4>1 DEF Fires
      <4> QED
        BY <3>2, <4>2
    <3>6. CASE k \notin K
      <4>1. k \in seen /\ hits[k] >= MinCycles
        BY <3>1, <3>3, <3>6 DEF Counted
      <4>2. CASE inc'[i] = inc[i]
        BY <3>1, <4>1, <4>2 DEF ConfirmedAreFresh, Live
      <4> QED
        BY <3>2, <4>2
    <3> QED
      BY <3>5, <3>6
  <2>3. CASE RuleFails
    BY <2>3 DEF RuleFails
  <2>4. CASE seen' = {}
    BY <2>4
  <2>5. ASSUME hits' = hits, seen' = seen, allOk, inc'[i] = inc[i] PROVE inc'[i].age = 0
    BY <2>5 DEF ConfirmedAreFresh, Live
  <2>6. CASE SkipRule \/ PrecursorQueryFails \/ AutoResolve
    <3>1. hits' = hits /\ seen' = seen /\ inc' = inc
      BY <2>6 DEF SkipRule, PrecursorQueryFails, AutoResolve
    <3>2. allOk
      BY <2>6, Zenon DEF SkipRule, PrecursorQueryFails, AutoResolve
    <3> QED
      BY <2>5, <3>1, <3>2
  <2>7. CASE \/ \E j \in Ids : AckWrite(j) \/ AckAgain(j) \/ UserResolve(j)
             \/ DiskCheck
    <3>1. inc'[i].age = 0 \/ inc'[i] = inc[i]
      BY <2>0, <2>7, OthersTouch
    <3>2. hits' = hits /\ seen' = seen /\ allOk
      BY <2>7 DEF AckWrite, AckAgain, UserResolve, DiskCheck, cycle
    <3> QED
      BY <2>5, <3>1, <3>2
  <2>8. CASE UNCHANGED <<hits, seen, allOk, inc>>
    BY <2>5, <2>8
  <2> QED
    BY <2>1, <2>2, <2>3, <2>4, <2>6, <2>7, <2>8
    DEF Next, SkipAutoResolve, AutoResolveCommits, AutoResolveFails, EndCycle, AckRead,
        Restart, WorldChanges, cycle, vars
<1> QED
  BY <1>1, <1>2, TypeCorrect, SeenInvariant, PTL DEF Spec

(* HeldAreQuiet: what was decided as quiet stays so until the commit.      *)
LEMMA QuietInvariant == Spec => []HeldAreQuiet
<1>1. Init => HeldAreQuiet
  BY DEF Init, HeldAreQuiet
<1>2. TypeOK /\ ConfirmedAreFresh /\ HeldAreQuiet /\ [Next]_vars => HeldAreQuiet'
  <2> SUFFICES ASSUME TypeOK, ConfirmedAreFresh, HeldAreQuiet, [Next]_vars,
                      phase' = "resolving", allOk', NEW i \in toResolve', NEW k \in seen',
                      inc'[i].key.rule \in TimeoutRules, hits'[k] >= MinCycles,
                      inc'[i].key = KeyOf(k)
               PROVE  FALSE
    BY DEF HeldAreQuiet, KeyOf, TimeoutRules
  <2>1. CASE AutoResolve
    <3>1. /\ inc' = inc /\ hits' = hits /\ seen' = seen
          /\ i \in Ids /\ Live(i) /\ Resolvable(i)
      BY <2>1 DEF AutoResolve
    <3>2. allOk
      BY <2>1, Zenon DEF AutoResolve
    <3>3. inc[i].age = 0
      BY <3>1, <3>2 DEF ConfirmedAreFresh
    <3>4. inc[i].key.rule \notin HostRules
      BY <3>1, SignalsAssumption DEF TimeoutRules
    <3>5. inc[i].age >= ResolveAfter
      BY <3>1, <3>4 DEF Resolvable, HostRules
    <3> QED
      BY <3>3, <3>5, ConstantsAssumption
  <2>2. CASE phase = "resolving"
    <3>1. HeldRowsKeepKey /\ UNCHANGED <<hits, seen, allOk, toResolve>>
      BY <2>2, HeldRows
    <3>2. inc'[i].key # DiskKey
      BY SignalsAssumption DEF TimeoutRules, DiskKey
    <3>3. inc'[i].key = inc[i].key
      BY <3>1, <3>2 DEF HeldRowsKeepKey
    <3> QED
      BY <2>2, <3>1, <3>3 DEF HeldAreQuiet
  <2> QED
    BY <2>1, <2>2
    DEF Next, StartCycle, SkipRule, RunRule, RuleFails, PrecursorQueryFails, NextRule,
        SkipAutoResolve, AutoResolveCommits, AutoResolveFails, EndCycle, Idle,
        AckRead, AckWrite, AckAgain, UserResolve, DiskCheck, Restart, WorldChanges, cycle, vars
<1> QED
  BY <1>1, <1>2, TypeCorrect, FreshInvariant, PTL DEF Spec

(* A log incident is timed out as quiet by a complete cycle only if no     *)
(* confirmed streak of its own was counted in that cycle: the rules touch  *)
(* the incident before _auto_resolve reads its age.                        *)
THEOREM QuietMeansQuiet == Spec => QuietResolvedHonestly
<1> DEFINE Honest == \A i \in Ids : AutoResolved(i) /\ inc[i].key.rule \in TimeoutRules /\ allOk =>
                        ~\E k \in seen : KeyOf(k) = inc[i].key /\ hits[k] >= MinCycles
<1>1. HeldAreQuiet /\ [Next]_vars => [Honest]_vars
  BY DEF HeldAreQuiet, AutoResolved
<1> QED
  BY <1>1, QuietInvariant, PTL DEF Spec, QuietResolvedHonestly

=============================================================================
