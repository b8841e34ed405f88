-------------------------- MODULE Monitoring_proofs --------------------------
(***************************************************************************)
(* What holds of the components that watch hosts and agents for every size *)
(* of their constants: a host shown as up was reached and an outage is     *)
(* announced after the grace period only; the flag of a failing service is *)
(* earned; every open incident of a service has an entry that resolves it; *)
(* collectors pass over no line, tokens stay with their machine, updates   *)
(* stay as tight as the agent was told, and an integration's secret stays  *)
(* where it was entered for.  Each component has its inductive invariant;  *)
(* the specification of MCMonitoring moves one of them at a time.          *)
(***************************************************************************)
EXTENDS MCMonitoring, Sequences, FiniteSetTheorems, NaturalsInduction, WellFoundedInduction, TLAPS

(* Proof of UpWasReached.  The age of a row says how long ago somebody was   *)
(* answered: for a check, up to the interval its result was under way; for   *)
(* an agent, up to the window in which its last report counts.               *)

Slack == IF source = "agent" THEN ResultWindow - 1 ELSE 1
RowHonest == row.ok = "yes" => reached <= row.age + Slack
CycleHonest ==
    /\ cycle.busy => source = "icmp"
    /\ cycle.busy /\ cycle.online => reached <= IF lag THEN 1 ELSE 0
AgentHonest == source = "agent" => reached <= own
ReachedInv ==
    /\ source \in HostKinds /\ up \in BOOLEAN /\ lag \in BOOLEAN
    /\ row \in [ok : Answer, age : 0..Top]
    /\ own \in 0..Top /\ reached \in 0..Top
    /\ cycle \in [busy : BOOLEAN, online : BOOLEAN, prev : Answer]
    /\ RowHonest /\ CycleHonest /\ AgentHonest

(* Ages are counted up to a point beyond the window.                       *)
LEMMA Ages ==
    ASSUME HostChecksAssumption
    PROVE  /\ Top \in Nat /\ Top = 2 * ResultWindow + 2 /\ ResultWindow \in Nat \ {0}
           /\ \A n \in 0..Top : Age(n) \in 0..Top /\ Age(n) <= n + 1
           /\ \A m, n \in 0..Top, d \in Nat : m <= n + d => Age(m) <= Age(n) + d
BY DEF HostChecksAssumption, Top, Age

(* A row written now, or an interval ago, is honest when the result was.     *)
LEMMA StoredHonest ==
    ASSUME HostChecksAssumption, ReachedInv, NEW success \in BOOLEAN, NEW age \in {0, 1},
           row' = Stored(success, age), reached' \in 0..Top, reached' <= reached, source' = source,
           success => reached' <= age + Slack
    PROVE  row' \in [ok : Answer, age : 0..Top] /\ RowHonest'
<1>1. Slack \in Nat /\ Slack' = Slack
  BY Ages, SMTT(30) DEF Slack
<1>2. row.age \in 0..Top /\ row.ok \in Answer /\ reached \in 0..Top /\ Top \in Nat /\ Top >= 1
  BY Ages DEF ReachedInv
<1>3. CASE row.age < age
  BY <1>1, <1>2, <1>3 DEF Stored, ReachedInv, RowHonest
<1>4. CASE ~(row.age < age)
  <2>1. row' = [ok |-> YesNo(success), age |-> age]
    BY <1>4 DEF Stored
  <2>2. row'.ok = "yes" => success
    BY <2>1 DEF YesNo
  <2>3. row' \in [ok : Answer, age : 0..Top]
    BY <1>2, <2>1 DEF YesNo, Answer
  <2> QED
    BY <1>1, <2>1, <2>2, <2>3 DEF RowHonest
<1> QED
  BY <1>3, <1>4

(* Every step keeps it.                                                    *)
LEMMA ReachedStep == HostChecksAssumption /\ ReachedInv /\ [HostNext]_hostVars => ReachedInv'
<1> SUFFICES ASSUME HostChecksAssumption, ReachedInv, [HostNext]_hostVars PROVE ReachedInv'
  OBVIOUS
<1>0. /\ row.age \in 0..Top /\ reached \in 0..Top /\ own \in 0..Top /\ Top \in Nat
      /\ Slack \in Nat /\ ResultWindow \in Nat \ {0} /\ Top = 2 * ResultWindow + 2
      /\ source \in {"icmp", "agent"} /\ cycle.online \in BOOLEAN /\ cycle.busy \in BOOLEAN
  BY Ages DEF ReachedInv, Slack, HostChecksAssumption
<1>1. CASE Begin
  <2>1. source' = source /\ source = "icmp" /\ own' = own /\ row' = row /\ up \in BOOLEAN
    BY <1>1 DEF Begin, ReachedInv
  <2>2. /\ cycle' \in [busy : BOOLEAN, online : BOOLEAN, prev : Answer]
        /\ cycle'.online = up /\ lag' = FALSE /\ up' = up
    BY <1>1 DEF Begin, ReachedInv, Answer
  <2>3. reached' = (IF up THEN 0 ELSE reached) /\ reached' \in 0..Top /\ reached' <= reached
    BY <1>0, <1>1 DEF Begin
  <2>4. RowHonest' /\ CycleHonest' /\ AgentHonest'
    BY <1>0, <2>1, <2>2, <2>3 DEF ReachedInv, RowHonest, Slack, CycleHonest, AgentHonest
  <2> QED
    BY <2>1, <2>2, <2>3, <2>4 DEF ReachedInv
<1>2. CASE Finish
  <2>1. source' = source /\ own' = own /\ reached' = reached /\ cycle' = Idle /\ up' = up
    BY <1>2 DEF Finish, host
  <2>2. source = "icmp" /\ (cycle.online => reached <= 0 + Slack)
    BY <1>0, <1>2 DEF Finish, ReachedInv, CycleHonest, Slack
  <2>3. row' \in [ok : Answer, age : 0..Top] /\ RowHonest'
    <3>1. CASE row' = Stored(cycle.online, 0)
      BY <1>0, <2>1, <2>2, <3>1, StoredHonest
    <3>2. CASE row' = row
      BY <2>1, <3>2 DEF ReachedInv, RowHonest, Slack
    <3> QED
      BY <1>2, <3>1, <3>2 DEF Finish
  <2>4. CycleHonest' /\ cycle' \in [busy : BOOLEAN, online : BOOLEAN, prev : Answer] /\ lag' = FALSE
    BY <1>2, <2>1 DEF Finish, CycleHonest, Idle, Answer
  <2> QED
    BY <2>1, <2>3, <2>4 DEF ReachedInv, AgentHonest
<1>3. CASE AgentCycle
  <2>1. /\ source' = source /\ source = "agent" /\ own' = own /\ reached' = reached
        /\ cycle' = cycle /\ lag' = lag /\ up' = up
    BY <1>3 DEF AgentCycle, history
  <2>2. own < ResultWindow => reached <= 0 + Slack
    BY <1>0, <2>1 DEF ReachedInv, AgentHonest, Slack
  <2>3. row' \in [ok : Answer, age : 0..Top] /\ RowHonest'
    <3> DEFINE good == own < ResultWindow
    <3>1. CASE row' = Stored(good, 0)
      <4>1. good \in BOOLEAN /\ (good => reached' <= 0 + Slack)
        BY <2>1, <2>2
      <4>2. reached' \in 0..Top /\ reached' <= reached
        BY <1>0, <2>1
      <4> HIDE DEF good
      <4> QED
        BY <2>1, <3>1, <4>1, <4>2, StoredHonest
    <3>2. CASE row' = row
      BY <2>1, <3>2 DEF ReachedInv, RowHonest, Slack
    <3> QED
      BY <1>3, <3>1, <3>2 DEF AgentCycle
  <2> QED
    BY <2>1, <2>3 DEF ReachedInv, CycleHonest, AgentHonest
<1>4. CASE ProbeReports
  <2>1. /\ source' = source /\ own' = own /\ cycle' = cycle /\ lag' = lag /\ up' = up
        /\ reached' \in 0..Top /\ reached' <= reached
    BY <1>0, <1>4 DEF ProbeReports, host
  <2>2. row' \in [ok : Answer, age : 0..Top] /\ RowHonest'
    <3>1. ASSUME NEW age \in {0, 1}, row' = Stored(up, age), reached' = IF up THEN 0 ELSE reached
          PROVE  row' \in [ok : Answer, age : 0..Top] /\ RowHonest'
      BY <1>0, <2>1, <3>1, StoredHonest DEF ReachedInv
    <3>2. CASE row' = row /\ reached' = reached
      BY <2>1, <3>2 DEF ReachedInv, RowHonest, Slack
    <3> QED
      BY <1>4, <3>1, <3>2 DEF ProbeReports
  <2>3. CycleHonest' /\ AgentHonest'
    BY <1>0, <2>1 DEF ReachedInv, CycleHonest, AgentHonest
  <2> QED
    BY <2>1, <2>2, <2>3 DEF ReachedInv
<1>5. CASE CheckNow
  <2>1. /\ source' = source /\ own' = own /\ cycle' = cycle /\ lag' = lag /\ up' = up
        /\ reached' = IF source = "icmp" /\ up THEN 0 ELSE reached
    BY <1>5 DEF CheckNow, host
  <2>2. reached' \in 0..Top /\ reached' <= reached
    BY <1>0, <2>1
  <2>3. row' \in [ok : Answer, age : 0..Top] /\ RowHonest'
    <3> DEFINE good == IF source = "agent" THEN own < ResultWindow ELSE up
    <3>1. CASE row' = Stored(good, 0)
      <4>1. good \in BOOLEAN /\ (good => reached' <= 0 + Slack)
        <5>1. CASE source = "agent"
          <6>0. good \in BOOLEAN /\ (good => own < ResultWindow)
            BY <5>1
          <6>1. reached' <= own /\ Slack = ResultWindow - 1
            BY <1>0, <2>1, <5>1 DEF ReachedInv, AgentHonest, Slack
          <6>2. own < ResultWindow => reached' <= 0 + Slack
            BY <1>0, <2>2, <6>1
          <6> HIDE DEF good
          <6> QED
            BY <6>0, <6>2
        <5>2. CASE source = "icmp"
          <6>1. good = up /\ up \in BOOLEAN /\ Slack = 1 /\ (up => reached' = 0)
            BY <2>1, <5>2 DEF ReachedInv, Slack
          <6> QED
            BY <6>1
        <5> QED
          BY <1>0, <5>1, <5>2
      <4> HIDE DEF good
      <4> QED
        BY <2>1, <2>2, <3>1, <4>1, StoredHonest
    <3>2. CASE row' = row
      BY <1>0, <2>1, <2>2, <3>2 DEF ReachedInv, RowHonest, Slack
    <3> QED
      BY <1>5, <3>1, <3>2 DEF CheckNow
  <2>4. CycleHonest' /\ AgentHonest'
    BY <1>0, <2>1, <2>2 DEF ReachedInv, CycleHonest, AgentHonest
  <2> QED
    BY <2>1, <2>2, <2>3, <2>4 DEF ReachedInv
<1>6. CASE Tick
  <2>1. /\ source' = source /\ up' = up /\ cycle' = cycle
        /\ lag' = cycle.busy /\ (cycle.busy => ~lag)
        /\ row' = [row EXCEPT !.age = Age(row.age)] /\ own' = Age(own) /\ reached' = Age(reached)
    BY <1>6 DEF Tick, host
  <2>2. row'.ok = row.ok /\ row'.age = Age(row.age) /\ row' \in [ok : Answer, age : 0..Top]
    BY <1>0, <2>1, Ages DEF ReachedInv
  <2>3. own' \in 0..Top /\ reached' \in 0..Top /\ reached' <= reached + 1
    BY <1>0, <2>1, Ages
  <2>4. RowHonest'
    BY <1>0, <2>1, <2>2, Ages DEF ReachedInv, RowHonest, Slack
  <2>5. AgentHonest'
    <3>1. reached <= own => reached <= own + 0
      BY <1>0
    <3>2. reached <= own + 0 => Age(reached) <= Age(own) + 0
      BY <1>0, Ages
    <3> QED
      BY <1>0, <2>1, <2>3, <3>1, <3>2 DEF ReachedInv, AgentHonest
  <2>6. CycleHonest'
    BY <1>0, <2>1, <2>3 DEF ReachedInv, CycleHonest
  <2> QED
    BY <2>1, <2>2, <2>3, <2>4, <2>5, <2>6 DEF ReachedInv
<1>7. CASE AgentReports
  <2>1. /\ source' = source /\ row' = row /\ cycle' = cycle /\ lag' = lag /\ up' = up
        /\ own' = 0 /\ reached' = 0
    BY <1>7 DEF AgentReports, host
  <2> QED
    BY <1>0, <2>1 DEF ReachedInv, RowHonest, Slack, CycleHonest, AgentHonest
<1>8. CASE Restart
  <2>1. /\ source' = source /\ row' = row /\ cycle' = Idle /\ lag' = FALSE /\ up' = up
        /\ own' = own /\ reached' = reached
    BY <1>8 DEF Restart, host, history
  <2> QED
    BY <1>0, <2>1 DEF ReachedInv, RowHonest, Slack, CycleHonest, AgentHonest, Idle, Answer
<1>9. CASE ClearExpired \/ Toggle \/ World \/ UNCHANGED hostVars
  <2>1. /\ source' = source /\ row' = row /\ cycle' = cycle /\ lag' = lag /\ up' \in BOOLEAN
        /\ own' = own /\ reached' = reached
    BY <1>9 DEF ClearExpired, Toggle, World, hostVars, host, history, ReachedInv
  <2> QED
    BY <2>1 DEF ReachedInv, RowHonest, Slack, CycleHonest, AgentHonest
<1> QED
  BY <1>1, <1>2, <1>3, <1>4, <1>5, <1>6, <1>7, <1>8, <1>9 DEF HostNext

(* No false green, for every window, grace period and number of failures.    *)
THEOREM ShownUpWasReached == ASSUME HostChecksAssumption PROVE HostSpec => []UpWasReached
<1>1. HostInit => ReachedInv
  <2> SUFFICES ASSUME HostInit PROVE ReachedInv
    OBVIOUS
  <2>1. /\ source \in HostKinds /\ up = TRUE /\ lag = FALSE
        /\ row = [ok |-> None, age |-> Top] /\ own = Top /\ reached = Top /\ cycle = Idle
    BY DEF HostInit
  <2>2. RowHonest /\ CycleHonest /\ AgentHonest
    BY <2>1, Ages DEF RowHonest, CycleHonest, AgentHonest, Idle, None
  <2>3. row \in [ok : Answer, age : 0..Top] /\ own \in 0..Top /\ reached \in 0..Top
    BY <2>1, Ages DEF Answer
  <2>4. cycle \in [busy : BOOLEAN, online : BOOLEAN, prev : Answer]
    BY <2>1 DEF Idle, Answer
  <2> QED
    BY <2>1, <2>2, <2>3, <2>4 DEF ReachedInv
<1>2. ReachedInv /\ [HostNext]_hostVars => ReachedInv'
  BY ReachedStep
<1>3. ReachedInv => UpWasReached
  <2> SUFFICES ASSUME ReachedInv, State = "up" PROVE UpWasReached
    BY DEF UpWasReached
  <2>0. row.ok \in Answer /\ row.age \in Nat /\ ResultWindow \in Nat
    BY Ages DEF ReachedInv
  <2>1. row.ok = "yes" /\ row.age <= ResultWindow + 1
    BY <2>0 DEF State, Answer, None
  <2>2. reached \in Nat /\ reached <= row.age + Slack
    BY <2>1, Ages DEF ReachedInv, RowHonest
  <2>3. CASE source = "agent"
    <3>1. reached <= row.age + (ResultWindow - 1)
      BY <2>2, <2>3 DEF Slack
    <3>2. reached <= 2 * ResultWindow
      BY <2>0, <2>1, <2>2, <3>1
    <3> QED
      BY <2>3, <3>2 DEF UpWasReached
  <2>4. CASE source # "agent"
    <3>1. reached <= row.age + 1
      BY <2>2, <2>4 DEF Slack
    <3>2. reached <= ResultWindow + 2
      BY <2>0, <2>1, <2>2, <3>1
    <3> QED
      BY <2>4, <3>2 DEF UpWasReached
  <2> QED
    BY <2>3, <2>4
<1> QED
  BY <1>1, <1>2, <1>3, PTL DEF HostSpec

-----------------------------------------------------------------------------
(* Proofs, for requests that do not overlap: what each of the two handlers *)
(* read is still what is stored, so that every open incident keeps the     *)
(* entry that will resolve it.                                             *)

SnapshotsHold ==
    /\ report # Nobody => edit = Nobody /\ report.watched = watched /\ report.states = states
    /\ edit # Nobody => report = Nobody /\ edit.states = states /\ edit.entries = entries
Owned == \A s \in live : s \in watched /\ states[s].alerted
ServicesInv == ServicesTypeOK /\ SnapshotsHold /\ Owned

(* merge_report leaves the alert mark alone.                               *)
LEMMA MergedFacts ==
    ASSUME ServicesAssumption, NEW old \in ServiceState, NEW answer \in Answers
    PROVE  Merged(old, answer) \in ServiceState /\ Merged(old, answer).alerted = old.alerted
BY DEF ServicesAssumption, ServiceState, Answers, Merged

(* What the evaluation of a report makes of the states it read.            *)
LEMMA NewStatesFacts ==
    ASSUME ServicesAssumption, ServicesTypeOK, report # Nobody
    PROVE  /\ NewStates \in [Services -> ServiceState]
           /\ \A s \in report.watched : NewStates[s].alerted = report.states[s].alerted
<1>1. /\ report.answers \in [Services -> Answers] /\ report.watched \subseteq Services
      /\ report.states \in [Services -> ServiceState]
  BY DEF ServicesTypeOK
<1>2. Fresh \in ServiceState
  BY DEF ServicesAssumption, ServiceState, Fresh
<1> QED
  BY <1>1, <1>2, MergedFacts DEF NewStates

(* Nothing is watched at the start.                                        *)
LEMMA ServicesBegin == ServicesAssumption /\ ServicesInit => ServicesInv
<1> SUFFICES ASSUME ServicesAssumption, ServicesInit PROVE ServicesInv
  OBVIOUS
<1>1. states \in [Services -> ServiceState]
  BY DEF ServicesAssumption, ServicesInit, ServiceState, Fresh
<1>2. edits \in 0..MaxEdits
  BY DEF ServicesAssumption, ServicesInit
<1>3. ServicesTypeOK
  BY <1>1, <1>2, Zenon DEF ServicesInit, ServicesTypeOK
<1> QED
  BY <1>3 DEF ServicesInit, ServicesInv, SnapshotsHold, Owned

(* The commit of a report that read the current row.                       *)
LEMMA CommitKeeps ==
    ASSUME ServicesAssumption, ServicesInv, ReportCommit
    PROVE  ServicesInv'
<1>1. report # Nobody /\ ServicesTypeOK /\ report.watched = watched /\ report.states = states
  BY DEF ReportCommit, ServicesInv, SnapshotsHold
<1>2. /\ NewStates \in [Services -> ServiceState]
      /\ \A s \in watched : NewStates[s].alerted = states[s].alerted
  BY <1>1, NewStatesFacts
<1>3. Opens \subseteq watched /\ watched \subseteq Services /\ live \subseteq Services
  BY <1>1 DEF Opens, ServicesTypeOK
<1>4. states' \in [Services -> ServiceState]
  BY <1>2 DEF ReportCommit, ServiceState
<1>5. ServicesTypeOK'
  BY <1>1, <1>3, <1>4 DEF ReportCommit, ServicesTypeOK
<1>6. SnapshotsHold'
  BY <1>1 DEF ReportCommit, ServicesInv, SnapshotsHold
<1>7. Owned'
  <2> SUFFICES ASSUME NEW s \in live' PROVE s \in watched' /\ states'[s].alerted
    BY DEF Owned
  <2>1. s \in watched /\ s \notin Closes /\ (s \in Opens \/ states[s].alerted)
    BY <1>3 DEF ReportCommit, ServicesInv, Owned
  <2>2. states'[s] = [NewStates[s] EXCEPT !.alerted = (@ \/ s \in Opens) /\ s \notin Closes]
    BY <1>3, <2>1 DEF ReportCommit
  <2>3. NewStates[s] \in ServiceState /\ NewStates[s].alerted = states[s].alerted
    BY <1>2, <1>3, <2>1
  <2> QED
    BY <2>1, <2>2, <2>3 DEF ReportCommit, ServiceState
<1> QED
  BY <1>5, <1>6, <1>7 DEF ServicesInv

(* The commit of an edit that read the current row.                        *)
LEMMA EditKeeps ==
    ASSUME ServicesAssumption, ServicesInv, EditCommit
    PROVE  ServicesInv'
<1>1. /\ edit # Nobody /\ ServicesTypeOK /\ report = Nobody
      /\ edit.states = states /\ edit.entries = entries /\ edit.list \subseteq Services
  BY DEF EditCommit, ServicesInv, SnapshotsHold, ServicesTypeOK
<1>2. Fresh \in ServiceState
  BY DEF ServicesAssumption, ServiceState, Fresh
<1>3. states' \in [Services -> ServiceState] /\ \A s \in edit.list : states'[s] = states[s]
  BY <1>1, <1>2 DEF EditCommit, ServicesTypeOK
<1>4. ServicesTypeOK'
  BY <1>1, <1>3 DEF EditCommit, ServicesTypeOK
<1>5. SnapshotsHold'
  BY <1>1 DEF EditCommit, SnapshotsHold
<1>6. Owned'
  BY <1>1, <1>3 DEF EditCommit, ServicesInv, Owned, ServicesTypeOK
<1> QED
  BY <1>4, <1>5, <1>6 DEF ServicesInv

(* Every step keeps it, as long as handlers do not overlap.                *)
LEMMA ServicesStep ==
    ServicesAssumption /\ ~Overlap /\ ServicesInv /\ [ServicesNext]_servicesVars => ServicesInv'
<1> SUFFICES ASSUME ServicesAssumption, ~Overlap, ServicesInv, [ServicesNext]_servicesVars PROVE ServicesInv'
  OBVIOUS
<1>1. ASSUME NEW A \in SUBSET Services, ReportRead(A) PROVE ServicesInv'
  <2>1. report' \in [answers : [Services -> Answers], watched : SUBSET Services,
                     states : [Services -> ServiceState]]
    BY <1>1 DEF ReportRead, ServicesInv, ServicesTypeOK, Answers
  <2> QED
    BY <1>1, <2>1 DEF ReportRead, ServicesInv, ServicesTypeOK, SnapshotsHold, Owned, agentRow
<1>2. CASE ReportFails
  BY <1>2 DEF ReportFails, ServicesInv, ServicesTypeOK, SnapshotsHold, Owned, agentRow
<1>3. ASSUME NEW W \in SUBSET Services, EditRead(W) PROVE ServicesInv'
  BY <1>3 DEF EditRead, ServicesInv, ServicesTypeOK, SnapshotsHold, Owned, agentRow, ServicesAssumption
<1>4. CASE EditFails
  BY <1>4 DEF EditFails, ServicesInv, ServicesTypeOK, SnapshotsHold, Owned, agentRow
<1>5. ASSUME NEW s \in Services, UserResolve(s) \/ ServiceChanges(s) PROVE ServicesInv'
  BY <1>5 DEF UserResolve, ServiceChanges, ServicesInv, ServicesTypeOK, SnapshotsHold, Owned, agentRow
<1>6. CASE MaintenanceChanges
  BY <1>6 DEF MaintenanceChanges, ServicesInv, ServicesTypeOK, SnapshotsHold, Owned, agentRow
<1>7. CASE UNCHANGED servicesVars
  BY <1>7 DEF servicesVars, ServicesInv, ServicesTypeOK, SnapshotsHold, Owned
<1> QED
  BY <1>1, <1>2, <1>3, <1>4, <1>5, <1>6, <1>7, CommitKeeps, EditKeeps DEF ServicesNext

(* A live incident of a watched service always has an entry that resolves  *)
(* it, for any services and any number of reports to an alert, as long as  *)
(* the two handlers of an agent do not overlap.                            *)
THEOREM IncidentsAreOwned ==
    ASSUME ServicesAssumption, ~Overlap PROVE ServicesSpec => []IncidentsOwned
<1>1. ServicesInit => ServicesInv
  BY ServicesBegin
<1>2. ServicesInv /\ [ServicesNext]_servicesVars => ServicesInv'
  BY ServicesStep
<1>3. ServicesInv => IncidentsOwned
  BY DEF ServicesInv, Owned, IncidentsOwned
<1> QED
  BY <1>1, <1>2, <1>3, PTL DEF ServicesSpec

-----------------------------------------------------------------------------
(***************************************************************************)
(* The rest of the check cycle's state, and when an outage is announced.   *)
(***************************************************************************)
(* A host is counted as offline for no longer than no cycle saw it answer. *)
UnseenCovers == since \in 0..Grace => since <= unseen

(* The host as it starts.                                                  *)
LEMMA HostStart == ASSUME HostChecksAssumption, HostInit PROVE HostTypeOK /\ UnseenCovers
<1>1. row \in [ok : Answer, age : 0..Top] /\ beat \in 0..Top /\ own \in 0..Top /\ reached \in 0..Top
  BY Ages DEF HostInit, Answer
<1>2. unseen = Grace /\ since = Grace + 1 /\ changes = 0 /\ faults = 0 /\ Grace \in Nat
      /\ MaxHostChanges \in Nat /\ MaxHostFaults \in Nat
  BY DEF HostInit, HostChecksAssumption, NotOffline
<1>3. unseen \in 0..Grace /\ since \in 0..Grace + 1 /\ changes \in 0..MaxHostChanges
      /\ faults \in 0..MaxHostFaults /\ UnseenCovers
  BY <1>2 DEF UnseenCovers
<1>4. cycle \in [busy : BOOLEAN, online : BOOLEAN, prev : Answer]
  BY DEF HostInit, Idle, Answer
<1>5. /\ source \in HostKinds /\ up \in BOOLEAN /\ enabled \in BOOLEAN /\ probed \in BOOLEAN
      /\ window \in BOOLEAN /\ maint \in {"off", "on", "over"} /\ told \in BOOLEAN /\ lag \in BOOLEAN
      /\ said \in {None, "offline", "online"}
  BY DEF HostInit
<1> QED BY <1>1, <1>3, <1>4, <1>5 DEF HostTypeOK

(* A result is stored as a row.                                            *)
LEMMA StoredTyped ==
    ASSUME HostChecksAssumption, HostTypeOK, NEW b, NEW age \in {0, 1}
    PROVE  Stored(b, age) \in [ok : Answer, age : 0..Top]
<1>1. age \in 0..Top
  BY Ages
<1> QED BY <1>1 DEF Stored, HostTypeOK, YesNo, Answer

(* Every step keeps the types ...                                          *)
LEMMA HostTypesStep ==
    ASSUME HostChecksAssumption, HostTypeOK, HostNext \/ UNCHANGED hostVars PROVE HostTypeOK'
<1>0. /\ Grace \in Nat /\ MaxHostChanges \in Nat /\ MaxHostFaults \in Nat /\ Top \in Nat
      /\ changes \in 0..MaxHostChanges /\ faults \in 0..MaxHostFaults
      /\ unseen \in 0..Grace /\ since \in 0..Grace + 1 /\ 0 \in 0..Top /\ Top \in 0..Top
      /\ 0 \in 0..Grace /\ 0 \in 0..Grace + 1 /\ Grace + 1 \in 0..Grace + 1
  BY Ages DEF HostTypeOK, HostChecksAssumption
<1>1. CASE Begin
  <2>1. PICK prev \in {row.ok, None} :
          /\ faults' = (IF prev # row.ok THEN faults + 1 ELSE faults) /\ faults' <= MaxHostFaults
          /\ cycle' = [busy |-> TRUE, online |-> up, prev |-> prev]
    BY <1>1 DEF Begin
  <2>2. faults' \in 0..MaxHostFaults
    BY <1>0, <2>1
  <2>3. cycle' \in [busy : BOOLEAN, online : BOOLEAN, prev : Answer]
    BY <2>1 DEF HostTypeOK, Answer
  <2>4. maint' \in {"off", "on", "over"} /\ reached' \in 0..Top
    BY <1>0, <1>1 DEF Begin, HostTypeOK
  <2> QED BY <1>1, <2>2, <2>3, <2>4 DEF Begin, HostTypeOK, memory
<1>2. CASE Finish
  <2>1. since' \in 0..Grace + 1
    BY <1>0, <1>2 DEF Finish, OfflineSince, NotOffline
  <2>2. told' \in BOOLEAN /\ said' \in {None, "offline", "online"}
    BY <1>2 DEF Finish, HostTypeOK, GoesOffline
  <2>3. row' \in [ok : Answer, age : 0..Top] /\ faults' \in 0..MaxHostFaults
    BY <1>0, <1>2, StoredTyped DEF Finish, HostTypeOK
  <2>4. unseen' \in 0..Grace
    BY <1>0, <1>2 DEF Finish
  <2>5. cycle' \in [busy : BOOLEAN, online : BOOLEAN, prev : Answer] /\ lag' = FALSE
    BY <1>2 DEF Finish, Idle, Answer
  <2> QED BY <1>2, <2>1, <2>2, <2>3, <2>4, <2>5 DEF Finish, HostTypeOK, host
<1>3. CASE ClearExpired
  BY <1>3 DEF ClearExpired, HostTypeOK, memory, history
<1>4. CASE AgentCycle
  <2>1. row' \in [ok : Answer, age : 0..Top] /\ faults' \in 0..MaxHostFaults
    BY <1>0, <1>4, StoredTyped DEF AgentCycle, HostTypeOK
  <2>2. maint' \in {"off", "on", "over"}
    BY <1>4 DEF AgentCycle, HostTypeOK
  <2> QED BY <1>4, <2>1, <2>2 DEF AgentCycle, HostTypeOK, memory, history
<1>5. CASE ProbeReports
  <2>1. row' \in [ok : Answer, age : 0..Top] /\ reached' \in 0..Top /\ beat' \in 0..Top
    BY <1>0, <1>5, StoredTyped DEF ProbeReports, HostTypeOK
  <2> QED BY <1>5, <2>1 DEF ProbeReports, HostTypeOK, host, memory
<1>6. CASE AgentReports
  BY <1>0, <1>6 DEF AgentReports, HostTypeOK, host, memory
<1>7. CASE CheckNow
  <2>1. row' \in [ok : Answer, age : 0..Top] /\ faults' \in 0..MaxHostFaults
    BY <1>0, <1>7, StoredTyped DEF CheckNow, HostTypeOK
  <2>2. changes' \in 0..MaxHostChanges
    BY <1>0, <1>7 DEF CheckNow, Operator
  <2>3. reached' \in 0..Top
    BY <1>0, <1>7 DEF CheckNow, HostTypeOK
  <2> QED BY <1>7, <2>1, <2>2, <2>3 DEF CheckNow, HostTypeOK, host, memory
<1>8. CASE Toggle
  <2>1. changes' \in 0..MaxHostChanges
    BY <1>0, <1>8 DEF Toggle, Operator
  <2>2. beat' \in 0..Top
    BY <1>0, <1>8 DEF Toggle, HostTypeOK
  <2>3. /\ enabled' \in BOOLEAN /\ probed' \in BOOLEAN /\ window' \in BOOLEAN
        /\ maint' \in {"off", "on", "over"}
    BY <1>8 DEF Toggle, HostTypeOK
  <2> QED BY <1>8, <2>1, <2>2, <2>3 DEF Toggle, HostTypeOK, memory, history
<1>9. CASE Restart
  <2>1. faults' \in 0..MaxHostFaults /\ since' \in 0..Grace + 1
    BY <1>0, <1>9 DEF Restart, NotOffline
  <2>2. cycle' \in [busy : BOOLEAN, online : BOOLEAN, prev : Answer]
    BY <1>9 DEF Restart, Idle, Answer
  <2> QED BY <1>9, <2>1, <2>2 DEF Restart, HostTypeOK, host, history
<1>10. CASE World
  BY <1>10 DEF World, HostTypeOK, host, memory, history
<1>11. CASE Tick
  <2>1. since' \in 0..Grace + 1 /\ unseen' \in 0..Grace
    BY <1>0, <1>11 DEF Tick, Lower, NotOffline
  <2>2. beat' \in 0..Top /\ own' \in 0..Top /\ reached' \in 0..Top
    BY <1>11, Ages DEF Tick, HostTypeOK
  <2>3. row' \in [ok : Answer, age : 0..Top]
    BY <1>11, Ages DEF Tick, HostTypeOK
  <2>4. lag' \in BOOLEAN
    BY <1>11 DEF Tick, HostTypeOK
  <2> QED BY <1>11, <2>1, <2>2, <2>3, <2>4 DEF Tick, HostTypeOK, host
<1>12. CASE UNCHANGED hostVars
  BY <1>12 DEF hostVars, HostTypeOK
<1> QED BY <1>1, <1>2, <1>3, <1>4, <1>5, <1>6, <1>7, <1>8, <1>9, <1>10, <1>11, <1>12 DEF HostNext

(* ... and the count of the grace period, and announces an outage only     *)
(* after it.                                                               *)
LEMMA GraceStep ==
    ASSUME HostChecksAssumption, HostTypeOK, UnseenCovers, HostNext \/ UNCHANGED hostVars
    PROVE  UnseenCovers' /\ (~told /\ told' => unseen >= Grace)
<1>0. Grace \in Nat /\ unseen \in 0..Grace /\ since \in 0..Grace + 1
  BY DEF HostTypeOK, HostChecksAssumption
<1>1. CASE Finish
  <2>1. since' = OfflineSince /\ unseen' = (IF cycle.online THEN 0 ELSE unseen)
        /\ told' = (IF cycle.online THEN FALSE ELSE told \/ GoesOffline)
    BY <1>1 DEF Finish
  <2>2. UnseenCovers'
    BY <1>0, <2>1 DEF OfflineSince, NotOffline, UnseenCovers
  <2>3. ~told /\ told' => ~cycle.online /\ OfflineSince >= Grace
    BY <2>1 DEF GoesOffline
  <2>4. ~cycle.online /\ OfflineSince >= Grace => unseen >= Grace
    BY <1>0 DEF OfflineSince, NotOffline, UnseenCovers
  <2> QED BY <2>2, <2>3, <2>4
<1>2. CASE Tick
  <2>1. since' = (IF since = NotOffline THEN since ELSE Lower(since + 1, Grace))
        /\ unseen' = Lower(unseen + 1, Grace) /\ told' = told
    BY <1>2 DEF Tick
  <2>2. UnseenCovers'
    BY <1>0, <2>1 DEF Lower, NotOffline, UnseenCovers
  <2> QED BY <2>1, <2>2
<1>3. CASE Restart
  <2>1. since' = Grace + 1 /\ told' = FALSE
    BY <1>3 DEF Restart, NotOffline
  <2> QED BY <1>0, <2>1 DEF UnseenCovers
<1>4. ASSUME ~Finish, ~Tick, ~Restart PROVE UNCHANGED <<since, told, unseen>>
  BY <1>4 DEF HostNext, Begin, ClearExpired, AgentCycle, ProbeReports, AgentReports, CheckNow, Toggle,
              World, hostVars, memory, history
<1> QED BY <1>1, <1>2, <1>3, <1>4 DEF UnseenCovers

(* The records of the services' handlers stay well formed also when the    *)
(* handlers overlap.                                                       *)
LEMMA ServicesTypesStep ==
    ASSUME ServicesAssumption, ServicesTypeOK, ServicesNext \/ UNCHANGED servicesVars
    PROVE  ServicesTypeOK'
<1>0. Fresh \in ServiceState
  BY DEF ServicesAssumption, ServiceState, Fresh
<1>1. ASSUME NEW A \in SUBSET Services, ReportRead(A) PROVE ServicesTypeOK'
  <2>1. report' \in [answers : [Services -> Answers], watched : SUBSET Services,
                     states : [Services -> ServiceState]]
    BY <1>1 DEF ReportRead, ServicesTypeOK, Answers
  <2> QED
    BY <1>1, <2>1 DEF ReportRead, ServicesTypeOK, agentRow
<1>2. CASE ReportCommit
  <2>1. report # Nobody /\ NewStates \in [Services -> ServiceState] /\ report.watched \subseteq Services
    BY <1>2, NewStatesFacts DEF ReportCommit, ServicesTypeOK
  <2>2. Opens \subseteq Services
    BY <2>1 DEF Opens
  <2>3. states' \in [Services -> ServiceState]
    BY <1>2, <2>1 DEF ReportCommit, ServiceState
  <2> QED BY <1>2, <2>1, <2>2, <2>3 DEF ReportCommit, ServicesTypeOK
<1>3. CASE ReportFails
  BY <1>3 DEF ReportFails, ServicesTypeOK, agentRow
<1>4. ASSUME NEW W \in SUBSET Services, EditRead(W) PROVE ServicesTypeOK'
  BY <1>4 DEF EditRead, ServicesTypeOK, agentRow, ServicesAssumption
<1>5. CASE EditCommit
  <2>1. edit.list \subseteq Services /\ edit.states \in [Services -> ServiceState]
        /\ edit.entries \subseteq Services
    BY <1>5 DEF EditCommit, ServicesTypeOK
  <2>2. states' \in [Services -> ServiceState] /\ entries' \subseteq Services
    BY <1>0, <1>5, <2>1 DEF EditCommit, ServicesTypeOK
  <2> QED BY <1>5, <2>1, <2>2 DEF EditCommit, ServicesTypeOK
<1>6. CASE EditFails
  BY <1>6 DEF EditFails, ServicesTypeOK, agentRow
<1>7. ASSUME NEW s \in Services, UserResolve(s) \/ ServiceChanges(s) PROVE ServicesTypeOK'
  BY <1>7 DEF UserResolve, ServiceChanges, ServicesTypeOK, agentRow
<1>8. CASE MaintenanceChanges
  BY <1>8 DEF MaintenanceChanges, ServicesTypeOK, agentRow
<1>9. CASE UNCHANGED servicesVars
  BY <1>9 DEF servicesVars, ServicesTypeOK
<1> QED BY <1>1, <1>2, <1>3, <1>4, <1>5, <1>6, <1>7, <1>8, <1>9 DEF ServicesNext

-----------------------------------------------------------------------------
(***************************************************************************)
(* The flag of a failing service.  A streak of failures is never longer    *)
(* than the failures since the checks were reset and the one measurement   *)
(* that was under way then.                                                *)
(***************************************************************************)
PortInv ==
    /\ P!TypeOK
    /\ fail <= bad + 1
    /\ ~port_cycle.fresh => fail = 0

(* The streaks start at zero.                                              *)
LEMMA PortStart == ASSUME P!PortErrorsAssumption, P!Init PROVE PortInv
<1> USE DEF P!Init, P!PortErrorsAssumption
<1>1. port_cycle \in [busy : BOOLEAN, checks : P!Checks, online : BOOLEAN, bad : BOOLEAN,
                      fresh : BOOLEAN] /\ port_cycle.fresh
  BY DEF P!Idle, P!Checks, P!None
<1>2. fail \in 0..SetAfter /\ pass \in 0..ClearAfter /\ bad \in 0..SetAfter /\ fail <= bad + 1
      /\ port_changes \in 0..MaxPortChanges /\ port_faults \in 0..MaxPortFaults
  OBVIOUS
<1>3. checks \in P!Checks
  BY DEF P!Checks
<1> QED BY <1>1, <1>2, <1>3 DEF PortInv, P!TypeOK

(* A cycle ends: the streak and the failures counted since the reset go    *)
(* on together.                                                            *)
LEMMA PortFinish ==
    ASSUME P!PortErrorsAssumption, PortInv, P!Finish
    PROVE  PortInv' /\ (~portErr /\ portErr' => bad' >= SetAfter - 1)
<1> USE DEF P!PortErrorsAssumption
<1>1. /\ fail \in 0..SetAfter /\ pass \in 0..ClearAfter /\ bad \in 0..SetAfter
      /\ SetAfter \in Nat \ {0} /\ ClearAfter \in Nat \ {0} /\ fail <= bad + 1
      /\ ~port_cycle.fresh => fail = 0
      /\ port_cycle.bad \in BOOLEAN /\ port_cycle.fresh \in BOOLEAN /\ port_cycle.online \in BOOLEAN
  BY DEF PortInv, P!TypeOK
<1>2. /\ fail' = P!FailStreak /\ pass' = P!PassStreak /\ portErr' = P!Latched
      /\ bad' = IF ~port_cycle.fresh \/ port_cycle.checks = P!None \/ ~port_cycle.online THEN bad
                ELSE IF port_cycle.bad THEN P!Lower(bad + 1, SetAfter) ELSE 0
      /\ port_cycle' = P!Idle
      /\ UNCHANGED <<port_up, ok, port_watched, checks, port_changes, port_faults>>
  BY DEF P!Finish
<1>3. fail' \in 0..SetAfter /\ pass' \in 0..ClearAfter /\ bad' \in 0..SetAfter
  <2>1. /\ P!Lower(fail + 1, SetAfter) \in 0..SetAfter
        /\ P!Lower(pass + 1, ClearAfter) \in 0..ClearAfter
        /\ P!Lower(bad + 1, SetAfter) \in 0..SetAfter
    BY <1>1 DEF P!Lower
  <2> QED BY <1>1, <1>2, <2>1 DEF P!FailStreak, P!PassStreak
<1>4. fail' <= bad' + 1
  <2>1. CASE port_cycle.checks = P!None
    BY <1>1, <1>2, <1>3, <2>1 DEF P!FailStreak
  <2>2. CASE port_cycle.checks # P!None /\ ~port_cycle.online
    BY <1>1, <1>2, <1>3, <2>2 DEF P!FailStreak
  <2>3. CASE port_cycle.checks # P!None /\ port_cycle.online /\ ~port_cycle.bad
    BY <1>1, <1>2, <1>3, <2>3 DEF P!FailStreak
  <2>4. CASE port_cycle.checks # P!None /\ port_cycle.online /\ port_cycle.bad /\ ~port_cycle.fresh
    <3>1. fail' = P!Lower(0 + 1, SetAfter) /\ bad' = bad
      BY <1>1, <1>2, <2>4 DEF P!FailStreak
    <3> QED BY <1>1, <3>1 DEF P!Lower
  <2>5. CASE port_cycle.checks # P!None /\ port_cycle.online /\ port_cycle.bad /\ port_cycle.fresh
    <3>1. fail' = P!Lower(fail + 1, SetAfter) /\ bad' = P!Lower(bad + 1, SetAfter)
      BY <1>1, <1>2, <2>5 DEF P!FailStreak
    <3> QED BY <1>1, <3>1 DEF P!Lower
  <2> QED BY <1>1, <2>1, <2>2, <2>3, <2>4, <2>5
<1>5. portErr' \in BOOLEAN
  BY <1>2 DEF P!Latched
<1>6. port_cycle' \in [busy : BOOLEAN, checks : P!Checks, online : BOOLEAN, bad : BOOLEAN,
                       fresh : BOOLEAN] /\ port_cycle'.fresh
  BY <1>2 DEF P!Idle, P!Checks, P!None
<1>7. ~portErr /\ portErr' => fail' >= SetAfter
  BY <1>2 DEF P!Latched
<1>8. PortInv'
  BY <1>2, <1>3, <1>4, <1>5, <1>6 DEF PortInv, P!TypeOK
<1>9. fail' >= SetAfter => bad' >= SetAfter - 1
  <2>1. \A a, b \in Nat, c \in Nat : a <= b + 1 /\ a >= c => b >= c - 1
    OBVIOUS
  <2>2. fail' \in Nat /\ bad' \in Nat /\ SetAfter \in Nat
    BY <1>1, <1>3
  <2> QED BY <1>4, <2>1, <2>2
<1> QED BY <1>7, <1>8, <1>9

(* Every step of the flag's writers.                                       *)
LEMMA PortStep ==
    ASSUME P!PortErrorsAssumption, PortInv, P!Next \/ UNCHANGED portVars PROVE PortInv'
<1> USE DEF P!PortErrorsAssumption, PortInv, P!TypeOK
<1>1. CASE P!Begin
  <2>1. port_cycle' \in [busy : BOOLEAN, checks : P!Checks, online : BOOLEAN, bad : BOOLEAN,
                         fresh : BOOLEAN] /\ port_cycle'.fresh
    BY <1>1 DEF P!Begin, P!check_host
  <2> QED BY <1>1, <2>1 DEF P!Begin
<1>2. CASE P!Finish
  BY <1>2, PortFinish
<1>3. CASE P!CheckNow
  <2>1. portErr' \in BOOLEAN
    BY <1>3 DEF P!CheckNow, P!check_host
  <2> QED BY <1>3, <2>1 DEF P!CheckNow, P!Operator
<1>4. CASE P!ChangeChecks
  <2>1. port_cycle' \in [busy : BOOLEAN, checks : P!Checks, online : BOOLEAN, bad : BOOLEAN,
                         fresh : BOOLEAN]
    BY <1>4 DEF P!ChangeChecks
  <2>2. fail' = 0 /\ pass' = 0 /\ bad' = 0 /\ portErr' = FALSE /\ checks' \in P!Checks
        /\ port_changes' \in 0..MaxPortChanges
        /\ UNCHANGED <<port_up, ok, port_watched, port_faults>>
    BY <1>4 DEF P!ChangeChecks, P!Operator
  <2>3. fail' \in 0..SetAfter /\ bad' \in 0..SetAfter /\ pass' \in 0..ClearAfter
    BY <2>2
  <2>4. P!TypeOK'
    BY <2>1, <2>2, <2>3
  <2>5. fail' = 0 /\ fail' <= bad' + 1
    BY <2>2
  <2> HIDE DEF P!TypeOK
  <2> QED BY <2>4, <2>5
<1>5. CASE P!EditForm
  BY <1>5 DEF P!EditForm, P!Operator
<1>6. CASE P!Toggle
  BY <1>6 DEF P!Toggle, P!Operator
<1>7. CASE P!Restart
  <2>1. port_cycle' \in [busy : BOOLEAN, checks : P!Checks, online : BOOLEAN, bad : BOOLEAN,
                         fresh : BOOLEAN] /\ port_cycle'.fresh
    BY <1>7 DEF P!Restart, P!Idle, P!Checks, P!None
  <2> QED BY <1>7, <2>1 DEF P!Restart
<1>8. CASE P!World
  BY <1>8 DEF P!World
<1>9. CASE UNCHANGED portVars
  BY <1>9 DEF portVars
<1> QED BY <1>1, <1>2, <1>3, <1>4, <1>5, <1>6, <1>7, <1>8, <1>9 DEF P!Next

(* A cycle raises the flag for failures in a row only.                     *)
LEMMA PortEarned ==
    ASSUME P!PortErrorsAssumption, PortInv, P!Next \/ UNCHANGED portVars,
           ~portErr, portErr', port_cycle.busy, ~port_cycle'.busy
    PROVE  bad' >= SetAfter - 1
<1>1. ASSUME P!Begin \/ P!CheckNow \/ P!ChangeChecks \/ P!EditForm \/ P!Toggle \/ P!World
             \/ UNCHANGED portVars
      PROVE  port_cycle'.busy = port_cycle.busy \/ ~portErr'
  <2>1. CASE P!ChangeChecks
    BY <2>1 DEF P!ChangeChecks
  <2> QED BY <1>1, <2>1 DEF P!Begin, P!CheckNow, P!EditForm, P!Toggle, P!World, portVars
<1>2. CASE P!Restart
  BY <1>2 DEF P!Restart
<1>3. CASE P!Finish
  BY <1>3, PortFinish
<1> QED BY <1>1, <1>2, <1>3 DEF P!Next

-----------------------------------------------------------------------------
(***************************************************************************)
(* The update of an agent.  What it was told and wrote down is latched in  *)
(* memory and in the file, so that a restart does not forget it.           *)
(***************************************************************************)
Modes == [multi : BOOLEAN, probe : BOOLEAN]
Covers(t, u) == (u.multi => t.multi) /\ (u.probe => t.probe)
UpdateInv ==
    /\ {served, sig, update_running} \subseteq Binaries
    /\ multi \in BOOLEAN /\ probe \in BOOLEAN /\ key \in BOOLEAN /\ strict \in BOOLEAN
    /\ offer.hash \in Binaries \cup {0} /\ cache.hash \in Binaries \cup {0}
    /\ trust \in Modes /\ saved \in Modes /\ update_told \in Modes
    /\ Covers(trust, update_told) /\ Covers(saved, update_told)

(* A fresh agent has been told nothing.                                    *)
LEMMA UpdateStart == ASSUME E!UpdateInit PROVE UpdateInv
BY DEF E!UpdateInit, UpdateInv, E!Loose, E!Nothing, Modes, Covers

(* The latch only tightens, whether or not the file can be written.        *)
LEMMA UpdateObserve ==
    ASSUME UpdateInv, NEW mt \in BOOLEAN, NEW pr \in BOOLEAN, E!Observe(mt, pr)
    PROVE  /\ trust' \in Modes /\ saved' \in Modes /\ update_told' \in Modes
           /\ Covers(trust', update_told') /\ Covers(saved', update_told')
<1>1. trust' = [multi |-> trust.multi \/ mt, probe |-> trust.probe \/ pr]
  BY DEF E!Observe, E!Latched
<1>2. saved' = trust' \/ saved' = saved
  BY DEF E!Observe
<1>3. update_told' = IF saved' = trust'
                     THEN [multi |-> update_told.multi \/ mt, probe |-> update_told.probe \/ pr]
                     ELSE update_told
  BY DEF E!Observe
<1>4. trust' \in Modes /\ Covers(trust', update_told)
  BY <1>1 DEF UpdateInv, Modes, Covers
<1>5. CASE saved' = trust'
  <2>1. update_told' = [multi |-> update_told.multi \/ mt, probe |-> update_told.probe \/ pr]
    BY <1>3, <1>5
  <2>2. update_told' \in Modes /\ Covers(trust', update_told')
    BY <1>1, <2>1 DEF UpdateInv, Modes, Covers
  <2> QED BY <1>4, <1>5, <2>2
<1>6. CASE saved' # trust'
  BY <1>2, <1>3, <1>4, <1>6 DEF UpdateInv
<1> QED BY <1>5, <1>6

(* Every step of the server and the agent.                                 *)
LEMMA UpdateStep ==
    ASSUME UpdateInv, E!UpdateNext \/ UNCHANGED updateVars PROVE UpdateInv'
<1>1. ASSUME NEW b \in Binaries, NEW signed \in BOOLEAN, E!Deploy(b, signed) PROVE UpdateInv'
  BY <1>1 DEF E!Deploy, UpdateInv
<1>2. ASSUME NEW mt \in BOOLEAN, NEW pr \in BOOLEAN, E!ServerSays(mt, pr) PROVE UpdateInv'
  BY <1>2 DEF E!ServerSays, UpdateInv
<1>3. CASE E!Heartbeat
  <2>1. E!Observe(multi, probe) /\ multi \in BOOLEAN /\ probe \in BOOLEAN
    BY <1>3 DEF E!Heartbeat, UpdateInv
  <2>2. /\ trust' \in Modes /\ saved' \in Modes /\ update_told' \in Modes
        /\ Covers(trust', update_told') /\ Covers(saved', update_told')
    BY <2>1, UpdateObserve
  <2> QED BY <1>3, <2>2 DEF E!Heartbeat, UpdateInv
<1>4. CASE E!Version
  <2>1. E!AgentHash \in Binaries \cup {0}
    BY DEF E!AgentHash, UpdateInv
  <2>2. cache'.hash \in Binaries \cup {0} /\ offer'.hash \in Binaries \cup {0}
    BY <1>4, <2>1 DEF E!Version, E!Nothing
  <2>3. /\ trust' \in Modes /\ saved' \in Modes /\ update_told' \in Modes
        /\ Covers(trust', update_told') /\ Covers(saved', update_told')
    <3>1. CASE E!Observe(multi, FALSE)
      BY <3>1, UpdateObserve DEF UpdateInv
    <3>2. CASE UNCHANGED <<trust, saved, update_told, flips>>
      BY <3>2 DEF UpdateInv
    <3> QED BY <1>4, <3>1, <3>2 DEF E!Version
  <2> QED BY <1>4, <2>2, <2>3 DEF E!Version, UpdateInv
<1>5. CASE E!Download
  <2>1. update_running' \in Binaries /\ trust' \in {trust, saved}
    BY <1>5 DEF E!Download, UpdateInv
  <2>2. offer'.hash = 0
    BY <1>5 DEF E!Download, E!Nothing
  <2> QED BY <1>5, <2>1, <2>2 DEF E!Download, UpdateInv
<1>6. CASE E!Restart
  <2>1. offer'.hash = 0
    BY <1>6 DEF E!Restart, E!Nothing
  <2> QED BY <1>6, <2>1 DEF E!Restart, UpdateInv
<1>7. CASE UNCHANGED updateVars
  BY <1>7 DEF updateVars, UpdateInv
<1>8. updateVars = E!updateVars
  BY DEF updateVars, E!updateVars
<1> QED BY <1>1, <1>2, <1>3, <1>4, <1>5, <1>6, <1>7, <1>8 DEF E!UpdateNext, updateVars, E!updateVars

(* An agent that must not take unsigned binaries takes none.               *)
LEMMA UpdateTightened ==
    ASSUME UpdateInv, E!UpdateNext \/ UNCHANGED updateVars,
           update_running' # update_running, update_kind = "rust"
    PROVE  /\ update_told.multi \/ strict => update_running' \in Released
           /\ update_told.probe => update_running' \in Released \/ key
<1>1. CASE E!Download
  <2>1. update_running' = served /\ E!Authorized(served)
    BY <1>1 DEF E!Download
  <2>2. CASE offer.release \in Released /\ offer.release = served
    BY <2>1, <2>2
  <2>3. CASE E!Mode # "release" /\ (key \/ E!Mode = "standard")
    <3>1. ~strict /\ ~trust.multi /\ (trust.probe => key)
      BY <2>3 DEF E!Mode
    <3> QED BY <3>1 DEF UpdateInv, Covers
  <2> QED BY <2>1, <2>2, <2>3 DEF E!Authorized
<1>2. ASSUME ~E!Download PROVE update_running' = update_running
  BY <1>2 DEF E!UpdateNext, E!Deploy, E!ServerSays, E!Heartbeat, E!Version, E!Restart, updateVars,
              E!updateVars
<1> QED BY <1>1, <1>2

-----------------------------------------------------------------------------
(***************************************************************************)
(* Edits of an integration.  Every row a request holds, stored or not,     *)
(* keeps its secret where it was entered for; without a write over another *)
(* one's, a revision names one row.                                        *)
(***************************************************************************)
RowRec == [rev : Nat, at : Addresses, tls : BOOLEAN, for : Addresses \X BOOLEAN]
Kept(r) == r.for[1] = r.at /\ (~r.tls => ~r.for[2])
EditsInv ==
    /\ edits_row \in RowRec /\ Kept(edits_row) /\ edits_row.rev <= writes + 1
    /\ req \in [Requests -> RowRec \cup {X!Idle}]
    /\ \A r \in Requests : req[r] # X!Idle => Kept(req[r]) /\ req[r].rev <= writes + 1
    /\ job \in RowRec \cup {X!Idle}
    /\ stale \in BOOLEAN /\ writes \in 0..MaxWrites
    /\ ~stale /\ edits_row.rev > 0 =>
          /\ job.rev <= edits_row.rev
          /\ job.rev = edits_row.rev => job = edits_row

(* Rows and their absence have a revision.                                 *)
LEMMA RevIsNat == X!Idle.rev = 0 /\ \A r \in RowRec \cup {X!Idle} : r.rev \in Nat
<1>1. X!Idle.rev = 0
  BY DEF X!Idle
<1>2. \A r \in RowRec : r.rev \in Nat
  BY DEF RowRec
<1> QED BY <1>1, <1>2

(* The stored row, its secret entered for its address.                     *)
LEMMA EditsStart == ASSUME X!EditsAssumption, X!Init PROVE EditsInv
<1>1. PICK a \in Addresses : edits_row = [rev |-> 1, at |-> a, tls |-> TRUE, for |-> <<a, TRUE>>]
  BY DEF X!Init
<1>2. edits_row \in RowRec /\ Kept(edits_row) /\ edits_row.rev = 1
  BY <1>1 DEF RowRec, Kept
<1>3. req = [r \in Requests |-> X!Idle] /\ job = X!Idle /\ stale = FALSE /\ writes = 0
  BY DEF X!Init
<1>4. X!Idle.rev = 0
  BY DEF X!Idle
<1>5. writes \in 0..MaxWrites /\ edits_row.rev <= writes + 1 /\ job.rev < edits_row.rev
  BY <1>2, <1>3, <1>4 DEF X!EditsAssumption
<1>6. req \in [Requests -> RowRec \cup {X!Idle}] /\ \A r \in Requests : req[r] = X!Idle
  BY <1>3
<1>7. job.rev # edits_row.rev /\ job.rev <= edits_row.rev
  BY <1>2, <1>3, <1>4
<1> QED BY <1>2, <1>3, <1>5, <1>6, <1>7 DEF EditsInv

(* update_config.                                                          *)
LEMMA EditsWrite ==
    ASSUME X!EditsAssumption, EditsInv, NEW r \in Requests, NEW at \in Addresses,
           NEW tls \in BOOLEAN, NEW entered \in BOOLEAN, X!Write(r, at, tls, entered)
    PROVE  EditsInv'
<1> DEFINE was == req[r]
           fits == edits_row.rev > 0 /\ X!Allowed(was, at, tls, entered)
           new == [rev |-> was.rev + 1, at |-> at, tls |-> tls,
                   for |-> IF entered THEN <<at, tls>> ELSE was.for]
<1>1. /\ was # X!Idle /\ req' = [req EXCEPT ![r] = X!Idle]
      /\ writes < MaxWrites /\ writes' = writes + 1
      /\ edits_row' = IF fits THEN new ELSE edits_row
      /\ stale' = (stale \/ (fits /\ was # edits_row))
      /\ job' = job
  BY DEF X!Write
<1>2. was \in RowRec /\ Kept(was) /\ was.rev <= writes + 1 /\ writes \in Nat /\ was.rev \in Nat
      /\ edits_row.rev \in Nat /\ edits_row \in RowRec
  BY <1>1 DEF EditsInv, RowRec, X!EditsAssumption
<1>3. new \in RowRec /\ new.rev = was.rev + 1 /\ new.rev <= writes' + 1
  BY <1>1, <1>2 DEF RowRec
<1>4. fits => Kept(new)
  <2> HAVE fits
  <2>1. entered \/ (at = was.at /\ (tls \/ ~was.tls))
    BY DEF X!Allowed
  <2>2. CASE entered
    <3>1. new.for = <<at, tls>> /\ new.at = at /\ new.tls = tls
      BY <2>2
    <3> QED BY <3>1 DEF Kept
  <2>3. CASE ~entered
    <3>1. new.for = was.for /\ new.at = was.at /\ new.tls = tls /\ (tls \/ ~was.tls)
      BY <2>1, <2>3
    <3> QED BY <1>2, <3>1 DEF Kept
  <2> QED BY <2>2, <2>3
<1> HIDE DEF was, fits, new
<1>5. edits_row' \in RowRec /\ Kept(edits_row') /\ edits_row'.rev <= writes' + 1
  BY <1>1, <1>2, <1>3, <1>4 DEF EditsInv
<1>6. req' \in [Requests -> RowRec \cup {X!Idle}]
      /\ \A q \in Requests : req'[q] # X!Idle => req'[q] = req[q]
  BY <1>1 DEF EditsInv
<1>7. \A q \in Requests : req'[q] # X!Idle => Kept(req'[q]) /\ req'[q].rev <= writes' + 1
  <2> TAKE q \in Requests
  <2> HAVE req'[q] # X!Idle
  <2>1. req'[q] = req[q] /\ req[q] \in RowRec
    BY <1>6 DEF EditsInv
  <2>2. Kept(req[q]) /\ req[q].rev <= writes + 1 /\ req[q].rev \in Nat
    BY <1>6, <2>1 DEF EditsInv, RowRec
  <2> QED BY <1>1, <1>2, <2>1, <2>2
<1>8. stale' \in BOOLEAN /\ writes' \in 0..MaxWrites
  BY <1>1 DEF EditsInv, X!EditsAssumption
<1>9. job.rev \in Nat
  BY RevIsNat DEF EditsInv
<1>10. ~stale' /\ edits_row'.rev > 0 =>
          /\ job'.rev <= edits_row'.rev
          /\ job'.rev = edits_row'.rev => job' = edits_row'
  <2> HAVE ~stale' /\ edits_row'.rev > 0
  <2>1. CASE fits
    <3>1. ~stale /\ was = edits_row /\ edits_row' = new /\ edits_row.rev > 0
      BY <1>1, <2>1 DEF fits
    <3>2. job.rev <= edits_row.rev
      BY <3>1 DEF EditsInv
    <3> QED BY <1>1, <1>2, <1>3, <1>9, <3>1, <3>2
  <2>2. CASE ~fits
    BY <1>1, <2>2 DEF EditsInv
  <2> QED BY <2>1, <2>2
<1> QED BY <1>1, <1>5, <1>6, <1>7, <1>8, <1>10 DEF EditsInv

(* Every step of requests, collects and the deletion.                      *)
LEMMA EditsStep ==
    ASSUME X!EditsAssumption, EditsInv, X!Next \/ UNCHANGED editsVars PROVE EditsInv'
<1>0. /\ X!Idle.rev = 0 /\ edits_row.rev \in Nat /\ writes \in Nat /\ MaxWrites \in Nat
      /\ job.rev \in Nat
  BY RevIsNat DEF EditsInv, RowRec, X!EditsAssumption
<1>1. ASSUME NEW r \in Requests, X!Read(r) PROVE EditsInv'
  BY <1>1 DEF X!Read, EditsInv
<1>2. ASSUME NEW r \in Requests, NEW a \in Addresses, NEW tls \in BOOLEAN, NEW entered \in BOOLEAN,
             X!Write(r, a, tls, entered)
      PROVE  EditsInv'
  BY <1>2, EditsWrite
<1>3. CASE X!Delete
  <2>1. /\ edits_row' = [edits_row EXCEPT !.rev = 0] /\ writes' = writes + 1 /\ writes < MaxWrites
        /\ req' = req /\ job' = job /\ stale' = stale
    BY <1>3 DEF X!Delete
  <2>2. edits_row' \in RowRec /\ edits_row'.rev = 0 /\ Kept(edits_row')
    BY <2>1 DEF EditsInv, RowRec, Kept
  <2>3. \A r \in Requests : req[r] # X!Idle => Kept(req[r]) /\ req[r].rev <= writes' + 1
    <3> TAKE r \in Requests
    <3> HAVE req[r] # X!Idle
    <3>1. req[r] \in RowRec /\ Kept(req[r]) /\ req[r].rev <= writes + 1
      BY DEF EditsInv
    <3> QED BY <1>0, <2>1, <3>1 DEF RowRec
  <2> QED BY <1>0, <2>1, <2>2, <2>3 DEF EditsInv
<1>4. CASE X!Start
  <2>1. job' = edits_row /\ UNCHANGED <<edits_row, req, stale, writes>>
    BY <1>4 DEF X!Start
  <2> QED BY <1>0, <2>1 DEF EditsInv
<1>5. CASE X!Ingest
  <2>1. job' = X!Idle /\ UNCHANGED <<edits_row, req, stale, writes>>
    BY <1>5 DEF X!Ingest
  <2> QED BY <1>0, <2>1 DEF EditsInv
<1>6. CASE UNCHANGED editsVars
  BY <1>6 DEF EditsInv, editsVars
<1>7. X!vars = editsVars
  BY DEF X!vars, editsVars
<1> QED BY <1>1, <1>2, <1>3, <1>4, <1>5, <1>6, <1>7 DEF X!Next, X!vars, editsVars

(* A result that counts was collected with the row that is stored.         *)
LEMMA EditsCurrent ==
    ASSUME EditsInv, X!Next \/ UNCHANGED editsVars, data' # data, edits_row'.rev > 0, ~stale
    PROVE  data' = X!Settings(edits_row)
<1>1. CASE X!Ingest
  <2>1. X!Accepted /\ data' = X!Settings(job)
    BY <1>1 DEF X!Ingest
  <2>2. job = edits_row
    BY <2>1 DEF X!Accepted, EditsInv
  <2> QED BY <2>1, <2>2
<1>2. CASE X!Delete
  <2>1. edits_row'.rev = 0
    BY <1>2 DEF X!Delete, EditsInv, RowRec
  <2> QED BY <2>1
<1>3. ASSUME ~X!Ingest, ~X!Delete PROVE data' = data
  BY <1>3 DEF X!Next, X!Read, X!Write, X!Start, X!vars, editsVars
<1> QED BY <1>1, <1>2, <1>3

-----------------------------------------------------------------------------
(***************************************************************************)
(* The log collectors.  A position of the journal, of a container or of    *)
(* the event log lies on a line that was there at the last collection, and *)
(* all of those were sent or excused.  An offset of a file that was not    *)
(* rotated since lies within what was looked at; the lines before the file *)
(* and those the offset covers were sent or excused.                       *)
(***************************************************************************)
Seen(i) == i \in got \cup excused
CollectTypes == C!TypeOK /\ clock \in 1..MaxClock /\ restarts \in Nat
InOrder ==
    /\ \A i, j \in C!Lines : i <= j => stamps[i] <= stamps[j]
    /\ \A i \in C!Lines : stamps[i] <= clock
Position ==
    /\ collect_kind = "journal" => pos <= upto
    /\ collect_kind \in {"docker", "events"} /\ pos # 0 => \E k \in 1..upto : pos = stamps[k]
    /\ collect_kind = "file" /\ ~swapped => base + pos <= upto
AllSeen ==
    /\ collect_kind # "file" => \A i \in 1..upto : Seen(i)
    /\ collect_kind = "file" =>
          /\ \A i \in 1..base : Seen(i)
          /\ \A i \in 1..upto : base < i /\ i <= base + pos => Seen(i)
          /\ \A i \in 1..upto : Seen(i) \/ (over /\ i \in C!FileDue)
NotAgain ==
    /\ C!SentOnce
    /\ restarts = 0 /\ collect_kind = "journal" => \A i \in got : i <= pos
    /\ restarts = 0 /\ collect_kind = "file" /\ ~over => \A i \in got : i \notin C!FileDue
CollectInv == CollectTypes /\ InOrder /\ Position /\ AllSeen /\ NotAgain

(* The instance counts like everybody else.                                *)
LEMMA SameCardinality == \A S : C!Cardinality(S) = Cardinality(S)
BY DEF C!Cardinality, Cardinality

(* A set of numbers has a least one ...                                    *)
LEMMA LeastNat ==
    ASSUME NEW T \in SUBSET Nat, T # {}
    PROVE  \E m \in T : \A k \in T : m <= k
<1>1. PICK x \in T : \A y \in T : ~(<<y, x>> \in OpToRel(<, Nat))
  BY NatLessThanWellFounded, WFMin, Zenon
<1>2. \A y \in T : ~(y < x)
  BY <1>1 DEF OpToRel
<1> QED BY <1>2

(* ... and, below a bound, a greatest one.                                 *)
LEMMA GreatestLine ==
    ASSUME NEW n \in Nat, NEW T \in SUBSET (1..n), T # {}
    PROVE  C!Max(T) \in T /\ \A h \in T : h <= C!Max(T)
<1> DEFINE far == {n - k : k \in T}
<1>1. far \in SUBSET Nat /\ far # {}
  <2>1. \A k \in T : n - k \in Nat
    OBVIOUS
  <2> QED BY <2>1
<1>2. PICK m \in far : \A k \in far : m <= k
  BY <1>1, LeastNat
<1>3. PICK j \in T : m = n - j
  BY <1>2
<1>4. \A i \in T : j >= i
  <2> TAKE i \in T
  <2>1. m <= n - i
    BY <1>2
  <2>2. i \in 1..n /\ j \in 1..n
    BY <1>3
  <2> QED BY <1>3, <2>1, <2>2
<1>5. C!Max(T) \in T /\ \A h \in T : C!Max(T) >= h
  BY <1>3, <1>4 DEF C!Max
<1> QED BY <1>5

(* A collection that takes fewer lines than are due has met the limit.     *)
LEMMA OldestOfFew ==
    ASSUME NEW n \in Nat, NEW T \in SUBSET (1..n), Limit \in Nat, C!Oldest(T) # T
    PROVE  C!Cardinality(T) > Limit
<1>1. PICK i \in T : ~(Cardinality({j \in T : j < i}) < Limit)
  BY SameCardinality DEF C!Oldest
<1> DEFINE low == {j \in T : j < i}
<1>2. IsFiniteSet(T)
  <2>1. IsFiniteSet(1..n)
    BY FS_Interval
  <2> QED BY <2>1, FS_Subset
<1>3. IsFiniteSet(T \ {i}) /\ Cardinality(T \ {i}) = Cardinality(T) - 1 /\ Cardinality(T) \in Nat
  BY <1>2, FS_RemoveElement, FS_CardinalityType
<1>4. low \subseteq T \ {i}
  OBVIOUS
<1>5. IsFiniteSet(low) /\ Cardinality(low) \in Nat /\ Cardinality(low) <= Cardinality(T \ {i})
  BY <1>3, <1>4, FS_Subset, FS_CardinalityType
<1>6. Cardinality(low) >= Limit
  BY <1>1, <1>5
<1> HIDE DEF low
<1>7. Cardinality(T) > Limit
  BY <1>3, <1>5, <1>6
<1> QED BY <1>7, SameCardinality

(* The elements of a sequence.                                             *)
LEMMA Elements == ASSUME NEW S, NEW s \in Seq(S) PROVE \A i \in 1..Len(s) : s[i] \in S
OBVIOUS

(* What a file's collection reads.                                         *)
LEMMA FileDueIs ==
    ASSUME CollectTypes
    PROVE  /\ C!Lines = 1..Len(stamps) /\ Len(stamps) \in Nat /\ base \in 0..Len(stamps) /\ pos \in Nat
           /\ C!FileDue = {i \in C!Lines : i > base + (IF Len(stamps) - base < pos THEN 0 ELSE pos)}
           /\ C!FileDue \subseteq C!Lines
BY DEF CollectTypes, C!TypeOK, C!Lines, C!FileDue

(* A fresh agent.                                                          *)
LEMMA CollectStart == ASSUME C!CollectAssumption, C!Init PROVE CollectInv
<1>1. /\ stamps = <<>> /\ base = 0 /\ clock = 1 /\ pos = 0 /\ upto = 0 /\ got = {} /\ twice = {}
      /\ excused = {} /\ over = FALSE /\ swapped = FALSE /\ restarts = 0 /\ collect_kind \in LogKinds
  BY DEF C!Init
<1>2. Len(stamps) = 0 /\ stamps \in Seq(1..MaxClock) /\ C!Lines = {}
  BY <1>1 DEF C!Lines
<1>3. CollectTypes
  <2>1. clock \in 1..MaxClock
    BY <1>1 DEF C!CollectAssumption
  <2>2. base \in 0..Len(stamps) /\ upto \in 0..Len(stamps) /\ pos \in Nat /\ restarts \in Nat
    BY <1>1, <1>2
  <2>3. twice \subseteq got /\ got \cup excused \subseteq C!Lines /\ {over, swapped} \subseteq BOOLEAN
    BY <1>1
  <2> QED BY <1>1, <1>2, <2>1, <2>2, <2>3 DEF CollectTypes, C!TypeOK
<1> QED BY <1>1, <1>2, <1>3 DEF CollectInv, InOrder, Position, AllSeen, NotAgain, C!SentOnce

(* A line is written: what is due grows by it.                             *)
LEMMA CollectWrite == ASSUME C!CollectAssumption, CollectInv, C!Write PROVE CollectInv'
<1>1. /\ stamps' = Append(stamps, clock)
      /\ UNCHANGED <<collect_kind, base, clock, last, pos, upto, got, twice, excused, over, swapped,
                     fails, restarts, rotations>>
  BY DEF C!Write
<1>2. /\ stamps \in Seq(1..MaxClock) /\ clock \in 1..MaxClock /\ base \in 0..Len(stamps)
      /\ upto \in 0..Len(stamps) /\ pos \in Nat /\ got \subseteq C!Lines /\ excused \subseteq C!Lines
  BY DEF CollectInv, CollectTypes, C!TypeOK
<1>3. /\ stamps' \in Seq(1..MaxClock) /\ Len(stamps') = Len(stamps) + 1 /\ Len(stamps) \in Nat
      /\ \A i \in 1..Len(stamps) : stamps'[i] = stamps[i]
      /\ stamps'[Len(stamps) + 1] = clock
  BY <1>1, <1>2
<1>4. C!Lines = 1..Len(stamps) /\ C!Lines' = 1..(Len(stamps) + 1) /\ C!Lines \subseteq C!Lines'
  BY <1>3 DEF C!Lines
<1>5. CollectTypes'
  BY <1>1, <1>2, <1>3, <1>4 DEF CollectInv, CollectTypes, C!TypeOK
<1>6. InOrder'
  <2>1. \A i \in C!Lines' : (i \in C!Lines /\ stamps'[i] = stamps[i]) \/ (i = Len(stamps) + 1 /\ stamps'[i] = clock)
    BY <1>3, <1>4
  <2>2. \A i \in C!Lines : stamps[i] <= clock /\ stamps[i] \in Nat
    <3>1. \A i \in C!Lines : stamps[i] \in 1..MaxClock
      BY <1>2, <1>4, Elements
    <3> QED BY <3>1 DEF CollectInv, InOrder
  <2>3. \A i \in C!Lines' : stamps'[i] <= clock'
    <3>1. clock' = clock /\ clock \in Nat
      BY <1>1, <1>2
    <3> QED BY <2>1, <2>2, <3>1
  <2>4. \A i, j \in C!Lines' : i <= j => stamps'[i] <= stamps'[j]
    <3> TAKE i, j \in C!Lines'
    <3> HAVE i <= j
    <3>1. CASE j = Len(stamps) + 1 /\ stamps'[j] = clock
      BY <1>1, <2>3, <3>1
    <3>2. CASE j \in C!Lines /\ stamps'[j] = stamps[j]
      <4>1. i \in C!Lines /\ stamps'[i] = stamps[i]
        BY <1>3, <1>4, <2>1, <3>2
      <4> QED BY <3>2, <4>1 DEF CollectInv, InOrder
    <3> QED BY <2>1, <3>1, <3>2
  <2> QED BY <2>3, <2>4 DEF InOrder
<1>7. Position'
  <2>1. collect_kind \in {"docker", "events"} /\ pos # 0 => \E k \in 1..upto : pos = stamps'[k]
    <3> HAVE collect_kind \in {"docker", "events"} /\ pos # 0
    <3>1. PICK k \in 1..upto : pos = stamps[k]
      BY DEF CollectInv, Position
    <3>2. k \in 1..Len(stamps)
      BY <1>2, <1>3
    <3> QED BY <1>3, <3>1, <3>2
  <2> QED BY <1>1, <2>1 DEF CollectInv, Position
<1>8. AllSeen'
  <2>1. \A i : Seen(i)' = Seen(i)
    BY <1>1 DEF Seen
  <2>2. CASE collect_kind = "file"
    <3>1. \A i \in 1..upto : Seen(i) \/ (over /\ i \in C!FileDue')
      <4> SUFFICES ASSUME NEW i \in 1..upto, ~Seen(i) PROVE over /\ i \in C!FileDue'
        OBVIOUS
      <4>1. over /\ i \in C!FileDue /\ ~(base < i /\ i <= base + pos)
        BY <2>2 DEF CollectInv, AllSeen
      <4>2. i \in C!Lines /\ i > base /\ ~(i <= base + pos)
        BY <1>2, <1>3, <4>1, FileDueIs DEF CollectInv
      <4>3. i \in C!Lines' /\ i > base' + (IF Len(stamps') - base' < pos' THEN 0 ELSE pos')
        BY <1>1, <1>2, <1>3, <1>4, <4>2
      <4>4. C!FileDue' = {k \in C!Lines' : k > base' + (IF Len(stamps') - base' < pos' THEN 0 ELSE pos')}
        BY <1>5, FileDueIs DEF C!FileDue, C!Lines
      <4> QED BY <4>1, <4>3, <4>4
    <3>2. /\ \A i \in 1..base : Seen(i)
          /\ \A i \in 1..upto : base < i /\ i <= base + pos => Seen(i)
      BY <2>2 DEF CollectInv, AllSeen
    <3> QED BY <1>1, <2>1, <2>2, <3>1, <3>2 DEF AllSeen
  <2>3. CASE collect_kind # "file"
    BY <1>1, <2>1, <2>3 DEF CollectInv, AllSeen
  <2> QED BY <2>2, <2>3
<1>9. NotAgain'
  <2>1. \A i \in got : i \notin C!FileDue => i \notin C!FileDue'
    <3> TAKE i \in got
    <3> HAVE i \notin C!FileDue
    <3>1. i \in C!Lines /\ ~(i > base + (IF Len(stamps) - base < pos THEN 0 ELSE pos))
      BY <1>2, FileDueIs DEF CollectInv
    <3>2. ~(i > base' + (IF Len(stamps') - base' < pos' THEN 0 ELSE pos'))
      BY <1>1, <1>2, <1>3, <1>4, <3>1
    <3> QED BY <3>2 DEF C!FileDue
  <2> QED BY <1>1, <2>1 DEF CollectInv, NotAgain, C!SentOnce
<1> QED BY <1>5, <1>6, <1>7, <1>8, <1>9 DEF CollectInv

(* Time passes; the agent restarts; the file is rotated.                   *)
LEMMA CollectTick == ASSUME C!CollectAssumption, CollectInv, C!Tick PROVE CollectInv'
<1>1. /\ clock < MaxClock /\ clock' = clock + 1
      /\ UNCHANGED <<collect_kind, stamps, base, pos, upto, got, twice, excused, over, swapped, restarts>>
  BY DEF C!Tick
<1>2. C!Lines' = C!Lines /\ C!FileDue' = C!FileDue /\ \A i : Seen(i)' = Seen(i)
  BY <1>1 DEF C!Lines, C!FileDue, Seen
<1>3. CollectTypes'
  BY <1>1, <1>2 DEF CollectInv, CollectTypes, C!TypeOK, C!CollectAssumption
<1>4. InOrder'
  <2>0. stamps \in Seq(1..MaxClock) /\ clock \in 1..MaxClock
    BY DEF CollectInv, CollectTypes, C!TypeOK
  <2>1. \A i \in C!Lines : stamps[i] \in Nat /\ stamps[i] <= clock /\ clock \in Nat
    <3>1. \A i \in C!Lines : stamps[i] \in 1..MaxClock
      BY <2>0, Elements DEF C!Lines
    <3> QED BY <2>0, <3>1 DEF CollectInv, InOrder
  <2>2. \A i \in C!Lines : stamps[i] <= clock + 1
    BY <2>1
  <2> QED BY <1>1, <1>2, <2>2 DEF CollectInv, InOrder
<1> QED BY <1>1, <1>2, <1>3, <1>4 DEF CollectInv, Position, AllSeen, NotAgain, C!SentOnce

(* The position is forgotten.                                              *)
LEMMA CollectForget == ASSUME C!CollectAssumption, CollectInv, C!Forget PROVE CollectInv'
<1>1. /\ restarts' = restarts + 1 /\ pos' = 0
      /\ UNCHANGED <<collect_kind, stamps, base, clock, upto, got, twice, excused, over, swapped>>
  BY DEF C!Forget
<1>2. C!Lines' = C!Lines /\ \A i : Seen(i)' = Seen(i)
  BY <1>1 DEF C!Lines, Seen
<1>3. CollectTypes' /\ restarts' # 0
  BY <1>1, <1>2 DEF CollectInv, CollectTypes, C!TypeOK
<1>4. InOrder'
  BY <1>1, <1>2 DEF CollectInv, InOrder
<1>5. base \in Nat /\ pos \in Nat /\ upto \in Nat /\ Len(stamps) \in Nat /\ base <= Len(stamps)
      /\ upto <= Len(stamps)
  BY DEF CollectInv, CollectTypes, C!TypeOK
<1>6. Position'
  BY <1>1, <1>5 DEF CollectInv, Position
<1>7. \A i \in C!FileDue : i \in C!FileDue'
  <2> TAKE i \in C!FileDue
  <2>1. i \in C!Lines /\ i > base + (IF Len(stamps) - base < pos THEN 0 ELSE pos) /\ i \in Nat
    BY FileDueIs DEF CollectInv
  <2>2. i > base' + (IF Len(stamps') - base' < pos' THEN 0 ELSE pos')
    BY <1>1, <1>5, <2>1
  <2> QED BY <1>2, <2>1, <2>2 DEF C!FileDue
<1>8. AllSeen'
  <2>1. CASE collect_kind = "file"
    <3>1. \A i \in 1..upto : ~(base < i /\ i <= base + 0)
      BY <1>5
    <3>2. \A i \in 1..upto : Seen(i) \/ (over /\ i \in C!FileDue')
      BY <1>7, <2>1 DEF CollectInv, AllSeen
    <3>3. \A i \in 1..base : Seen(i)
      BY <2>1 DEF CollectInv, AllSeen
    <3> QED BY <1>1, <1>2, <2>1, <3>1, <3>2, <3>3 DEF AllSeen
  <2>2. CASE collect_kind # "file"
    BY <1>1, <1>2, <2>2 DEF CollectInv, AllSeen
  <2> QED BY <2>1, <2>2
<1>9. NotAgain'
  BY <1>3 DEF NotAgain, C!SentOnce
<1> QED BY <1>3, <1>4, <1>6, <1>8, <1>9 DEF CollectInv

(* What was not read of the old file is excused.                           *)
LEMMA CollectRotate == ASSUME C!CollectAssumption, CollectInv, C!Rotate PROVE CollectInv'
<1>1. /\ collect_kind = "file" /\ base' = Len(stamps) /\ swapped' = TRUE
      /\ excused' = excused \cup C!FileDue \cup C!Outgrown
      /\ UNCHANGED <<collect_kind, stamps, clock, pos, upto, got, twice, over, restarts>>
  BY DEF C!Rotate
<1>2. C!Lines' = C!Lines /\ (\A i : Seen(i) => Seen(i)') /\ C!FileDue \subseteq C!Lines
      /\ C!Outgrown \subseteq C!Lines
  BY <1>1 DEF C!Lines, Seen, C!FileDue, C!Outgrown
<1>3. CollectTypes'
  BY <1>1, <1>2 DEF CollectInv, CollectTypes, C!TypeOK
<1>4. InOrder'
  BY <1>1, <1>2 DEF CollectInv, InOrder
<1>5. base \in Nat /\ pos \in Nat /\ upto \in Nat /\ Len(stamps) \in Nat /\ base <= Len(stamps)
      /\ upto <= Len(stamps) /\ swapped \in BOOLEAN /\ got \subseteq C!Lines
  BY DEF CollectInv, CollectTypes, C!TypeOK
<1>6. Position'
  BY <1>1 DEF Position
<1>7. \A i \in 1..Len(stamps) : Seen(i)'
  <2> SUFFICES ASSUME NEW i \in 1..Len(stamps), ~Seen(i), i \notin C!FileDue PROVE i \in C!Outgrown
    BY <1>1, <1>2 DEF Seen
  <2>1. ~(i > base + (IF Len(stamps) - base < pos THEN 0 ELSE pos)) /\ i \in C!Lines
    BY FileDueIs DEF CollectInv
  <2>2. base < i
    BY <1>1, <1>5 DEF CollectInv, AllSeen
  <2>3. i <= base + pos
    BY <1>5, <2>1, <2>2
  <2>4. swapped
    <3>1. ASSUME ~swapped PROVE FALSE
      <4>1. i \in 1..upto
        BY <1>1, <1>5, <2>3, <3>1 DEF CollectInv, Position
      <4> QED BY <1>1, <2>2, <2>3, <4>1 DEF CollectInv, AllSeen
    <3> QED BY <3>1
  <2> QED BY <1>1, <2>1, <2>2, <2>3, <2>4 DEF C!Outgrown
<1>8. AllSeen'
  <2>1. \A i \in 1..upto : i \in 1..Len(stamps)
    BY <1>5
  <2> QED BY <1>1, <1>7, <2>1 DEF AllSeen
<1>9. \A i \in got : i \notin C!FileDue'
  <2> TAKE i \in got
  <2>1. i \in 1..Len(stamps)
    BY <1>5 DEF C!Lines
  <2>2. ~(i > base' + (IF Len(stamps') - base' < pos' THEN 0 ELSE pos'))
    BY <1>1, <1>5, <2>1
  <2> QED BY <2>2 DEF C!FileDue
<1>10. NotAgain'
  BY <1>1, <1>9 DEF CollectInv, NotAgain, C!SentOnce
<1> QED BY <1>3, <1>4, <1>6, <1>8, <1>10 DEF CollectInv

(* What a collection does, whatever it reads.                              *)
LEMMA CollectMove ==
    ASSUME NEW sent \in BOOLEAN, C!Collect(sent)
    PROVE  /\ upto' = Len(stamps) /\ pos' = C!Read.pos
           /\ swapped' = (swapped /\ C!Read.pos = pos)
           /\ over' = (over \/ C!Cardinality(C!FileDue) > Limit)
           /\ got' \in {got, got \cup C!Read.lines}
           /\ twice' \in {twice, twice \cup (got \cap C!Read.lines)}
           /\ twice' \subseteq twice \cup got'
           /\ C!Read.lines \subseteq got' \cup excused' /\ C!Read.cut \subseteq excused'
           /\ excused \subseteq excused' /\ C!Outgrown \subseteq excused'
           /\ C!FirstLook => C!Lines \ C!Within(C!Window) \subseteq excused'
           /\ excused' \subseteq excused \cup C!Read.cut \cup C!Outgrown \cup C!Lines \cup C!Read.lines
           /\ UNCHANGED <<collect_kind, stamps, base, clock, restarts>>
<1>1. CASE sent
  BY <1>1 DEF C!Collect
<1>2. CASE ~sent
  BY <1>2 DEF C!Collect
<1> QED BY <1>1, <1>2

(* The journal, a container's log and the event log: what is due and what  *)
(* was seen are all there is.                                              *)
LEMMA LogsRead ==
    ASSUME C!CollectAssumption, CollectInv, collect_kind # "file"
    PROVE  /\ C!Read.lines \subseteq C!Lines /\ C!Read.cut \subseteq C!Lines
           /\ \A i \in C!Lines : \/ i \in C!Read.lines \cup C!Read.cut
                                 \/ C!FirstLook /\ i \notin C!Within(C!Window)
                                 \/ Seen(i)
           /\ collect_kind = "journal" =>
                 /\ C!Read.pos \in 0..Len(stamps) /\ C!Read.pos >= pos
                 /\ restarts = 0 => \A i \in C!Read.lines : i \notin got
                 /\ \A i \in C!Read.lines : i <= C!Read.pos
           /\ collect_kind \in {"docker", "events"} =>
                 C!Read.pos = pos \/ \E k \in 1..Len(stamps) : C!Read.pos = stamps[k]
<1>0. /\ stamps \in Seq(1..MaxClock) /\ clock \in 1..MaxClock /\ pos \in Nat /\ upto \in 0..Len(stamps)
      /\ Len(stamps) \in Nat /\ C!Lines = 1..Len(stamps) /\ collect_kind \in LogKinds
      /\ got \subseteq C!Lines
  BY DEF CollectInv, CollectTypes, C!TypeOK, C!Lines
<1>1. collect_kind \in {"journal", "docker", "events"}
  BY <1>0 DEF C!CollectAssumption
<1>2. \A i \in C!Lines : stamps[i] \in Nat
  <2>1. \A i \in C!Lines : stamps[i] \in 1..MaxClock
    BY <1>0, Elements
  <2> QED BY <2>1
<1>3. \A i \in 1..upto : Seen(i)
  BY DEF CollectInv, AllSeen
<1>4. CASE collect_kind = "journal"
  <2> DEFINE new == C!Newest(C!JournalDue)
  <2>1. C!Read = [lines |-> new, pos |-> IF new = {} THEN pos ELSE C!Max(new), cut |-> C!JournalDue \ new]
    BY <1>4 DEF C!Read, C!JournalRead
  <2>2. C!Read.lines = new /\ C!Read.cut = C!JournalDue \ new
        /\ C!Read.pos = IF new = {} THEN pos ELSE C!Max(new)
    BY <2>1
  <2>3. new \subseteq C!JournalDue /\ C!JournalDue \subseteq C!Lines
    BY DEF C!Newest, C!JournalDue, C!Within
  <2>4. pos <= upto
    BY <1>4 DEF CollectInv, Position
  <2>5. \A i \in C!Lines : i \notin C!JournalDue => (C!FirstLook /\ i \notin C!Within(C!Window)) \/ Seen(i)
    <3> TAKE i \in C!Lines
    <3> HAVE i \notin C!JournalDue
    <3>1. CASE pos = 0
      BY <1>4, <3>1 DEF C!JournalDue, C!FirstLook, C!Window
    <3>2. CASE pos # 0
      <4>1. ~(i > pos) /\ i \in 1..upto
        BY <1>0, <2>4, <3>2 DEF C!JournalDue
      <4> QED BY <1>3, <4>1
    <3> QED BY <3>1, <3>2
  <2>6. new # {} => C!Max(new) \in C!Lines /\ \A i \in new : i <= C!Max(new)
    <3> HAVE new # {}
    <3>1. C!Max(new) \in new /\ \A i \in new : i <= C!Max(new)
      <4> HIDE DEF new
      <4> QED BY <1>0, <2>3, GreatestLine
    <3> QED BY <2>3, <3>1
  <2>7. C!Read.pos \in 0..Len(stamps) /\ \A i \in new : i <= C!Read.pos
    <3>1. CASE new = {}
      BY <1>0, <2>2, <2>4, <3>1
    <3>2. CASE new # {}
      <4> HIDE DEF new
      <4> QED BY <1>0, <2>2, <2>6, <3>2
    <3> QED BY <3>1, <3>2
  <2>8. \A i \in C!JournalDue : pos # 0 => i > pos
    BY DEF C!JournalDue
  <2>9. C!Read.pos >= pos
    <3>1. CASE new = {} \/ pos = 0
      <4> HIDE DEF new
      <4> QED BY <1>0, <2>2, <2>7, <3>1
    <3>2. CASE new # {} /\ pos # 0
      <4>1. PICK i \in new : TRUE
        BY <3>2
      <4>2. i > pos /\ i <= C!Read.pos /\ i \in 1..Len(stamps)
        BY <1>0, <2>3, <2>7, <2>8, <3>2
      <4> HIDE DEF new
      <4> QED BY <1>0, <2>7, <4>2
    <3> QED BY <3>1, <3>2
  <2>10. restarts = 0 => \A i \in new : i \notin got
    <3> SUFFICES ASSUME restarts = 0, NEW i \in new, i \in got PROVE FALSE
      OBVIOUS
    <3>1. i <= pos /\ i \in 1..Len(stamps)
      BY <1>0, <1>4 DEF CollectInv, NotAgain
    <3>2. pos # 0 => i > pos
      BY <2>3, <2>8
    <3> QED BY <1>0, <3>1, <3>2
  <2> HIDE DEF new
  <2> QED BY <1>4, <2>2, <2>3, <2>5, <2>7, <2>9, <2>10
<1>5. ASSUME NEW due, NEW n \in Nat, due \subseteq C!Lines, collect_kind \in {"docker", "events"},
             pos = 0 => due = C!Within(C!Window),
             pos # 0 => \A i \in C!Lines : i \notin due => stamps[i] < pos,
             C!Read = [lines |-> C!Newest(due),
                       pos |-> IF C!Newest(due) = {} THEN pos ELSE stamps[C!Max(C!Newest(due))],
                       cut |-> due \ C!Newest(due)]
      PROVE  /\ C!Read.lines \subseteq C!Lines /\ C!Read.cut \subseteq C!Lines
             /\ \A i \in C!Lines : \/ i \in C!Read.lines \cup C!Read.cut
                                   \/ C!FirstLook /\ i \notin C!Within(C!Window)
                                   \/ Seen(i)
             /\ C!Read.pos = pos \/ \E k \in 1..Len(stamps) : C!Read.pos = stamps[k]
  <2> DEFINE new == C!Newest(due)
  <2>1. new \subseteq due
    BY DEF C!Newest
  <2>2. C!Read.lines = new /\ C!Read.cut = due \ new
        /\ C!Read.pos = IF new = {} THEN pos ELSE stamps[C!Max(new)]
    BY <1>5
  <2>3. \A i \in C!Lines : i \notin due => (C!FirstLook /\ i \notin C!Within(C!Window)) \/ Seen(i)
    <3> TAKE i \in C!Lines
    <3> HAVE i \notin due
    <3>1. CASE pos = 0
      BY <1>5, <3>1 DEF C!FirstLook
    <3>2. CASE pos # 0
      <4>1. PICK k \in 1..upto : pos = stamps[k]
        BY <1>5, <3>2 DEF CollectInv, Position
      <4>2. k \in C!Lines /\ stamps[i] < stamps[k] /\ stamps[i] \in Nat /\ stamps[k] \in Nat
        BY <1>0, <1>2, <1>5, <3>2, <4>1
      <4>3. ~(k <= i)
        BY <4>2 DEF CollectInv, InOrder
      <4>4. i \in 1..upto
        BY <1>0, <4>1, <4>3
      <4> QED BY <1>3, <4>4
    <3> QED BY <3>1, <3>2
  <2>4. new # {} => C!Max(new) \in 1..Len(stamps)
    <3> HAVE new # {}
    <3> HIDE DEF new
    <3>1. C!Max(new) \in new
      BY <1>0, <1>5, <2>1, GreatestLine
    <3> QED BY <1>0, <1>5, <2>1, <3>1
  <2> HIDE DEF new
  <2> QED BY <1>5, <2>1, <2>2, <2>3, <2>4
<1>6. CASE collect_kind = "docker"
  <2>1. C!DockerDue \subseteq C!Lines /\ (pos = 0 => C!DockerDue = C!Within(C!Window))
    BY <1>6 DEF C!DockerDue, C!Within, C!Window
  <2>2. pos # 0 => \A i \in C!Lines : i \notin C!DockerDue => stamps[i] < pos
    BY <1>0, <1>2 DEF C!DockerDue
  <2>3. C!Read = [lines |-> C!Newest(C!DockerDue),
                  pos |-> IF C!Newest(C!DockerDue) = {} THEN pos ELSE stamps[C!Max(C!Newest(C!DockerDue))],
                  cut |-> C!DockerDue \ C!Newest(C!DockerDue)]
    BY <1>6 DEF C!Read, C!DockerRead
  <2> QED BY <1>5, <1>6, <2>1, <2>2, <2>3
<1>7. CASE collect_kind = "events"
  <2>1. C!EventsDue \subseteq C!Lines /\ (pos = 0 => C!EventsDue = C!Within(C!Window))
    BY <1>7 DEF C!EventsDue, C!Within, C!Window
  <2>2. pos # 0 => \A i \in C!Lines : i \notin C!EventsDue => stamps[i] < pos
    BY <1>0, <1>2 DEF C!EventsDue
  <2>3. C!Read = [lines |-> C!Newest(C!EventsDue),
                  pos |-> IF C!Newest(C!EventsDue) = {} THEN pos ELSE stamps[C!Max(C!Newest(C!EventsDue))],
                  cut |-> C!EventsDue \ C!Newest(C!EventsDue)]
    BY <1>7 DEF C!Read, C!EventsRead
  <2> QED BY <1>5, <1>7, <2>1, <2>2, <2>3
<1> QED BY <1>1, <1>4, <1>6, <1>7

(* A collection from one of the three ...                                  *)
LEMMA CollectLogs ==
    ASSUME C!CollectAssumption, CollectInv, NEW sent \in BOOLEAN, C!Collect(sent), collect_kind # "file"
    PROVE  CollectInv'
<1>1. /\ stamps \in Seq(1..MaxClock) /\ pos \in Nat /\ upto \in 0..Len(stamps)
      /\ Len(stamps) \in Nat /\ C!Lines = 1..Len(stamps) /\ C!Lines' = C!Lines /\ twice \subseteq got
      /\ got \subseteq C!Lines /\ excused \subseteq C!Lines /\ over \in BOOLEAN /\ swapped \in BOOLEAN
      /\ collect_kind' = collect_kind /\ stamps' = stamps /\ upto' = Len(stamps) /\ restarts' = restarts
      /\ clock' = clock /\ base' = base /\ collect_kind \in LogKinds /\ base \in 0..Len(stamps)
  BY CollectMove DEF CollectInv, CollectTypes, C!TypeOK, C!Lines
<1>2. collect_kind \in {"journal", "docker", "events"}
  BY <1>1 DEF C!CollectAssumption
<1>3. \A i \in 1..Len(stamps) : Seen(i)'
  <2> TAKE i \in 1..Len(stamps)
  <2>1. CASE i \in C!Read.lines \cup C!Read.cut
    BY <2>1, CollectMove DEF Seen
  <2>2. CASE C!FirstLook /\ i \notin C!Within(C!Window)
    <3>1. i \in C!Lines \ C!Within(C!Window)
      BY <1>1, <2>2
    <3> QED BY <2>2, <3>1, CollectMove DEF Seen
  <2>3. CASE Seen(i)
    BY <2>3, CollectMove DEF Seen
  <2> QED BY <1>1, <2>1, <2>2, <2>3, LogsRead
<1>4. pos' = C!Read.pos /\ pos' \in Nat
  <2>1. pos' = C!Read.pos
    BY CollectMove
  <2>2. CASE collect_kind = "journal"
    BY <1>1, <2>1, <2>2, LogsRead
  <2>3. CASE collect_kind # "journal"
    <3>1. C!Read.pos = pos \/ \E k \in 1..Len(stamps) : C!Read.pos = stamps[k]
      BY <1>2, <2>3, LogsRead
    <3>2. \A k \in 1..Len(stamps) : stamps[k] \in 1..MaxClock
      BY <1>1, Elements
    <3> QED BY <1>1, <2>1, <3>1, <3>2
  <2> QED BY <2>1, <2>2, <2>3
<1>5. /\ twice' \subseteq got' /\ got' \cup excused' \subseteq C!Lines'
      /\ over' \in BOOLEAN /\ swapped' \in BOOLEAN
  <2>1. C!Outgrown \subseteq C!Lines
    BY DEF C!Outgrown
  <2>2. got' \subseteq C!Lines /\ excused' \subseteq C!Lines
    BY <1>1, <2>1, CollectMove, LogsRead
  <2>3. twice' \subseteq got'
    BY <1>1, CollectMove
  <2> QED BY <1>1, <2>2, <2>3, CollectMove
<1>6. CollectTypes'
  <2>1. upto' \in 0..Len(stamps') /\ base' \in 0..Len(stamps')
    BY <1>1
  <2> QED BY <1>1, <1>4, <1>5, <2>1 DEF CollectInv, CollectTypes, C!TypeOK
<1>7. InOrder'
  BY <1>1 DEF CollectInv, InOrder
<1>8. Position'
  <2>1. collect_kind = "journal" => pos' <= upto'
    BY <1>1, <1>4, LogsRead
  <2>2. collect_kind \in {"docker", "events"} /\ pos' # 0 => \E k \in 1..upto' : pos' = stamps'[k]
    <3> HAVE collect_kind \in {"docker", "events"} /\ pos' # 0
    <3>1. CASE pos' = pos
      <4>1. PICK k \in 1..upto : pos = stamps[k]
        BY <3>1 DEF CollectInv, Position
      <4>2. k \in 1..Len(stamps)
        BY <1>1
      <4> QED BY <1>1, <3>1, <4>1, <4>2
    <3>2. CASE pos' # pos
      BY <1>1, <1>4, <3>2, LogsRead
    <3> QED BY <3>1, <3>2
  <2> QED BY <1>1, <1>2, <2>1, <2>2 DEF Position
<1>9. AllSeen'
  BY <1>1, <1>3 DEF AllSeen
<1>10. NotAgain'
  <2>1. CASE collect_kind = "journal" /\ restarts = 0
    <3>1. twice = {} /\ \A i \in got : i <= pos
      BY <2>1 DEF CollectInv, NotAgain, C!SentOnce
    <3>2. got \cap C!Read.lines = {}
      BY <2>1, LogsRead
    <3>3. twice' = {}
      BY <3>1, <3>2, CollectMove
    <3>4. \A i \in got' : i <= pos'
      <4> TAKE i \in got'
      <4>1. CASE i \in got
        BY <1>1, <1>4, <2>1, <3>1, <4>1, LogsRead
      <4>2. CASE i \in C!Read.lines
        BY <1>4, <2>1, <4>2, LogsRead
      <4> QED BY <4>1, <4>2, CollectMove
    <3> QED BY <1>1, <2>1, <3>3, <3>4 DEF NotAgain, C!SentOnce
  <2>2. CASE collect_kind # "journal" \/ restarts # 0
    BY <1>1, <1>2, <2>2 DEF NotAgain, C!SentOnce
  <2> QED BY <2>1, <2>2
<1> QED BY <1>6, <1>7, <1>8, <1>9, <1>10 DEF CollectInv

(* ... or from a file.                                                     *)
LEMMA CollectFile ==
    ASSUME C!CollectAssumption, CollectInv, NEW sent \in BOOLEAN, C!Collect(sent), collect_kind = "file"
    PROVE  CollectInv'
<1>1. /\ stamps \in Seq(1..MaxClock) /\ pos \in Nat /\ upto \in 0..Len(stamps)
      /\ Len(stamps) \in Nat /\ C!Lines = 1..Len(stamps) /\ C!Lines' = C!Lines /\ twice \subseteq got
      /\ got \subseteq C!Lines /\ excused \subseteq C!Lines /\ over \in BOOLEAN /\ swapped \in BOOLEAN
      /\ collect_kind' = collect_kind /\ stamps' = stamps /\ upto' = Len(stamps) /\ restarts' = restarts
      /\ clock' = clock /\ base' = base /\ collect_kind \in LogKinds /\ base \in 0..Len(stamps)
  BY CollectMove DEF CollectInv, CollectTypes, C!TypeOK, C!Lines
<1> DEFINE due == C!FileDue
           new == C!Oldest(due)
<1>2. /\ C!Read.lines = new /\ C!Read.cut = {}
      /\ C!Read.pos = IF new = due /\ new # {} THEN Len(stamps) - base ELSE pos
  BY DEF C!Read, C!FileRead
<1>3. new \subseteq due /\ due \subseteq C!Lines
  BY DEF C!Oldest, C!FileDue
<1>4. \A i \in C!Lines : i \in due <=> i > base + (IF Len(stamps) - base < pos THEN 0 ELSE pos)
  BY FileDueIs DEF CollectInv
<1>5. new # due => over'
  <2> HAVE new # due
  <2>1. C!Cardinality(due) > Limit
    BY <1>1, <1>3, OldestOfFew DEF C!CollectAssumption
  <2> QED BY <2>1, CollectMove
<1>6. over => over'
  BY CollectMove
<1>7. pos' = C!Read.pos /\ swapped' = (swapped /\ pos' = pos) /\ pos' \in Nat
  BY <1>1, <1>2, CollectMove
<1>8. \A i : Seen(i) => Seen(i)'
  BY CollectMove DEF Seen
<1>9. /\ \A i \in new : Seen(i)'
      /\ swapped => \A i \in C!Lines : base < i /\ i <= base + pos => Seen(i)'
  <2>1. \A i \in new : Seen(i)'
    BY <1>2, CollectMove DEF Seen
  <2>2. swapped => \A i \in C!Lines : base < i /\ i <= base + pos => i \in C!Outgrown
    BY DEF C!Outgrown
  <2> QED BY <2>1, <2>2, CollectMove DEF Seen
<1>10. \A i \in C!Lines : i \notin due => Seen(i)'
  <2> TAKE i \in C!Lines
  <2> HAVE i \notin due
  <2>1. CASE i <= base
    <3>1. i \in 1..base
      BY <1>1, <2>1
    <3> QED BY <1>8, <3>1 DEF CollectInv, AllSeen
  <2>2. CASE ~(i <= base)
    <3>1. base < i /\ i <= base + pos
      BY <1>1, <1>4, <2>2
    <3>2. CASE swapped
      BY <1>9, <3>1, <3>2
    <3>3. CASE ~swapped
      <4>1. base + pos <= upto
        BY <3>3 DEF CollectInv, Position
      <4>2. i \in 1..upto
        BY <1>1, <3>1, <4>1
      <4> QED BY <1>8, <3>1, <4>2 DEF CollectInv, AllSeen
    <3> QED BY <1>1, <3>2, <3>3
  <2> QED BY <2>1, <2>2
<1>11. ASSUME new = due, new # {}
       PROVE  AllSeen' /\ Position' /\ \A i \in 1..Len(stamps) : i \notin C!FileDue'
  <2>1. pos' = Len(stamps) - base /\ \A i \in 1..Len(stamps) : Seen(i)'
    BY <1>1, <1>2, <1>7, <1>9, <1>10, <1>11
  <2>2. AllSeen'
    <3>1. \A i \in 1..base' : i \in 1..Len(stamps)
      BY <1>1
    <3> QED BY <1>1, <2>1, <3>1 DEF AllSeen
  <2>3. Position'
    <3>1. base' + pos' <= upto'
      BY <1>1, <2>1
    <3> QED BY <1>1, <3>1 DEF Position
  <2>4. \A i \in 1..Len(stamps) : i \notin C!FileDue'
    <3> TAKE i \in 1..Len(stamps)
    <3>1. ~(i > base' + (IF Len(stamps') - base' < pos' THEN 0 ELSE pos'))
      BY <1>1, <2>1
    <3> QED BY <3>1 DEF C!FileDue
  <2> QED BY <2>2, <2>3, <2>4
<1>12. ASSUME ~(new = due /\ new # {})
       PROVE  AllSeen' /\ Position' /\ (new = due => got' = got) /\ C!FileDue' = due
  <2>1. pos' = pos /\ C!FileDue' = due /\ swapped' = swapped
    BY <1>1, <1>2, <1>7, <1>12 DEF C!FileDue, C!Lines
  <2>2. \A i \in due : Seen(i)' \/ (over' /\ i \in C!FileDue')
    <3> TAKE i \in due
    <3>1. new # due
      BY <1>3, <1>12
    <3> QED BY <1>5, <2>1, <3>1
  <2>3. \A i \in 1..Len(stamps) : base < i /\ i <= base + pos => Seen(i)'
    <3> TAKE i \in 1..Len(stamps)
    <3> HAVE base < i /\ i <= base + pos
    <3>1. CASE swapped
      BY <1>1, <1>9, <3>1
    <3>2. CASE ~swapped
      <4>1. base + pos <= upto
        BY <3>2 DEF CollectInv, Position
      <4>2. i \in 1..upto
        BY <1>1, <4>1
      <4> QED BY <1>8, <4>2 DEF CollectInv, AllSeen
    <3> QED BY <1>1, <3>1, <3>2
  <2>4. AllSeen'
    <3>1. \A i \in 1..base : Seen(i)'
      BY <1>8 DEF CollectInv, AllSeen
    <3>2. \A i \in 1..Len(stamps) : Seen(i)' \/ (over' /\ i \in C!FileDue')
      BY <1>1, <1>10, <2>2
    <3> QED BY <1>1, <2>1, <2>3, <3>1, <3>2 DEF AllSeen
  <2>5. Position'
    <3>1. ~swapped => base + pos <= Len(stamps)
      BY <1>1 DEF CollectInv, Position
    <3> QED BY <1>1, <2>1, <3>1 DEF Position
  <2>6. new = due => got' = got
    <3> HAVE new = due
    <3>1. C!Read.lines = {}
      BY <1>2, <1>12
    <3> QED BY <3>1, CollectMove
  <2> QED BY <2>1, <2>4, <2>5, <2>6
<1>13. AllSeen' /\ Position'
  BY <1>11, <1>12
<1>14. CollectTypes'
  <2>1. C!Outgrown \subseteq C!Lines
    BY DEF C!Outgrown
  <2>2. got' \subseteq C!Lines /\ excused' \subseteq C!Lines
    BY <1>1, <1>2, <1>3, <2>1, CollectMove
  <2>3. twice' \subseteq got'
    BY <1>1, CollectMove
  <2>4. over' \in BOOLEAN /\ swapped' \in BOOLEAN
    BY CollectMove
  <2>5. upto' \in 0..Len(stamps') /\ base' \in 0..Len(stamps')
    BY <1>1
  <2> QED BY <1>1, <1>7, <2>2, <2>3, <2>4, <2>5 DEF CollectInv, CollectTypes, C!TypeOK
<1>15. InOrder'
  BY <1>1 DEF CollectInv, InOrder
<1>16. restarts = 0 /\ ~over' => twice' = {} /\ \A i \in got' : i \notin C!FileDue'
  <2> HAVE restarts = 0 /\ ~over'
  <2>1. ~over /\ new = due
    BY <1>5, <1>6
  <2>2. twice = {} /\ \A i \in got : i \notin due
    BY <2>1 DEF CollectInv, NotAgain, C!SentOnce
  <2>3. twice' = {}
    BY <1>2, <1>3, <2>2, CollectMove
  <2>4. got' \subseteq C!Lines
    BY <1>1, <1>2, <1>3, CollectMove
  <2>5. \A i \in got' : i \notin C!FileDue'
    <3>1. CASE new # {}
      BY <1>1, <1>11, <2>1, <2>4, <3>1
    <3>2. CASE new = {}
      BY <1>12, <2>1, <2>2, <3>2
    <3> QED BY <3>1, <3>2
  <2> QED BY <2>3, <2>5
<1>17. NotAgain'
  BY <1>1, <1>16 DEF NotAgain, C!SentOnce
<1> QED BY <1>13, <1>14, <1>15, <1>17 DEF CollectInv

(* Every step of the collectors.                                           *)
LEMMA CollectStep ==
    ASSUME C!CollectAssumption, CollectInv, C!Next \/ UNCHANGED collectVars PROVE CollectInv'
<1>1. ASSUME NEW sent \in BOOLEAN, C!Collect(sent) PROVE CollectInv'
  BY <1>1, CollectFile, CollectLogs
<1>2. CASE UNCHANGED collectVars
  <2>1. C!Lines' = C!Lines /\ C!FileDue' = C!FileDue /\ \A i : Seen(i)' = Seen(i)
    BY <1>2 DEF C!Lines, C!FileDue, Seen, collectVars
  <2> QED BY <1>2, <2>1 DEF collectVars, CollectInv, CollectTypes, C!TypeOK, InOrder, Position, AllSeen,
                            NotAgain, C!SentOnce
<1> QED BY <1>1, <1>2, CollectWrite, CollectTick, CollectForget, CollectRotate DEF C!Next

(* What the invariant says of the lines.                                   *)
LEMMA CollectSafe == ASSUME CollectInv PROVE C!TypeOK /\ C!NothingSkipped /\ C!SentOnce
BY DEF CollectInv, CollectTypes, AllSeen, NotAgain, C!NothingSkipped, Seen

-----------------------------------------------------------------------------
(***************************************************************************)
(* The enrolment of machines.  Every request has a number, which becomes   *)
(* the token it is answered with; a number belongs to one machine, and the *)
(* agent's token to its owner, wherever it is held: in a configuration, in *)
(* an installer or in a request.  A request that found an agent was sent   *)
(* by its owner.                                                           *)
(***************************************************************************)
AgentRec == [id : Nat, token : Nat, owner : Machines \cup {"none"}]
InstRec == [pc : {"idle", "waiting", "token"}, n : Nat]
ReqRec == [n : Nat, m : Machines, presented : Nat, pc : {"token", "look", "commit"}, found : AgentRec]
EnrolTypes ==
    /\ agent \in AgentRec /\ issued \in 0..MaxReqs /\ cfg \in [Machines -> Nat]
    /\ inst \in [Machines -> InstRec] /\ reqs \subseteq ReqRec
    /\ install \in BOOLEAN /\ command \in BOOLEAN
    /\ enrol_report \in [Machines -> [id : Nat, cmd : BOOLEAN]] /\ lost \subseteq Machines
    /\ dropped \in Nat /\ queued \in Nat /\ done \in Nat
RowsWhole ==
    /\ agent = E!None \/ (agent.id # 0 /\ agent.token # 0)
    /\ agent.id <= issued /\ agent.token <= issued
    /\ \A r \in reqs : r.found = E!None \/ r.found.id # 0
Holds(m, t) ==
    \/ t = cfg[m] \/ t = inst[m].n
    \/ \E r \in reqs : r.m = m /\ (t = r.n \/ t = r.presented)
Numbered == \A m \in Machines : \A t : Holds(m, t) => t <= issued
Separate == \A m1, m2 \in Machines : \A t : t # 0 /\ Holds(m1, t) /\ Holds(m2, t) => m1 = m2
HeldByOwner == \A m \in Machines : agent.token # 0 /\ Holds(m, agent.token) => m = agent.owner
Pending ==
    /\ \A r \in reqs : r.n # 0 /\ r.n <= issued /\ r.n # agent.id /\ r.n # agent.token
    /\ \A r, q \in reqs : r.found.id # q.n
    /\ \A r, q \in reqs : r.n = q.n => r = q
    /\ \A r \in reqs : r.found.id <= issued
FoundLate == \A r \in reqs : r.pc # "commit" => r.found = E!None
FoundIsOwn ==
    \A r \in reqs : r.pc = "commit" /\ r.found.id # 0 /\ r.found.id = agent.id => r.m = agent.owner
Explained ==
    /\ \A m \in Machines : cfg[m] # 0 /\ cfg[m] # agent.token => m \in lost \/ inst[m].pc = "token"
    /\ \A m \in Machines : inst[m].pc = "token" =>
          inst[m].n # 0 /\ (inst[m].n # agent.token => m \in lost)
CommandCounted ==
    /\ queued <= done + dropped + (IF command THEN 1 ELSE 0)
    /\ agent = E!None => ~command
EnrolInv ==
    /\ EnrolTypes /\ RowsWhole /\ Numbered /\ Separate /\ HeldByOwner /\ Pending
    /\ FoundIsOwn /\ FoundLate /\ Explained /\ CommandCounted

(* Nobody is enrolled.                                                     *)
LEMMA EnrolStart == ASSUME E!EnrolmentAssumption, E!EnrolmentInit PROVE EnrolInv
<1>1. /\ agent = E!None /\ issued = 0 /\ cfg = [m \in Machines |-> 0]
      /\ inst = [m \in Machines |-> E!Idle] /\ reqs = {} /\ install = TRUE /\ command = FALSE
      /\ enrol_report = [m \in Machines |-> E!NoReport] /\ lost = {} /\ dropped = 0 /\ queued = 0
      /\ done = 0
  BY DEF E!EnrolmentInit
<1>2. E!None \in AgentRec /\ E!None.id = 0 /\ E!None.token = 0
  BY DEF E!None, AgentRec
<1>3. E!Idle \in InstRec /\ E!Idle.n = 0 /\ E!Idle.pc = "idle"
  BY DEF E!Idle, InstRec
<1>4. E!NoReport \in [id : Nat, cmd : BOOLEAN]
  BY DEF E!NoReport
<1>5. EnrolTypes
  <2>1. issued \in 0..MaxReqs /\ dropped \in Nat /\ queued \in Nat /\ done \in Nat
    BY <1>1 DEF E!EnrolmentAssumption
  <2> QED BY <1>1, <1>2, <1>3, <1>4, <2>1 DEF EnrolTypes
<1>6. \A m \in Machines : cfg[m] = 0 /\ inst[m] = E!Idle
  BY <1>1
<1>7. RowsWhole /\ Pending /\ FoundIsOwn /\ FoundLate
  BY <1>1, <1>2 DEF RowsWhole, Pending, FoundIsOwn, FoundLate
<1>8. \A m \in Machines : \A t : Holds(m, t) => t = 0
  BY <1>1, <1>3, <1>6 DEF Holds
<1>9. Numbered /\ Separate /\ HeldByOwner
  BY <1>1, <1>2, <1>8 DEF Numbered, Separate, HeldByOwner
<1>10. Explained
  BY <1>3, <1>6 DEF Explained
<1>11. CommandCounted
  BY <1>1 DEF CommandCounted
<1> QED BY <1>5, <1>7, <1>9, <1>10, <1>11 DEF EnrolInv

(* Types taken apart.                                                      *)
LEMMA EnrolFacts ==
    ASSUME EnrolTypes
    PROVE  /\ agent.id \in Nat /\ agent.token \in Nat /\ issued \in Nat
           /\ E!None \in AgentRec /\ E!None.id = 0 /\ E!None.token = 0
           /\ E!Idle \in InstRec /\ E!Idle.n = 0 /\ E!Idle.pc = "idle"
           /\ \A m \in Machines : /\ cfg[m] \in Nat /\ inst[m] \in InstRec /\ inst[m].n \in Nat
                                  /\ inst[m].pc \in {"idle", "waiting", "token"}
           /\ \A r \in reqs : /\ r \in ReqRec /\ r.n \in Nat /\ r.m \in Machines /\ r.presented \in Nat
                              /\ r.found \in AgentRec /\ r.found.id \in Nat
<1>1. E!None \in AgentRec /\ E!None.id = 0 /\ E!None.token = 0
  BY DEF E!None, AgentRec
<1>2. E!Idle \in InstRec /\ E!Idle.n = 0 /\ E!Idle.pc = "idle"
  BY DEF E!Idle, InstRec
<1>3. agent.id \in Nat /\ agent.token \in Nat /\ issued \in Nat
  BY DEF EnrolTypes, AgentRec
<1>4. \A m \in Machines : cfg[m] \in Nat /\ inst[m] \in InstRec
  BY DEF EnrolTypes
<1>5. \A i \in InstRec : i.n \in Nat /\ i.pc \in {"idle", "waiting", "token"}
  BY DEF InstRec
<1>6. \A r \in ReqRec : r.n \in Nat /\ r.m \in Machines /\ r.presented \in Nat /\ r.found \in AgentRec
  BY DEF ReqRec
<1>7. \A a \in AgentRec : a.id \in Nat
  BY DEF AgentRec
<1>8. \A r \in reqs : r \in ReqRec
  BY DEF EnrolTypes
<1> QED BY <1>1, <1>2, <1>3, <1>4, <1>5, <1>6, <1>7, <1>8

(* A step after which nobody holds a number it did not hold before, and    *)
(* the agent is the same.                                                  *)
LEMMA HoldsLess ==
    ASSUME EnrolInv, agent' = agent, issued' = issued,
           \A m \in Machines : \A t : t # 0 /\ Holds(m, t)' => Holds(m, t)
    PROVE  Numbered' /\ Separate' /\ HeldByOwner'
<1>1. Separate' /\ HeldByOwner'
  BY DEF EnrolInv, Separate, HeldByOwner
<1>2. Numbered'
  <2> SUFFICES ASSUME NEW m \in Machines, NEW t, Holds(m, t)' PROVE t <= issued
    BY DEF Numbered
  <2>1. CASE t = 0
    BY <2>1, EnrolFacts DEF EnrolInv
  <2>2. CASE t # 0
    BY <2>2 DEF EnrolInv, Numbered
  <2> QED BY <2>1, <2>2
<1> QED BY <1>1, <1>2

(* The installer asks with a fresh number.                                 *)
LEMMA EnrolInstall ==
    ASSUME EnrolInv, E!EnrolmentAssumption, NEW m \in Machines, E!Install(m) PROVE EnrolInv'
<1> DEFINE new == [n |-> issued + 1, m |-> m, presented |-> cfg[m], pc |-> "token", found |-> E!None]
           wait == [pc |-> "waiting", n |-> issued + 1]
<1>1. /\ inst[m] = E!Idle /\ issued < MaxReqs /\ issued' = issued + 1
      /\ inst' = [inst EXCEPT ![m] = wait] /\ reqs' = reqs \cup {new}
      /\ UNCHANGED <<agent, cfg, install, command, enrol_report, lost, dropped, queued, done>>
  BY DEF E!Install
<1>2. EnrolTypes
  BY DEF EnrolInv
<1>3. issued \in Nat /\ cfg[m] \in Nat /\ E!None \in AgentRec /\ E!None.id = 0 /\ E!Idle.pc = "idle"
      /\ agent.id \in Nat /\ agent.token \in Nat
  BY <1>2, EnrolFacts
<1>4. new \in ReqRec /\ wait \in InstRec
  BY <1>3 DEF ReqRec, InstRec
<1>5. new.n = issued + 1 /\ new.m = m /\ new.presented = cfg[m] /\ new.pc = "token"
      /\ new.found = E!None /\ wait.n = issued + 1 /\ wait.pc = "waiting"
  OBVIOUS
<1> HIDE DEF new, wait
<1>6. EnrolTypes'
  <2>1. issued' \in 0..MaxReqs
    BY <1>1, <1>3 DEF E!EnrolmentAssumption
  <2> QED BY <1>1, <1>2, <1>4, <2>1 DEF EnrolTypes
<1>7. inst'[m] = wait /\ \A k \in Machines : k # m => inst'[k] = inst[k]
  BY <1>1, <1>2 DEF EnrolTypes
<1>8. RowsWhole'
  <2>1. agent.id <= issued + 1 /\ agent.token <= issued + 1
    BY <1>3 DEF EnrolInv, RowsWhole
  <2> QED BY <1>1, <1>5, <2>1 DEF EnrolInv, RowsWhole
<1>9. \A k \in Machines : \A t : Holds(k, t)' => Holds(k, t) \/ (k = m /\ t = issued + 1)
  BY <1>1, <1>5, <1>7 DEF Holds
<1>10. \A k \in Machines : \A t : Holds(k, t) => t <= issued
  BY DEF EnrolInv, Numbered
<1>11. ~(issued + 1 <= issued) /\ issued + 1 # 0 /\ agent.token # issued + 1 /\ agent.id # issued + 1
  BY <1>3 DEF EnrolInv, RowsWhole
<1>12. Separate'
  <2> SUFFICES ASSUME NEW m1 \in Machines, NEW m2 \in Machines, NEW t, t # 0, Holds(m1, t)', Holds(m2, t)'
               PROVE  m1 = m2
    BY DEF Separate
  <2>1. CASE t = issued + 1
    BY <1>9, <1>10, <1>11, <2>1
  <2>2. CASE t # issued + 1
    BY <1>9, <2>2 DEF EnrolInv, Separate
  <2> QED BY <2>1, <2>2
<1>13. Numbered'
  <2> SUFFICES ASSUME NEW k \in Machines, NEW t, Holds(k, t)' PROVE t <= issued + 1
    BY <1>1 DEF Numbered
  <2>1. CASE t = issued + 1
    BY <1>3, <2>1
  <2>2. CASE Holds(k, t)
    <3>1. t <= issued
      BY <1>10, <2>2
    <3>2. t \in Nat
      BY <1>2, <2>2, EnrolFacts DEF Holds
    <3> QED BY <1>3, <3>1, <3>2
  <2> QED BY <1>9, <2>1, <2>2
<1>14. HeldByOwner'
  BY <1>1, <1>9, <1>11 DEF EnrolInv, HeldByOwner
<1>15. Pending'
  <2>1. \A r \in reqs : r.n # issued + 1 /\ r.n <= issued + 1 /\ r.found.id # issued + 1
                        /\ r.found.id <= issued + 1
    <3> TAKE r \in reqs
    <3>1. r.n \in Nat /\ r.n <= issued /\ r.found.id <= issued /\ r.found.id \in Nat
      BY <1>2, EnrolFacts DEF EnrolInv, Pending
    <3> QED BY <1>3, <3>1
  <2>2. \A r \in reqs : r.n # 0
    BY DEF EnrolInv, Pending
  <2>3. 0 <= issued + 1 /\ issued + 1 <= issued + 1
    BY <1>3
  <2> QED BY <1>1, <1>3, <1>5, <1>11, <2>1, <2>2, <2>3 DEF EnrolInv, Pending
<1>16. FoundIsOwn' /\ FoundLate'
  BY <1>1, <1>5 DEF EnrolInv, FoundIsOwn, FoundLate
<1>17. Explained'
  BY <1>1, <1>3, <1>5, <1>7 DEF EnrolInv, Explained
<1>18. CommandCounted'
  BY <1>1 DEF EnrolInv, CommandCounted
<1> QED BY <1>6, <1>8, <1>12, <1>13, <1>14, <1>15, <1>16, <1>17, <1>18 DEF EnrolInv

(* It gives up, writes the configuration or fails to download the agent.   *)
LEMMA EnrolInstaller ==
    ASSUME EnrolInv, NEW m \in Machines, E!GiveUp(m) \/ E!WriteConfig(m) \/ E!DownloadFails(m)
    PROVE  EnrolInv'
<1>1. /\ inst' = [inst EXCEPT ![m] = E!Idle]
      /\ UNCHANGED <<agent, issued, reqs, install, command, enrol_report, dropped, queued, done>>
  BY DEF E!GiveUp, E!WriteConfig, E!DownloadFails
<1>2. EnrolTypes
  BY DEF EnrolInv
<1>3. /\ E!Idle \in InstRec /\ E!Idle.n = 0 /\ E!Idle.pc = "idle" /\ agent.token \in Nat
      /\ inst[m] \in InstRec /\ inst[m].n \in Nat
  BY <1>2, EnrolFacts
<1>4. inst'[m] = E!Idle /\ \A k \in Machines : k # m => inst'[k] = inst[k]
  BY <1>1, <1>2 DEF EnrolTypes
<1>5. cfg' \in [Machines -> Nat] /\ (\A k \in Machines : k # m => cfg'[k] = cfg[k])
      /\ cfg'[m] \in {cfg[m], inst[m].n} /\ lost' \subseteq Machines
      /\ \A k \in Machines : k # m => (k \in lost => k \in lost')
  BY <1>2, <1>3 DEF E!GiveUp, E!WriteConfig, E!DownloadFails, EnrolTypes
<1>6. EnrolTypes'
  BY <1>1, <1>2, <1>3, <1>5 DEF EnrolTypes
<1>7. \A k \in Machines : \A t : t # 0 /\ Holds(k, t)' => Holds(k, t)
  BY <1>1, <1>3, <1>4, <1>5 DEF Holds
<1>8. Numbered' /\ Separate' /\ HeldByOwner'
  BY <1>1, <1>7, HoldsLess
<1>9. RowsWhole' /\ Pending' /\ FoundIsOwn' /\ FoundLate' /\ CommandCounted'
  BY <1>1 DEF EnrolInv, RowsWhole, Pending, FoundIsOwn, FoundLate, CommandCounted
<1>10. cfg'[m] # 0 /\ cfg'[m] # agent.token => m \in lost'
  <2>1. CASE E!GiveUp(m)
    <3>1. cfg' = cfg /\ lost' = lost /\ inst[m].pc = "waiting"
      BY <2>1 DEF E!GiveUp
    <3> QED BY <3>1 DEF EnrolInv, Explained
  <2>2. CASE E!WriteConfig(m)
    <3>1. inst[m].pc = "token" /\ cfg'[m] = inst[m].n
          /\ lost' = IF inst[m].n = agent.token THEN lost \ {m} ELSE lost
      BY <1>2, <2>2 DEF E!WriteConfig, EnrolTypes
    <3> QED BY <3>1 DEF EnrolInv, Explained
  <2>3. CASE E!DownloadFails(m)
    BY <2>3 DEF E!DownloadFails
  <2> QED BY <2>1, <2>2, <2>3
<1>11. Explained'
  BY <1>1, <1>3, <1>4, <1>5, <1>10 DEF EnrolInv, Explained
<1> QED BY <1>6, <1>8, <1>9, <1>11 DEF EnrolInv

(* A request is refused: nobody holds more.                                *)
LEMMA EnrolRefuse ==
    ASSUME EnrolInv, NEW r \in reqs, E!Refuse(r),
           UNCHANGED <<agent, issued, cfg, install, command, enrol_report, lost, dropped, queued, done>>
    PROVE  EnrolInv'
<1>1. /\ reqs' \subseteq reqs
      /\ inst' = IF E!Waiting(r) THEN [inst EXCEPT ![r.m] = E!Idle] ELSE inst
  BY DEF E!Refuse
<1>2. EnrolTypes
  BY DEF EnrolInv
<1>3. E!Idle \in InstRec /\ E!Idle.n = 0 /\ E!Idle.pc = "idle" /\ r.m \in Machines
  BY <1>2, EnrolFacts
<1>4. inst' \in [Machines -> InstRec]
      /\ \A k \in Machines : inst'[k] = inst[k] \/ (inst'[k] = E!Idle /\ inst[k].pc = "waiting")
  <2>1. E!Waiting(r) => inst[r.m].pc = "waiting"
    BY DEF E!Waiting
  <2> QED BY <1>1, <1>2, <1>3, <2>1 DEF EnrolTypes
<1>5. EnrolTypes'
  BY <1>1, <1>2, <1>4 DEF EnrolTypes
<1>6. \A k \in Machines : \A t : t # 0 /\ Holds(k, t)' => Holds(k, t)
  BY <1>1, <1>3, <1>4 DEF Holds
<1>7. Numbered' /\ Separate' /\ HeldByOwner'
  BY <1>6, HoldsLess
<1>8. RowsWhole' /\ Pending' /\ FoundIsOwn' /\ FoundLate' /\ CommandCounted'
  BY <1>1 DEF EnrolInv, RowsWhole, Pending, FoundIsOwn, FoundLate, CommandCounted
<1>9. Explained'
  BY <1>3, <1>4 DEF EnrolInv, Explained
<1> QED BY <1>5, <1>7, <1>8, <1>9 DEF EnrolInv

(* A request goes on: with what it found, which is its sender's.           *)
LEMMA EnrolGoesOn ==
    ASSUME EnrolInv, NEW r \in reqs, NEW q \in ReqRec, reqs' = (reqs \ {r}) \cup {q},
           q.n = r.n, q.m = r.m, q.presented = r.presented,
           q.found = E!None \/ (q.found = agent /\ q.pc = "commit"), q.pc = "commit" => E!Proves(r),
           UNCHANGED <<agent, issued, cfg, inst, install, command, enrol_report, lost, dropped, queued, done>>
    PROVE  EnrolInv'
<1>1. EnrolTypes
  BY DEF EnrolInv
<1>2. EnrolTypes'
  BY <1>1 DEF EnrolTypes
<1>3. \A k \in Machines : \A t : t # 0 /\ Holds(k, t)' => Holds(k, t)
  BY DEF Holds
<1>4. Numbered' /\ Separate' /\ HeldByOwner'
  BY <1>3, HoldsLess
<1>5. RowsWhole'
  BY DEF EnrolInv, RowsWhole
<1>6. E!None.id = 0 /\ agent.id \in Nat /\ issued \in Nat /\ agent.id <= issued /\ E!None.token = 0
  BY <1>1, EnrolFacts DEF EnrolInv, RowsWhole
<1>7. Pending'
  <2>1. \A p \in reqs' : \E o \in reqs : o.n = p.n /\ (p = o \/ (p = q /\ o = r))
    OBVIOUS
  <2>2. \A o \in reqs : o.n # 0 /\ o.n <= issued /\ o.n # agent.id /\ o.n # agent.token
    BY DEF EnrolInv, Pending
  <2>3. \A p \in reqs' : p.found.id \in {0, agent.id} \/ p \in reqs
    BY <1>6
  <2>4. \A p \in reqs' : p.n # 0 /\ p.n <= issued /\ p.n # agent.id /\ p.n # agent.token
    BY <2>1, <2>2
  <2>5. \A p, o \in reqs' : p.found.id # o.n
    <3> TAKE p, o \in reqs'
    <3>1. PICK oo \in reqs : oo.n = o.n
      BY <2>1
    <3>2. CASE p \in reqs
      BY <3>1, <3>2 DEF EnrolInv, Pending
    <3>3. CASE p.found.id \in {0, agent.id}
      BY <2>4, <3>3
    <3> QED BY <2>3, <3>2, <3>3
  <2>6. \A p, o \in reqs' : p.n = o.n => p = o
    <3> TAKE p, o \in reqs'
    <3> HAVE p.n = o.n
    <3>1. \A a, b \in reqs : a.n = b.n => a = b
      BY DEF EnrolInv, Pending
    <3> QED BY <3>1
  <2>7. \A p \in reqs' : p.found.id <= issued
    <3> TAKE p \in reqs'
    <3>1. CASE p \in reqs
      BY <3>1 DEF EnrolInv, Pending
    <3>2. CASE p.found.id \in {0, agent.id}
      BY <1>6, <3>2
    <3> QED BY <2>3, <3>1, <3>2
  <2> QED BY <2>4, <2>5, <2>6, <2>7 DEF Pending
<1>8. FoundIsOwn'
  <2> SUFFICES ASSUME q.pc = "commit", q.found.id # 0, q.found.id = agent.id PROVE q.m = agent.owner
    BY DEF EnrolInv, FoundIsOwn
  <2>1. agent # E!None /\ r.presented = agent.token
    BY <1>6 DEF E!Proves
  <2>2. agent.token # 0 /\ Holds(r.m, agent.token) /\ r.m \in Machines
    BY <1>1, <2>1, EnrolFacts DEF EnrolInv, RowsWhole, Holds
  <2> QED BY <2>2 DEF EnrolInv, HeldByOwner
<1>9. Explained' /\ CommandCounted' /\ FoundLate'
  BY DEF EnrolInv, Explained, CommandCounted, FoundLate
<1> QED BY <1>2, <1>4, <1>5, <1>7, <1>8, <1>9 DEF EnrolInv

(* The row is written: the number becomes the token of its sender.         *)
LEMMA EnrolCommit == ASSUME EnrolInv, NEW r \in reqs, E!Commit(r) PROVE EnrolInv'
<1>1. EnrolTypes
  BY DEF EnrolInv
<1>2. /\ r \in ReqRec /\ r.m \in Machines /\ r.n \in Nat /\ r.found \in AgentRec /\ r.found.id \in Nat
      /\ E!None.id = 0 /\ E!None.token = 0 /\ E!Idle.n = 0 /\ agent.id \in Nat /\ agent.token \in Nat
      /\ issued \in Nat /\ r.n # 0 /\ r.n <= issued
  BY <1>1, EnrolFacts DEF EnrolInv, Pending
<1>3. CASE agent.id # r.found.id
  <2>1. /\ E!Refuse(r)
        /\ UNCHANGED <<agent, issued, cfg, install, command, enrol_report, lost, dropped, queued, done>>
    BY <1>3 DEF E!Commit
  <2> QED BY <2>1, EnrolRefuse
<1>4. CASE agent.id = r.found.id
  <2> DEFINE tok == [pc |-> "token", n |-> r.n]
  <2>1. /\ agent' = E!Written(r) /\ command' = (IF r.found = E!None THEN FALSE ELSE command)
        /\ reqs' = reqs \ {r}
        /\ inst' = (IF E!Waiting(r) THEN [inst EXCEPT ![r.m] = tok] ELSE inst)
        /\ lost' = (IF E!Waiting(r) THEN lost ELSE lost \cup {r.m})
        /\ UNCHANGED <<issued, cfg, install, enrol_report, dropped, queued, done>>
        /\ r.pc = "commit"
    BY <1>4 DEF E!Commit
  <2>2. tok \in InstRec /\ tok.n = r.n /\ tok.pc = "token"
    BY <1>2 DEF InstRec
  <2> HIDE DEF tok
  <2>3. agent = E!None <=> r.found = E!None
    BY <1>2, <1>4 DEF EnrolInv, RowsWhole
  <2>4. /\ agent' \in AgentRec /\ agent'.token = r.n /\ agent'.owner = r.m
        /\ agent'.id = IF r.found = E!None THEN r.n ELSE agent.id
    <3>1. CASE r.found = E!None
      <4>1. agent' = [id |-> r.n, token |-> r.n, owner |-> r.m]
        BY <2>1, <3>1 DEF E!Written
      <4> QED BY <1>2, <3>1, <4>1 DEF AgentRec
    <3>2. CASE r.found # E!None
      <4>1. agent' = [agent EXCEPT !.token = r.n] /\ agent \in AgentRec
        BY <1>1, <2>1, <3>2 DEF E!Written, EnrolTypes
      <4>2. agent.owner = r.m
        BY <1>2, <1>4, <2>1, <2>3, <3>2 DEF EnrolInv, FoundIsOwn, RowsWhole
      <4> QED BY <1>2, <3>2, <4>1, <4>2 DEF AgentRec
    <3> QED BY <3>1, <3>2
  <2>5. inst' \in [Machines -> InstRec]
        /\ (E!Waiting(r) => inst'[r.m] = tok)
        /\ \A k \in Machines : inst'[k] = inst[k] \/ (k = r.m /\ inst'[k] = tok /\ E!Waiting(r))
    BY <1>1, <1>2, <2>1, <2>2 DEF EnrolTypes
  <2>6. EnrolTypes'
    <3>1. command' \in BOOLEAN /\ lost' \subseteq Machines /\ reqs' \subseteq ReqRec
      BY <1>1, <1>2, <2>1 DEF EnrolTypes
    <3> QED BY <1>1, <2>1, <2>4, <2>5, <3>1 DEF EnrolTypes
  <2>7. agent' # E!None /\ agent'.id # 0 /\ agent'.token # 0
    <3>1. agent'.token # 0
      BY <1>2, <2>4
    <3>2. agent'.id # 0
      BY <1>2, <2>3, <2>4 DEF EnrolInv, RowsWhole
    <3> QED BY <1>2, <3>1, <3>2
  <2>8. RowsWhole'
    <3>1. agent'.id <= issued /\ agent'.token <= issued
      BY <1>2, <2>4 DEF EnrolInv, RowsWhole
    <3> QED BY <2>1, <2>7, <3>1 DEF EnrolInv, RowsWhole
  <2>9. \A k \in Machines : \A t : Holds(k, t)' => Holds(k, t)
    BY <2>1, <2>2, <2>5 DEF Holds
  <2>10. Numbered' /\ Separate'
    BY <2>1, <2>9 DEF EnrolInv, Numbered, Separate
  <2>11. Holds(r.m, r.n)
    BY DEF Holds
  <2>12. HeldByOwner'
    <3> SUFFICES ASSUME NEW k \in Machines, Holds(k, r.n)' PROVE k = r.m
      BY <2>4 DEF HeldByOwner
    <3> QED BY <1>2, <2>9, <2>11 DEF EnrolInv, Separate
  <2>13. \A q \in reqs' : q \in reqs /\ q.n # r.n
    BY <2>1 DEF EnrolInv, Pending
  <2>14. Pending'
    <3>1. \A q \in reqs' : q.n # agent'.id /\ q.n # agent'.token
      BY <2>4, <2>13 DEF EnrolInv, Pending
    <3> QED BY <2>1, <2>13, <3>1 DEF EnrolInv, Pending
  <2>14a. FoundLate'
    BY <2>13 DEF EnrolInv, FoundLate
  <2>15. FoundIsOwn'
    <3> SUFFICES ASSUME NEW q \in reqs', q.pc = "commit", q.found.id # 0, q.found.id = agent'.id
                 PROVE  q.m = agent'.owner
      BY DEF FoundIsOwn
    <3>1. q.found.id # r.n
      BY <2>13 DEF EnrolInv, Pending
    <3>2. r.found # E!None /\ q.found.id = agent.id /\ r.found.id = agent.id
      BY <1>4, <2>4, <3>1
    <3>3. q.m = agent.owner /\ r.m = agent.owner
      BY <2>1, <2>13, <3>2 DEF EnrolInv, FoundIsOwn
    <3> QED BY <2>4, <3>3
  <2>16. \A k \in Machines : k # r.m /\ agent.token # 0 => ~Holds(k, agent.token)
    <3> SUFFICES ASSUME NEW k \in Machines, agent.token # 0, Holds(k, agent.token) PROVE k = r.m
      OBVIOUS
    <3>1. k = agent.owner /\ agent # E!None
      BY <1>2 DEF EnrolInv, HeldByOwner
    <3>2. r.found # E!None /\ r.found.id # 0
      BY <1>2, <1>4, <2>3, <3>1 DEF EnrolInv, RowsWhole
    <3> QED BY <1>4, <2>1, <3>1, <3>2 DEF EnrolInv, FoundIsOwn
  <2>17. Explained'
    <3>1. ASSUME NEW k \in Machines, k # r.m, cfg[k] # 0
          PROVE  k \in lost' \/ inst'[k].pc = "token"
      <4>1. cfg[k] # agent.token
        <5>1. Holds(k, cfg[k])
          BY DEF Holds
        <5> QED BY <2>16, <3>1, <5>1
      <4> QED BY <2>1, <2>5, <3>1, <4>1 DEF EnrolInv, Explained
    <3>2. r.m \in lost' \/ inst'[r.m] = tok
      BY <2>1, <2>5
    <3>3. ASSUME NEW k \in Machines, inst'[k].pc = "token"
          PROVE  inst'[k].n # 0 /\ (inst'[k].n # r.n => k \in lost')
      <4>1. CASE k = r.m
        <5>1. CASE E!Waiting(r)
          BY <1>2, <2>2, <2>5, <4>1, <5>1
        <5>2. CASE ~E!Waiting(r)
          BY <2>1, <3>3, <4>1, <5>2 DEF EnrolInv, Explained
        <5> QED BY <5>1, <5>2
      <4>2. CASE k # r.m
        <5>1. inst'[k] = inst[k] /\ Holds(k, inst[k].n) /\ inst[k].n # 0
          BY <2>5, <3>3, <4>2 DEF Holds, EnrolInv, Explained
        <5>2. inst[k].n # agent.token
          BY <2>16, <4>2, <5>1
        <5> QED BY <2>1, <3>3, <5>1, <5>2 DEF EnrolInv, Explained
      <4> QED BY <4>1, <4>2
    <3> QED BY <2>1, <2>2, <2>4, <3>1, <3>2, <3>3 DEF Explained
  <2>18. CommandCounted'
    <3>1. command' = command
      BY <2>1, <2>3 DEF EnrolInv, CommandCounted, EnrolTypes
    <3>2. queued <= done + dropped + (IF command THEN 1 ELSE 0)
      BY DEF EnrolInv, CommandCounted
    <3>3. queued' <= done' + dropped' + (IF command' THEN 1 ELSE 0)
      <4>1. queued' = queued /\ done' = done /\ dropped' = dropped
        BY <2>1
      <4> QED BY <3>1, <3>2, <4>1
    <3> QED BY <2>7, <3>3 DEF CommandCounted
  <2> QED BY <2>6, <2>8, <2>10, <2>12, <2>14, <2>14a, <2>15, <2>17, <2>18 DEF EnrolInv
<1> QED BY <1>3, <1>4

(* A report ends: the command it read is carried out, or its answer lost.  *)
LEMMA EnrolReported ==
    ASSUME EnrolInv, NEW m \in Machines, NEW answered \in BOOLEAN, E!ReportEnd(m, answered)
    PROVE  EnrolInv'
<1>1. EnrolTypes
  BY DEF EnrolInv
<1>2. /\ enrol_report' = [enrol_report EXCEPT ![m] = E!NoReport]
      /\ UNCHANGED <<agent, issued, reqs, install, lost, queued>>
  BY DEF E!ReportEnd
<1>3. E!Idle \in InstRec /\ E!Idle.n = 0 /\ E!Idle.pc = "idle" /\ E!NoReport \in [id : Nat, cmd : BOOLEAN]
  BY <1>1, EnrolFacts DEF E!NoReport
<1>4. \/ UNCHANGED <<cfg, inst>>
      \/ cfg' = [cfg EXCEPT ![m] = 0] /\ inst' = [inst EXCEPT ![m] = E!Idle]
  BY DEF E!ReportEnd
<1>5. /\ cfg' \in [Machines -> Nat] /\ inst' \in [Machines -> InstRec]
      /\ \A k \in Machines : cfg'[k] = 0 \/ cfg'[k] = cfg[k]
      /\ \A k \in Machines : inst'[k] = inst[k] \/ (inst'[k] = E!Idle /\ cfg'[k] = 0)
  BY <1>1, <1>3, <1>4 DEF EnrolTypes
<1>6. enrol_report[m].cmd \in BOOLEAN /\ command \in BOOLEAN /\ done \in Nat /\ dropped \in Nat
      /\ queued \in Nat
  BY <1>1 DEF EnrolTypes
<1>7. \/ command' = command /\ done' = done /\ dropped' = dropped
      \/ command' = FALSE /\ done' = done + 1 /\ dropped' = dropped
      \/ command' = FALSE /\ done' = done /\ dropped' = dropped + 1
  BY <1>6 DEF E!ReportEnd, E!Cleared
<1>8. command' \in BOOLEAN /\ done' \in Nat /\ dropped' \in Nat
  <2>1. command' \in BOOLEAN
    BY <1>6, <1>7, Zenon
  <2>2. done' \in {done, done + 1} /\ dropped' \in {dropped, dropped + 1}
    BY <1>7
  <2>3. done + 1 \in Nat /\ dropped + 1 \in Nat
    BY <1>6
  <2> QED BY <1>6, <2>1, <2>2, <2>3
<1>9. EnrolTypes'
  BY <1>1, <1>2, <1>3, <1>5, <1>8 DEF EnrolTypes
<1>10. \A k \in Machines : \A t : t # 0 /\ Holds(k, t)' => Holds(k, t)
  BY <1>2, <1>3, <1>5 DEF Holds
<1>11. Numbered' /\ Separate' /\ HeldByOwner'
  BY <1>2, <1>10, HoldsLess
<1>12. RowsWhole' /\ Pending' /\ FoundIsOwn' /\ FoundLate'
  BY <1>2 DEF EnrolInv, RowsWhole, Pending, FoundIsOwn, FoundLate
<1>13. Explained'
  BY <1>2, <1>3, <1>5 DEF EnrolInv, Explained
<1>14. CommandCounted'
  <2>1. queued <= done + dropped + (IF command THEN 1 ELSE 0) /\ (agent = E!None => ~command)
    BY DEF EnrolInv, CommandCounted
  <2>2. CASE command
    <3>1. queued <= done + dropped + 1
      BY <2>1, <2>2
    <3>2. \/ command' /\ done' = done /\ dropped' = dropped
          \/ done' = done + 1 /\ dropped' = dropped /\ ~command'
          \/ done' = done /\ dropped' = dropped + 1 /\ ~command'
      BY <1>7, <2>2
    <3>3. agent # E!None
      BY <2>1, <2>2
    <3>4. CASE command'
      BY <1>2, <3>1, <3>2, <3>3, <3>4 DEF CommandCounted
    <3>5. CASE ~command'
      <4>1. queued <= done' + dropped' + 0
        BY <1>6, <3>1, <3>2, <3>5
      <4> QED BY <1>2, <3>3, <3>5, <4>1 DEF CommandCounted
    <3> QED BY <3>4, <3>5
  <2>3. CASE ~command
    BY <1>2, <1>6, <1>7, <2>1, <2>3 DEF CommandCounted
  <2> QED BY <2>2, <2>3
<1> QED BY <1>9, <1>11, <1>12, <1>13, <1>14 DEF EnrolInv

(* Reports begin and admins act: nobody holds more.                        *)
LEMMA EnrolOthers ==
    ASSUME EnrolInv,
           (\E m \in Machines : E!ReportBegin(m)) \/ E!Tokens \/ E!Delete \/ E!Uninstall
             \/ UNCHANGED enrolVars
    PROVE  EnrolInv'
<1>1. EnrolTypes
  BY DEF EnrolInv
<1>2. /\ E!None \in AgentRec /\ E!None.id = 0 /\ E!None.token = 0 /\ issued \in Nat
      /\ agent.id \in Nat /\ done \in Nat /\ dropped \in Nat /\ queued \in Nat /\ command \in BOOLEAN
  BY <1>1, EnrolFacts DEF EnrolTypes
<1>3. CASE E!Delete
  <2>1. /\ agent' = E!None /\ command' = FALSE /\ queued' = done + dropped /\ lost' = Machines
        /\ UNCHANGED <<issued, cfg, inst, reqs, install, enrol_report, dropped, done>>
    BY <1>3 DEF E!Delete
  <2>2. EnrolTypes'
    <3>1. queued' \in Nat
      BY <1>2, <2>1
    <3> QED BY <1>1, <1>2, <2>1, <3>1 DEF EnrolTypes
  <2>3. \A k \in Machines : \A t : Holds(k, t)' = Holds(k, t)
    BY <2>1 DEF Holds
  <2>4. Numbered' /\ Separate' /\ HeldByOwner'
    BY <1>2, <2>1, <2>3 DEF EnrolInv, Numbered, Separate, HeldByOwner
  <2>5. RowsWhole' /\ Pending' /\ FoundIsOwn' /\ FoundLate'
    BY <1>2, <2>1 DEF EnrolInv, RowsWhole, Pending, FoundIsOwn, FoundLate
  <2>6. Explained'
    BY <2>1 DEF EnrolInv, Explained
  <2>7. CommandCounted'
    BY <1>2, <2>1 DEF CommandCounted
  <2> QED BY <2>2, <2>4, <2>5, <2>6, <2>7 DEF EnrolInv
<1>4. CASE ~E!Delete
  <2>1. UNCHANGED <<agent, issued, cfg, inst, reqs, lost, dropped, done>>
    BY <1>4 DEF E!ReportBegin, E!Tokens, E!Uninstall, enrolVars
  <2>2. enrol_report' \in [Machines -> [id : Nat, cmd : BOOLEAN]]
    BY <1>1, <1>2, <1>4 DEF E!ReportBegin, E!Tokens, E!Uninstall, enrolVars, EnrolTypes
  <2>3. install' \in BOOLEAN
    BY <1>1, <1>4 DEF E!ReportBegin, E!Tokens, E!Uninstall, enrolVars, EnrolTypes
  <2>4. \/ UNCHANGED <<command, queued>>
        \/ agent # E!None /\ ~command /\ command' = TRUE /\ queued' = queued + 1
    BY <1>4 DEF E!ReportBegin, E!Tokens, E!Uninstall, enrolVars
  <2>5. command' \in BOOLEAN /\ queued' \in Nat
    <3>1. command' \in BOOLEAN
      BY <1>2, <2>4, Zenon
    <3>2. queued + 1 \in Nat
      BY <1>2
    <3> QED BY <1>2, <2>4, <3>1, <3>2
  <2>6. EnrolTypes'
    BY <1>1, <2>1, <2>2, <2>3, <2>5 DEF EnrolTypes
  <2>7. \A k \in Machines : \A t : Holds(k, t)' = Holds(k, t)
    BY <2>1 DEF Holds
  <2>8. Numbered' /\ Separate' /\ HeldByOwner'
    BY <2>1, <2>7, HoldsLess
  <2>9. RowsWhole' /\ Pending' /\ FoundIsOwn' /\ FoundLate' /\ Explained'
    BY <2>1 DEF EnrolInv, RowsWhole, Pending, FoundIsOwn, FoundLate, Explained
  <2>10. CommandCounted'
    BY <1>2, <2>1, <2>4 DEF EnrolInv, CommandCounted
  <2> QED BY <2>6, <2>8, <2>9, <2>10 DEF EnrolInv
<1> QED BY <1>3, <1>4

(* Every step of machines, requests and admins.                            *)
LEMMA EnrolStep ==
    ASSUME E!EnrolmentAssumption, EnrolInv, E!EnrolmentNext \/ UNCHANGED enrolVars PROVE EnrolInv'
<1>0. \A r \in reqs : r \in ReqRec
  BY EnrolFacts DEF EnrolInv
<1>1. ASSUME NEW r \in reqs, E!Consume(r) PROVE EnrolInv'
  <2> DEFINE q == [r EXCEPT !.pc = "look"]
  <2>1. UNCHANGED <<agent, issued, cfg, install, command, enrol_report, lost, dropped, queued, done>>
        /\ r.pc = "token"
    BY <1>1 DEF E!Consume
  <2>2. CASE reqs' = (reqs \ {r}) \cup {q} /\ inst' = inst
    <3>1. /\ q \in ReqRec /\ q.n = r.n /\ q.m = r.m /\ q.presented = r.presented /\ q.pc = "look"
          /\ q.found = r.found
      BY <1>0 DEF ReqRec
    <3>2. r.found = E!None
      BY <2>1 DEF EnrolInv, FoundLate
    <3> HIDE DEF q
    <3> QED BY <2>1, <2>2, <3>1, <3>2, EnrolGoesOn
  <2>3. CASE E!Refuse(r)
    BY <2>1, <2>3, EnrolRefuse
  <2> QED BY <1>1, <2>2, <2>3 DEF E!Consume
<1>2. ASSUME NEW r \in reqs, E!LookUp(r) PROVE EnrolInv'
  <2> DEFINE q == [r EXCEPT !.pc = "commit", !.found = agent]
  <2>1. UNCHANGED <<agent, issued, cfg, install, command, enrol_report, lost, dropped, queued, done>>
    BY <1>2 DEF E!LookUp
  <2>2. CASE E!Proves(r) /\ reqs' = (reqs \ {r}) \cup {q} /\ inst' = inst
    <3>1. /\ q \in ReqRec /\ q.n = r.n /\ q.m = r.m /\ q.presented = r.presented /\ q.found = agent
          /\ q.pc = "commit"
      BY <1>0 DEF ReqRec, EnrolInv, EnrolTypes
    <3> HIDE DEF q
    <3> QED BY <2>1, <2>2, <3>1, EnrolGoesOn
  <2>3. CASE E!Refuse(r)
    BY <2>1, <2>3, EnrolRefuse
  <2> QED BY <1>2, <2>2, <2>3 DEF E!LookUp
<1>3. enrolVars' = enrolVars <=> E!enrolmentVars' = E!enrolmentVars
  BY DEF enrolVars, E!enrolmentVars
<1> QED BY <1>1, <1>2, <1>3, EnrolInstall, EnrolInstaller, EnrolCommit, EnrolReported, EnrolOthers
        DEF E!EnrolmentNext

(* What the invariant says of tokens and commands.                         *)
LEMMA EnrolSafe ==
    ASSUME E!EnrolmentAssumption, EnrolInv
    PROVE  E!EnrolmentTypeOK /\ E!NoTakeover /\ E!DeadTokenExplained /\ E!CommandKept
<1>1. EnrolTypes
  BY DEF EnrolInv
<1>2. E!EnrolmentTypeOK
  <2>1. \A m \in Machines : cfg[m] \in Nat /\ cfg[m] <= issued
    <3> TAKE m \in Machines
    <3>1. Holds(m, cfg[m])
      BY DEF Holds
    <3> QED BY <1>1, <3>1, EnrolFacts DEF EnrolInv, Numbered
  <2>2. issued \in 0..MaxReqs /\ agent.id \in Nat /\ agent.token \in Nat /\ agent.id <= issued
        /\ agent.token <= issued
    BY <1>1, EnrolFacts DEF EnrolTypes, EnrolInv, RowsWhole
  <2>2a. MaxReqs \in Nat
    BY DEF E!EnrolmentAssumption
  <2>3. agent.id \in 0..MaxReqs /\ agent.token \in 0..MaxReqs
    BY <2>2, <2>2a
  <2>4. \A m \in Machines : cfg[m] \in 0..MaxReqs
    BY <2>1, <2>2, <2>2a
  <2>5. cfg \in [Machines -> 0..MaxReqs]
    BY <1>1, <2>4 DEF EnrolTypes
  <2> QED BY <1>1, <2>2, <2>3, <2>5 DEF EnrolTypes, E!EnrolmentTypeOK
<1>3. E!NoTakeover
  <2> SUFFICES ASSUME NEW m \in Machines, agent.token # 0,
                      agent.token \in {cfg[m], IF inst[m].pc = "token" THEN inst[m].n ELSE 0}
               PROVE  m = agent.owner
    BY DEF E!NoTakeover
  <2>1. Holds(m, agent.token)
    BY DEF Holds
  <2> QED BY <2>1 DEF EnrolInv, HeldByOwner
<1>4. E!DeadTokenExplained
  BY DEF EnrolInv, Explained, E!DeadTokenExplained
<1>5. E!CommandKept
  <2>1. queued \in Nat /\ done \in Nat /\ dropped \in Nat
    BY <1>1 DEF EnrolTypes
  <2>2. queued <= done + dropped + (IF command THEN 1 ELSE 0)
    BY DEF EnrolInv, CommandCounted
  <2>3. ~command => ~(queued > done + dropped)
    BY <2>1, <2>2
  <2> QED BY <2>3 DEF E!CommandKept
<1> QED BY <1>2, <1>3, <1>4, <1>5

-----------------------------------------------------------------------------
(***************************************************************************)
(* The components together.                                                *)
(***************************************************************************)
(* A step of the specification is one of each component, or leaves it      *)
(* alone.                                                                  *)
LEMMA MonitoringMove ==
    ASSUME [Next]_vars
    PROVE  /\ HostNext \/ UNCHANGED hostVars
           /\ P!Next \/ UNCHANGED portVars
           /\ ServicesNext \/ UNCHANGED servicesVars
           /\ C!Next \/ UNCHANGED collectVars
           /\ E!EnrolmentNext \/ UNCHANGED enrolVars
           /\ E!UpdateNext \/ UNCHANGED updateVars
           /\ X!Next \/ UNCHANGED editsVars
BY DEF Next, vars, hostOnly, portOnly, servicesOnly, collectOnly, enrolOnly, updateOnly, editsOnly

(* No line of a log is passed over and none is sent twice, but for what    *)
(* the collectors accept; no machine holds the token of another one's      *)
(* agent, a dead token is explained and an uninstall is not forgotten; and *)
(* a stored secret stays where it was entered for: for any lines, limits,  *)
(* rotations, machines, requests and overlapping edits.                    *)
THEOREM AgentsAreSafe ==
    ASSUME C!CollectAssumption, E!EnrolmentAssumption, X!EditsAssumption PROVE Spec => []AgentsSafe
<1>1. Init => CollectInv /\ EnrolInv /\ EditsInv
  BY CollectStart, EnrolStart, EditsStart DEF Init
<1>2. CollectInv /\ EnrolInv /\ EditsInv /\ [Next]_vars => (CollectInv /\ EnrolInv /\ EditsInv)'
  BY MonitoringMove, CollectStep, EnrolStep, EditsStep
<1>3. CollectInv /\ EnrolInv /\ EditsInv => AgentsSafe
  <2> SUFFICES ASSUME CollectInv, EnrolInv, EditsInv PROVE AgentsSafe
    OBVIOUS
  <2>1. X!SecretStays
    BY DEF EditsInv, Kept, X!SecretStays
  <2> QED BY <2>1, CollectSafe, EnrolSafe DEF AgentsSafe
<1> QED BY <1>1, <1>2, <1>3, PTL DEF Spec

(* Every variable of every monitoring component has its type.              *)
THEOREM MonitoringTypes ==
    ASSUME HostChecksAssumption, P!PortErrorsAssumption, ServicesAssumption, C!CollectAssumption,
           E!EnrolmentAssumption, X!EditsAssumption
    PROVE  Spec => []TypesOK
<1> DEFINE I == /\ HostTypeOK /\ PortInv /\ ServicesTypeOK /\ CollectInv /\ EnrolInv /\ UpdateInv
                /\ EditsInv
<1>1. Init => I
  <2>1. ServicesInit => ServicesTypeOK
    BY ServicesBegin DEF ServicesInv
  <2> QED BY <2>1, HostStart, PortStart, CollectStart, EnrolStart, UpdateStart, EditsStart DEF Init
<1>2. I /\ [Next]_vars => I'
  BY MonitoringMove, HostTypesStep, PortStep, ServicesTypesStep, CollectStep, EnrolStep, UpdateStep,
     EditsStep
<1>3. I => TypesOK
  <2> SUFFICES ASSUME I PROVE TypesOK
    OBVIOUS
  <2>1. E!UpdateTypeOK
    BY DEF UpdateInv, E!UpdateTypeOK, Modes
  <2>2. X!TypeOK
    <3>1. edits_row.rev \in Nat /\ writes \in 0..MaxWrites /\ edits_row.rev <= writes + 1
          /\ MaxWrites \in Nat
      BY DEF EditsInv, RowRec, X!EditsAssumption
    <3>2. edits_row.rev \in 0..(MaxWrites + 1)
      BY <3>1
    <3> QED BY <3>1, <3>2 DEF EditsInv, RowRec, X!TypeOK
  <2> QED BY <2>1, <2>2, CollectSafe, EnrolSafe DEF TypesOK, PortInv
<1> HIDE DEF I
<1> QED BY <1>1, <1>2, <1>3, PTL DEF Spec

(* An agent that was told the installation has several tenants, and wrote  *)
(* it down, runs nothing but release-signed binaries from then on; one     *)
(* that was ever a probe runs nothing that no key has signed.              *)
THEOREM UpdatesTightened == Spec => E!Tightened
<1>1. Init => UpdateInv
  BY UpdateStart DEF Init
<1>2. UpdateInv /\ [Next]_vars => UpdateInv'
  BY MonitoringMove, UpdateStep
<1>3. UpdateInv /\ [Next]_vars =>
        [update_running' # update_running /\ update_kind = "rust" =>
            /\ update_told.multi \/ strict => update_running' \in Released
            /\ update_told.probe => update_running' \in Released \/ key]_E!updateVars
  BY MonitoringMove, UpdateTightened
<1> QED BY <1>1, <1>2, <1>3, PTL DEF Spec, E!Tightened

(* A result of an integration is stored only while the settings it was     *)
(* collected with are the config's, unless an edit has been written over   *)
(* another one's.                                                          *)
THEOREM ResultsAreCurrent == ASSUME X!EditsAssumption PROVE Spec => X!DataCurrent
<1>1. Init => EditsInv
  BY EditsStart DEF Init
<1>2. EditsInv /\ [Next]_vars => EditsInv'
  BY MonitoringMove, EditsStep
<1>3. EditsInv /\ [Next]_vars =>
        [data' # data /\ edits_row'.rev > 0 /\ ~stale => data' = X!Settings(edits_row)]_X!vars
  BY MonitoringMove, EditsCurrent
<1> QED BY <1>1, <1>2, <1>3, PTL DEF Spec, X!DataCurrent

(* A cycle raises the flag of a failing service for as many failures in a  *)
(* row as the threshold asks for, less the one measurement that was under  *)
(* way when the checks were reset.                                         *)
THEOREM FlagIsEarned == ASSUME P!PortErrorsAssumption PROVE Spec => P!PortErrorEarned
<1>1. Init => PortInv
  BY PortStart DEF Init
<1>2. PortInv /\ [Next]_vars => PortInv'
  BY MonitoringMove, PortStep
<1>3. PortInv /\ [Next]_vars =>
        [~portErr /\ portErr' /\ port_cycle.busy /\ ~port_cycle'.busy => bad' >= SetAfter - 1]_P!vars
  BY MonitoringMove, PortEarned
<1> QED BY <1>1, <1>2, <1>3, PTL DEF Spec, P!PortErrorEarned

(* An outage is announced only when no cycle saw the host answer during    *)
(* the grace period.                                                       *)
THEOREM GraceIsKept == ASSUME HostChecksAssumption PROVE Spec => GraceKept
<1>1. Init => HostTypeOK /\ UnseenCovers
  BY HostStart DEF Init
<1>2. HostTypeOK /\ UnseenCovers /\ [Next]_vars => (HostTypeOK /\ UnseenCovers)'
  BY MonitoringMove, HostTypesStep, GraceStep
<1>3. HostTypeOK /\ UnseenCovers /\ [Next]_vars => [~told /\ told' => unseen >= Grace]_hostVars
  BY MonitoringMove, GraceStep
<1> QED BY <1>1, <1>2, <1>3, PTL DEF Spec, GraceKept
=============================================================================
