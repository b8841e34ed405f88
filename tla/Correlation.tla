---------------------------- MODULE Correlation ----------------------------
(***************************************************************************)
(* The incident engine of the backend: one correlation cycle per minute    *)
(* (backend/services/correlation.py) runs the rules, each in its own       *)
(* transaction, then auto-resolves, then prunes the in-memory streaks.     *)
(* Operators acknowledge and resolve incidents through the API             *)
(* (backend/routers/api_v1.py) and the disk job raises its own incident    *)
(* (backend/scheduler.py) while a cycle is under way.                      *)
(*                                                                         *)
(* Titles, summaries, severities, events and notifications are left out:   *)
(* an incident is its rule, its dedup key, its status and the minutes      *)
(* since updated_at.  The dedup key is a hash of host ids; the model keeps *)
(* the set of hosts itself ([0] and [], "no host", are the empty set).     *)
(* One tenant is modelled: streaks and queries are per tenant.             *)
(***************************************************************************)
EXTENDS Naturals, FiniteSets, Sequences

CONSTANTS
    Hosts,          \* the enabled ping hosts
    Parent,         \* topology: the parent of a host, or NoParent
    NoParent,
    Subnet,         \* the /24 of a host
    Integrations,
    HostOf,         \* the ping host an integration's config points at
    Signals,        \* what the log rules can see: records of job, rule, subject and hosts
    RuleSeq,        \* the rules of a cycle, in the order they run
    Conditions,     \* the observable conditions of the instance
    MinCycles,      \* setting correlation_min_cycles
    ResolveAfter,   \* ten minutes without activity resolve a log incident
    MaxDelay,       \* bound: minutes between two cycles
    Ids,            \* incident rows (a resolved row nobody holds is reused)
    MaxAcks,        \* bound: acknowledge requests in flight
    MaxRestarts,    \* bound: restarts of the backend
    MaxChanges      \* bound: conditions that change during one cycle

HostRules == {"host_down_syslog", "multi_host_down", "integration_host", "port_error"}
LogRules == {"syslog_spike", "log_anomaly", "fleet_wide", "severity_trend",
             "content_anomaly", "precursor_observed"}
NeedsOffline == {"host_down_syslog", "multi_host_down", "integration_host"}

(* What can be observed of the outside: a host has failed min_failures     *)
(* pings, is in maintenance, logs errors, fails a service check; the       *)
(* latest snapshot of an integration failed; a log rule's query matches a  *)
(* signal; the disk is over the warning limit.                             *)
Down(h) == <<"down", h>>
Maint(h) == <<"maint", h>>
Errors(h) == <<"errors", h>>
PortError(h) == <<"port", h>>
SnapFailed(i) == <<"snap", i>>
Matching(s) == <<"signal", s>>
DiskFull == <<"disk", "full">>

AllConditions ==
    {Down(h) : h \in Hosts} \cup {Maint(h) : h \in Hosts} \cup {Errors(h) : h \in Hosts}
    \cup {PortError(h) : h \in Hosts} \cup {SnapFailed(i) : i \in Integrations}
    \cup {Matching(s) : s \in Signals} \cup {DiskFull}

ASSUME ConstantsAssumption ==
    /\ Parent \in [Hosts -> Hosts \cup {NoParent}] /\ NoParent \notin Hosts
    /\ HostOf \in [Integrations -> Hosts]
    /\ IsFiniteSet(Hosts) /\ IsFiniteSet(Integrations)
    /\ \A s \in Signals : s.job \in LogRules /\ s.hosts \in SUBSET Hosts
    /\ RuleSeq \in Seq(HostRules \cup LogRules)
    /\ \A m, n \in 1..Len(RuleSeq) : RuleSeq[m] = RuleSeq[n] => m = n
    /\ Conditions \subseteq AllConditions
    /\ MinCycles \in Nat \ {0} /\ ResolveAfter \in Nat \ {0} /\ MaxDelay \in Nat \ {0}
    /\ MaxAcks \in Nat /\ MaxRestarts \in Nat /\ MaxChanges \in Nat

VARIABLES
    world,      \* the conditions that hold now
    inc,        \* the incidents table
    hits,       \* _rule_hit_counts (absent = 0; counted up to MinCycles)
    seen,       \* _current_cycle_hits
    phase,      \* where run_correlation is
    pos,        \* the next rule of RuleSeq
    known,      \* the offline-host lookup of this cycle succeeded
    offline,    \* offline_hosts, computed once per cycle
    allOk,      \* all_ok
    toResolve,  \* incidents _auto_resolve decided to resolve, not committed yet
    acking,     \* incidents an acknowledge request has read and not written yet
    restarts,
    changed     \* auxiliary: conditions that changed since the cycle began

vars == <<world, inc, hits, seen, phase, pos, known, offline, allOk, toResolve, acking,
          restarts, changed>>
cycle == <<phase, pos, known, offline, allOk, toResolve>>

-----------------------------------------------------------------------------
(* Streak keys and incident keys.                                          *)

HostStreak(rule, S) == [rule |-> rule, subject |-> "", hosts |-> S]
SignalStreak(s) == [rule |-> s.rule, subject |-> s.subject, hosts |-> s.hosts]
StreakKeys ==
    [rule : {"host_down_syslog", "integration_host", "port_error"}, subject : {""},
     hosts : {{h} : h \in Hosts}]
    \cup [rule : {"multi_host_down", "upstream_failure"}, subject : {""}, hosts : SUBSET Hosts]
    \cup {SignalStreak(s) : s \in Signals}
KeyOf(k) == [rule |-> k.rule, hosts |-> k.hosts]
DiskKey == [rule |-> "disk_space", hosts |-> {}]
IncidentKeys == {KeyOf(k) : k \in StreakKeys} \cup {DiskKey}
TimeoutRules == {s.rule : s \in Signals}

(* Every log rule has incident rules of its own.                           *)
ASSUME SignalsAssumption ==
    /\ \A s \in Signals : s.rule \notin HostRules \cup {"upstream_failure", "disk_space"}
    /\ \A s, t \in Signals : s.rule = t.rule => s.job = t.job

NoIncident == [key |-> DiskKey, status |-> "none", age |-> 0]
Statuses == {"none", "open", "acknowledged", "resolved"}
Incident == [key : IncidentKeys, status : Statuses, age : 0..ResolveAfter]

Live(i) == inc[i].status \in {"open", "acknowledged"}
(* Mutant: the status filter of the lookup forgets "open".                 *)
LiveRows_Acknowledged(k) == {i \in Ids : inc[i].status = "acknowledged" /\ inc[i].key = k}
LiveRows(k) == {i \in Ids : Live(i) /\ inc[i].key = k}
(* A resolved row is written again only by a request that already holds it *)
(* (a late acknowledge, the commit of _auto_resolve); any other one may    *)
(* leave the model and its id stand for a new incident.                    *)
Resolved(i) == IF i \in acking THEN [inc[i] EXCEPT !.status = "resolved", !.age = 0]
               ELSE NoIncident
Free(i) == ~Live(i) /\ i \notin acking \cup toResolve

-----------------------------------------------------------------------------
(* Offline hosts and the topology filter.                                  *)

InMaintenance(h) == Maint(h) \in world
OfflineNow == {h \in Hosts : Down(h) \in world /\ ~InMaintenance(h)}

(* get_ancestors: parent, grandparent, ...; a parent cycle ends the walk,  *)
(* so the ancestors are the least set closed under Parent.                 *)
Ancestors(h) ==
    {a \in Hosts : \A S \in SUBSET Hosts :
        /\ Parent[h] \in S \cup {NoParent}
        /\ \A b \in S : Parent[b] \in S \cup {NoParent}
        => a \in S}
Cascaded(S) == {h \in S : Ancestors(h) \cap S # {}}
Primary(S) == S \ Cascaded(S)

-----------------------------------------------------------------------------
(* The streaks a rule hits in this cycle.                                  *)

HostDownSyslogHits ==
    {HostStreak("host_down_syslog", {h}) :
        h \in {g \in Primary(offline) : Errors(g) \in world}}
    \cup (IF Cascaded(offline) = {} THEN {}
          ELSE {HostStreak("upstream_failure", Cascaded(offline))})

SubnetGroups == {{h \in Primary(offline) : Subnet[h] = Subnet[g]} : g \in Primary(offline)}
MultiHostDownHits ==
    LET big == {G \in SubnetGroups : Cardinality(G) >= 3}
        rest == Primary(offline) \ UNION big
    IN  {HostStreak("multi_host_down", G) :
            G \in big \cup (IF Cardinality(rest) >= 3 THEN {rest} ELSE {})}

FailedOn(h) == {i \in Integrations : SnapFailed(i) \in world /\ HostOf[i] = h}
IntegrationHostHits ==
    {HostStreak("integration_host", {h}) : h \in {g \in offline : FailedOn(g) # {}}}

PortErrorHits ==
    {HostStreak("port_error", {h}) :
        h \in {g \in Hosts : PortError(g) \in world /\ ~InMaintenance(g)}}

SignalHits(job) ==
    {SignalStreak(s) : s \in {t \in Signals : t.job = job /\ Matching(t) \in world}}

Hits(job) ==
    CASE job = "host_down_syslog" -> HostDownSyslogHits
      [] job = "multi_host_down"  -> MultiHostDownHits
      [] job = "integration_host" -> IntegrationHostHits
      [] job = "port_error"       -> PortErrorHits
      [] OTHER                    -> SignalHits(job)

(* How often a rule calls _track_rule_hit for one key in one cycle: the    *)
(* integration rule does so once per failing integration of the host.      *)
Times(k) ==
    IF k.rule = "integration_host"
    THEN Cardinality(UNION {FailedOn(h) : h \in k.hosts})
    ELSE 1

-----------------------------------------------------------------------------
(* _track_rule_hit for every key of K, and what it answers.                *)

Saturate(n) == IF n > MinCycles THEN MinCycles ELSE n
Counted(K) == [k \in StreakKeys |-> IF k \in K THEN Saturate(hits[k] + Times(k)) ELSE hits[k]]
Fires(K) == {k \in K : hits[k] + Times(k) >= MinCycles}

(* _find_or_create_incident for the keys of K, in one transaction.  It     *)
(* raises when a key has several live rows (scalar_one_or_none).           *)
Lookup(K) == \A k \in K : Cardinality(LiveRows(k)) <= 1
(* Mutant: an incident that is found is not touched (updated_at stays).    *)
FindOrCreate_Untouched(K) ==
    LET new == {k \in K : LiveRows(k) = {}}
    IN  \E row \in [new -> {i \in Ids : Free(i)}] :
            /\ \A a, b \in new : row[a] = row[b] => a = b
            /\ inc' = [i \in Ids |->
                 IF \E k \in new : row[k] = i
                 THEN [key |-> CHOOSE k \in new : row[k] = i, status |-> "open", age |-> 0]
                 ELSE inc[i]]
FindOrCreate(K) ==
    LET new == {k \in K : LiveRows(k) = {}}
    IN  \E row \in [new -> {i \in Ids : Free(i)}] :
            /\ \A a, b \in new : row[a] = row[b] => a = b
            /\ inc' = [i \in Ids |->
                 IF \E k \in new : row[k] = i
                 THEN [key |-> CHOOSE k \in new : row[k] = i, status |-> "open", age |-> 0]
                 ELSE IF Live(i) /\ inc[i].key \in K THEN [inc[i] EXCEPT !.age = 0]
                 ELSE inc[i]]

-----------------------------------------------------------------------------
(* run_correlation.                                                        *)

(* updated_at is read for the log rules only.                              *)
Aged(d) ==
    [i \in Ids |-> IF Live(i) /\ inc[i].key.rule \in TimeoutRules
                   THEN [inc[i] EXCEPT !.age = IF @ + d > ResolveAfter THEN ResolveAfter ELSE @ + d]
                   ELSE inc[i]]

(* Mutant: a failed lookup passes for "nobody is offline".                 *)
StartCycle_NobodyOffline ==
    /\ phase = "idle"
    /\ \E d \in 1..MaxDelay : inc' = Aged(d)
    /\ \E ok \in BOOLEAN : offline' = IF ok THEN OfflineNow ELSE {}
    /\ known' = TRUE /\ allOk' = TRUE
    /\ phase' = "rules"
    /\ pos' = 1
    /\ changed' = {}
    /\ UNCHANGED <<world, hits, seen, toResolve, acking, restarts>>

(* A minute or more after the last cycle, look the offline hosts up.       *)
StartCycle ==
    /\ phase = "idle"
    /\ \E d \in 1..MaxDelay : inc' = Aged(d)
    /\ \E ok \in BOOLEAN :
        /\ known' = ok
        /\ allOk' = ok
        /\ offline' = IF ok THEN OfflineNow ELSE {}
    /\ phase' = "rules"
    /\ pos' = 1
    /\ changed' = {}
    /\ UNCHANGED <<world, hits, seen, toResolve, acking, restarts>>

NextRule == phase = "rules" /\ pos <= Len(RuleSeq)
Runs(job) == job \in NeedsOffline => known

(* A rule without the offline set it needs is skipped.                     *)
SkipRule ==
    /\ NextRule
    /\ ~Runs(RuleSeq[pos])
    /\ pos' = pos + 1
    /\ UNCHANGED <<world, inc, hits, seen, phase, known, offline, allOk, toResolve, acking, restarts, changed>>

(* The rule runs and its transaction commits.                              *)
RunRule ==
    /\ NextRule
    /\ Runs(RuleSeq[pos])
    /\ LET K == Hits(RuleSeq[pos])
           fired == {KeyOf(k) : k \in Fires(K)}
       IN  /\ Lookup(fired)
           /\ FindOrCreate(fired)
           /\ hits' = Counted(K)
           /\ seen' = seen \cup K
    /\ pos' = pos + 1
    /\ UNCHANGED <<world, phase, known, offline, allOk, toResolve, acking, restarts, changed>>

(* Mutants: a failed rule does not make the cycle incomplete; it is tried  *)
(* again in the same cycle.                                                *)
RuleFails_CycleStaysOk ==
    /\ NextRule
    /\ Runs(RuleSeq[pos])
    /\ pos' = pos + 1
    /\ UNCHANGED <<world, inc, hits, seen, phase, known, offline, allOk, toResolve, acking, restarts, changed>>
RuleFails_Retried ==
    /\ NextRule
    /\ Runs(RuleSeq[pos])
    /\ \E K \in SUBSET Hits(RuleSeq[pos]) :
        /\ hits' = Counted(K)
        /\ seen' = seen \cup K
    /\ allOk' = FALSE
    /\ UNCHANGED <<world, inc, phase, pos, known, offline, toResolve, acking, restarts, changed>>

(* The rule raises after counting some of its keys: the transaction rolls  *)
(* back, the counters in memory do not.                                    *)
RuleFails ==
    /\ NextRule
    /\ Runs(RuleSeq[pos])
    /\ \E K \in SUBSET Hits(RuleSeq[pos]) :
        /\ hits' = Counted(K)
        /\ seen' = seen \cup K
    /\ allOk' = FALSE
    /\ pos' = pos + 1
    /\ UNCHANGED <<world, inc, phase, known, offline, toResolve, acking, restarts, changed>>

(* The precursor rule logs a failed ClickHouse query and returns as if it  *)
(* had run and matched nothing.                                            *)
PrecursorQueryFails ==
    /\ NextRule
    /\ RuleSeq[pos] = "precursor_observed"
    /\ pos' = pos + 1
    /\ UNCHANGED <<world, inc, hits, seen, phase, known, offline, allOk, toResolve, acking, restarts, changed>>

(* The locals of run_correlation go out of scope.                          *)
Idle ==
    /\ phase' = "idle" /\ pos' = 1
    /\ known' = FALSE /\ offline' = {} /\ allOk' = FALSE
    /\ toResolve' = {} /\ changed' = {}

(* Mutants: a missed cycle costs one hit; every cycle starts from nothing. *)
Pruned_Decay == [k \in StreakKeys |-> IF k \in seen THEN hits[k] ELSE hits[k] - 1]
Pruned_All == [k \in StreakKeys |-> 0]
Pruned == [k \in StreakKeys |-> IF k \in seen THEN hits[k] ELSE 0]

(* Mutant: prune after every cycle.                                        *)
EndCycle_AlwaysPrunes(ok) == hits' = Pruned /\ seen' = {} /\ Idle

(* End of the cycle: prune after a complete one, else only forget what was *)
(* seen.                                                                   *)
EndCycle(ok) ==
    /\ hits' = IF ok THEN Pruned ELSE hits
    /\ seen' = {}
    /\ Idle

(* Mutants: three hosts still offline are few enough; a host that is back  *)
(* but still logs errors counts as down.                                   *)
Resolvable_ThreeDown(i) ==
    inc[i].key.rule = "multi_host_down" => Cardinality(offline) <= 3
Resolvable_NoErrorsLeft(i) ==
    ~\E h \in Hosts : inc[i].key.hosts = {h} /\ Errors(h) \in world

(* The incidents _auto_resolve lets go: those of a log rule after ten      *)
(* quiet minutes, those of a host rule when the rule's own test of the     *)
(* offline hosts says so, every other one at once.                         *)
Resolvable(i) ==
    LET r == inc[i].key.rule
        H == inc[i].key.hosts
    IN  CASE r \in TimeoutRules -> inc[i].age >= ResolveAfter
          [] r = "host_down_syslog" -> ~\E h \in offline : H = {h} /\ Errors(h) \in world
          [] r = "multi_host_down" -> Cardinality(offline) < 3
          [] r = "integration_host" -> ~\E h \in offline : H = {h}
          [] r = "port_error" -> ~\E h \in Hosts : H = {h} /\ PortError(h) \in world
          [] OTHER -> TRUE

(* After the rules: integration orphans (own transaction, see              *)
(* IntegrationAlerts), then _auto_resolve reads the live incidents.        *)
AutoResolve ==
    /\ phase = "rules" /\ pos > Len(RuleSeq) /\ known
    /\ \E orphansOk \in BOOLEAN : allOk' = (allOk /\ orphansOk)
    /\ toResolve' = {i \in Ids : Live(i) /\ Resolvable(i)}
    /\ phase' = "resolving"
    /\ UNCHANGED <<world, inc, hits, seen, pos, known, offline, acking, restarts, changed>>

SkipAutoResolve ==
    /\ phase = "rules" /\ pos > Len(RuleSeq) /\ ~known
    /\ EndCycle(FALSE)
    /\ UNCHANGED <<world, inc, acking, restarts>>

AutoResolveCommits ==
    /\ phase = "resolving"
    /\ inc' = [i \in Ids |-> IF i \in toResolve THEN Resolved(i) ELSE inc[i]]
    /\ EndCycle(allOk)
    /\ UNCHANGED <<world, acking, restarts>>

AutoResolveFails ==
    /\ phase = "resolving"
    /\ EndCycle(FALSE)
    /\ UNCHANGED <<world, inc, acking, restarts>>

-----------------------------------------------------------------------------
(* The API, the disk job, restarts and the world.                          *)

(* acknowledge_incident reads the row and refuses a resolved one ...       *)
AckRead(i) ==
    /\ inc[i].status = "open" /\ i \notin acking
    /\ Cardinality(acking) < MaxAcks
    /\ acking' = acking \cup {i}
    /\ UNCHANGED <<world, inc, hits, seen, cycle, restarts, changed>>

(* ... and commits the new status later, whatever happened in between.     *)
AckWrite(i) ==
    /\ i \in acking
    /\ inc' = [inc EXCEPT ![i].status = "acknowledged", ![i].age = 0]
    /\ acking' = acking \ {i}
    /\ UNCHANGED <<world, hits, seen, cycle, restarts, changed>>

(* An acknowledged incident is acknowledged again: the status column is     *)
(* not written, only updated_at.                                           *)
AckAgain(i) ==
    /\ inc[i].status = "acknowledged"
    /\ inc' = [inc EXCEPT ![i].age = 0]
    /\ UNCHANGED <<world, hits, seen, cycle, acking, restarts, changed>>

(* resolve_incident takes any incident, resolved ones too (then it only    *)
(* adds an event).                                                         *)
UserResolve(i) ==
    /\ Live(i)
    /\ inc' = [inc EXCEPT ![i] = Resolved(i)]
    /\ UNCHANGED <<world, hits, seen, cycle, acking, restarts, changed>>

(* Mutant: the disk job inserts without looking for a live incident.       *)
DiskCheck_NoLookup ==
    /\ DiskFull \in world
    /\ \E i \in Ids : /\ Free(i)
                      /\ inc' = [inc EXCEPT ![i] = [key |-> DiskKey, status |-> "open", age |-> 0]]
    /\ UNCHANGED <<world, hits, seen, cycle, acking, restarts, changed>>

(* _disk_space_incident.                                                   *)
DiskCheck ==
    LET old == {i \in Ids : Live(i) /\ inc[i].key.rule = "disk_space"}
    IN  /\ \/ /\ DiskFull \notin world /\ old # {}
              /\ \E i \in old : inc' = [inc EXCEPT ![i] = Resolved(i)]
           \/ /\ DiskFull \in world /\ old # {}
              /\ \E i \in old : inc' = [inc EXCEPT ![i].age = 0]
           \/ /\ DiskFull \in world /\ old = {}
              /\ \E i \in Ids : /\ Free(i)
                                /\ inc' = [inc EXCEPT ![i] = [key |-> DiskKey, status |-> "open", age |-> 0]]
        /\ UNCHANGED <<world, hits, seen, cycle, acking, restarts, changed>>

(* The streaks and every request in flight are lost, the table is not.     *)
Restart ==
    /\ restarts < MaxRestarts
    /\ restarts' = restarts + 1
    /\ hits' = [k \in StreakKeys |-> 0]
    /\ seen' = {}
    /\ acking' = {}
    /\ Idle
    /\ UNCHANGED <<world, inc>>

WorldChanges(c) ==
    /\ world' = IF c \in world THEN world \ {c} ELSE world \cup {c}
    /\ changed' = IF phase = "idle" THEN {} ELSE changed \cup {c}
    /\ Cardinality(changed') <= MaxChanges
    /\ UNCHANGED <<inc, hits, seen, cycle, acking, restarts>>

Init ==
    /\ world = {}
    /\ inc = [i \in Ids |-> NoIncident]
    /\ hits = [k \in StreakKeys |-> 0]
    /\ seen = {}
    /\ phase = "idle" /\ pos = 1
    /\ known = FALSE /\ offline = {} /\ allOk = FALSE
    /\ toResolve = {} /\ acking = {}
    /\ restarts = 0
    /\ changed = {}

Next ==
    \/ StartCycle \/ SkipRule \/ RunRule \/ RuleFails \/ PrecursorQueryFails
    \/ AutoResolve \/ SkipAutoResolve \/ AutoResolveCommits \/ AutoResolveFails
    \/ \E i \in Ids : AckRead(i) \/ AckWrite(i) \/ AckAgain(i) \/ UserResolve(i)
    \/ DiskCheck \/ Restart
    \/ \E c \in Conditions : WorldChanges(c)

Spec == Init /\ [][Next]_vars

(* The scheduler starts a cycle every minute and a cycle runs to its end;  *)
(* a lookup, a rule or a commit that is tried again and again does not     *)
(* fail for ever; a request in flight ends.                                *)
Fairness ==
    /\ SF_vars(StartCycle /\ known')
    /\ WF_vars(SkipRule \/ RunRule \/ RuleFails)
    /\ \A n \in 1..Len(RuleSeq) : SF_vars(RunRule /\ pos = n)
    /\ WF_vars(AutoResolve) /\ WF_vars(SkipAutoResolve)
    /\ SF_vars(AutoResolveCommits)
    /\ \A i \in Ids : WF_vars(AckWrite(i))
FairSpec == Spec /\ Fairness

-----------------------------------------------------------------------------
(* Properties.                                                             *)

TypeOK ==
    /\ world \subseteq Conditions /\ changed \subseteq Conditions
    /\ inc \in [Ids -> Incident]
    /\ hits \in [StreakKeys -> 0..MinCycles]
    /\ seen \subseteq StreakKeys
    /\ phase \in {"idle", "rules", "resolving"}
    /\ pos \in 1..Len(RuleSeq) + 1
    /\ known \in BOOLEAN /\ allOk \in BOOLEAN
    /\ offline \subseteq Hosts
    /\ toResolve \subseteq Ids /\ acking \subseteq Ids
    /\ restarts \in 0..MaxRestarts

(* A problem is announced once: two rows of the same rule and hosts are    *)
(* never both "open" (_find_or_create_incident looks the key up before it  *)
(* inserts; no constraint of the table enforces it).                       *)
OpenUnique ==
    \A i, j \in Ids :
        inc[i].status = "open" /\ inc[j].status = "open" /\ inc[i].key = inc[j].key => i = j

(* The condition did not hold, or held, at some moment of the cycle.       *)
WasAbsent(c) == c \notin world \/ c \in changed
WasPresent(c) == c \in world \/ c \in changed
WasOnline(h) == WasAbsent(Down(h)) \/ WasPresent(Maint(h))

(* What may end a streak: at some moment of the cycle the rule could not   *)
(* have matched its key.                                                   *)
CouldMiss(k) ==
    CASE k.rule = "host_down_syslog" ->
            \E h \in k.hosts : \/ WasOnline(h) \/ WasAbsent(Errors(h))
                               \/ \E a \in Ancestors(h) : WasPresent(Down(a))
      [] k.rule = "integration_host" ->
            \E h \in k.hosts : \/ WasOnline(h)
                               \/ \A i \in Integrations : HostOf[i] = h => WasAbsent(SnapFailed(i))
      [] k.rule = "port_error" ->
            \E h \in k.hosts : WasAbsent(PortError(h)) \/ WasPresent(Maint(h))
      [] k.rule \in TimeoutRules ->
            \E s \in Signals : SignalStreak(s) = k /\ WasAbsent(Matching(s))
      [] OTHER -> TRUE

PrecursorStreak(k) == \E s \in Signals : SignalStreak(s) = k /\ s.job = "precursor_observed"
StreakEnds(k) == hits[k] > 0 /\ hits'[k] = 0 /\ restarts' = restarts

(* A cycle that could not look (a failed query, a rolled-back rule, an     *)
(* unknown offline set) never ends a streak: run_correlation prunes only   *)
(* after a complete cycle.                                                 *)
StreakEndsHonestly ==
    [][\A k \in StreakKeys : StreakEnds(k) /\ ~PrecursorStreak(k) => CouldMiss(k)]_vars

(* The same of the learned-precursor streaks.                              *)
PrecursorStreakEndsHonestly ==
    [][\A k \in StreakKeys : StreakEnds(k) /\ PrecursorStreak(k) => CouldMiss(k)]_vars

(* One cycle counts once towards the min_cycles consecutive runs of        *)
(* _track_rule_hit, also when the rule matched before it failed.  Not so   *)
(* for integration_host: two failing integrations of a host count twice.   *)
CountsOnce(k) == hits'[k] <= hits[k] + 1 /\ (k \in seen => hits'[k] <= hits[k])
OneHitPerCycle ==
    [][\A k \in StreakKeys : k.rule # "integration_host" => CountsOnce(k)]_vars

(* The engine, not a person, resolves incident i.                          *)
AutoResolved(i) == phase = "resolving" /\ i \in toResolve /\ Live(i)
                   /\ inc'[i].status \in {"none", "resolved"} /\ phase' = "idle" /\ restarts' = restarts

(* An incident of hosts is auto-resolved only if at some moment of the     *)
(* cycle the hosts were fine: not after a failed offline lookup, not from  *)
(* what an earlier cycle saw.                                              *)
Recovered(k) ==
    CASE k.rule = "host_down_syslog" -> \A h \in k.hosts : WasOnline(h) \/ WasAbsent(Errors(h))
      [] k.rule = "integration_host" -> \A h \in k.hosts : WasOnline(h)
      [] k.rule = "port_error" -> \A h \in k.hosts : WasAbsent(PortError(h))
      [] k.rule = "multi_host_down" -> Cardinality({h \in Hosts : ~WasOnline(h)}) < 3
      [] OTHER -> TRUE
ResolvedHonestly == [][\A i \in Ids : AutoResolved(i) => Recovered(inc[i].key)]_vars

(* "Auto-resolve incidents where all affected hosts are back online", for  *)
(* the rules _auto_resolve has no case for: the hosts behind a failed      *)
(* upstream device are back, the disk is no longer full.                   *)
OthersResolvedHonestly ==
    [][\A i \in Ids : AutoResolved(i) =>
            /\ inc[i].key.rule = "upstream_failure" => \A h \in inc[i].key.hosts : WasOnline(h)
            /\ inc[i].key = DiskKey => WasAbsent(DiskFull)]_vars

(* "error rate returned to normal": a complete cycle that counted a        *)
(* confirmed streak does not time out the incident of that streak; the     *)
(* rules refresh it before _auto_resolve looks.                            *)
QuietResolvedHonestly ==
    [][\A i \in Ids : AutoResolved(i) /\ inc[i].key.rule \in TimeoutRules /\ allOk =>
            ~\E k \in seen : KeyOf(k) = inc[i].key /\ hits[k] >= MinCycles]_vars

SyslogKey(h) == [rule |-> "host_down_syslog", hosts |-> {h}]

(* A host that stays down with syslog errors, out of maintenance and not   *)
(* behind a failed parent, keeps an incident coming, whatever fails in     *)
(* between.                                                                *)
OutageReported ==
    \A h \in Hosts :
        <>[](/\ h \in Primary(OfflineNow) /\ Errors(h) \in world)
            => []<>(LiveRows(SyslogKey(h)) # {})

(* A host that stays up has, in the end, no incident left.                 *)
RecoveryResolves ==
    \A h \in Hosts :
        <>[](Down(h) \notin world) => <>[](LiveRows(SyslogKey(h)) = {})

=============================================================================
