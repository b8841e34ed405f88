---------------------------- MODULE Integrations ----------------------------
(***************************************************************************)
(* Integrations from their schedule to their incidents (run_integration_   *)
(* checks of scheduler.py, services/integration_ingest.py, snapshot.py,    *)
(* integration_alerts.py, routers/integrations.py): a cycle starts a unit  *)
(* per due config, or per cluster group; units collect side by side, write *)
(* under one lock, and release the config after that.  Events edit and     *)
(* delete configs meanwhile, without that lock.                            *)
(*                                                                         *)
(* The configs are of one type other than Proxmox (whose groups fill       *)
(* themselves) and look at one device or cluster with one alert.  Source 0 *)
(* is the cluster group.                                                   *)
(***************************************************************************)
EXTENDS Naturals, FiniteSets, FiniteSetsExt

CONSTANTS
    Configs,        \* ids, positive numbers
    MinCycles,      \* ALERT_MIN_CYCLES
    MinSnapshots,   \* FAILED_MIN_SNAPSHOTS
    MaxEvents       \* bound: what admins do, changes of the device, failed writes and restarts

VARIABLES
    rev,            \* config -> config_rev; 0 is deleted
    grouped,        \* configs with the cluster group
    sealed,         \* configs whose secret cannot be decrypted
    reach, alarm, maint, \* the device: who reaches it, its alert, maintenance
    inflight,       \* _inflight_cfgs
    units,          \* units under way
    fails,          \* config -> failed snapshots in a row
    old,            \* configs whose last success is FAILED_MIN_MINUTES ago
    streak,         \* _streaks, by source
    live,           \* open incidents: <<"alert", source>>, <<"failed", config>>
    events

vars == <<rev, grouped, sealed, reach, alarm, maint, inflight, units, fails, old, streak, live, events>>
configs == <<rev, grouped, sealed>>
device == <<reach, alarm, maint>>
memory == <<inflight, units, streak>>

Exists == {c \in Configs : rev[c] > 0}
(* _source.                                                                *)
Source(c) == IF c \in grouped THEN 0 ELSE c
Event == events < MaxEvents /\ events' = events + 1
Lower(a, b) == IF a < b THEN a ELSE b
Plus(f, S) == [c \in Configs |-> IF c \in S THEN Lower(f[c] + 1, MinSnapshots) ELSE f[c]]

(* run_integration_checks: of the configs that are due, those that are not *)
(* in flight; one unit for the members of the group, one for each other.   *)
(* A config that cannot be decrypted gets its failed snapshot here.        *)
Unit(S) == [of |-> S, rev |-> [c \in S |-> rev[c]], pc |-> "collect",
            ok |-> {}, alarm |-> FALSE, accepted |-> {}, grouped |-> S \cap grouped]
(* Mutant: a config is forgotten when the budget of its cycle is over.     *)
Ready_Budget(c) == c \in Exists /\ (c \in inflight => \E u \in units : c \in u.of /\ u.pc # "collect")
Ready(c) == c \in Exists \ inflight
Cycle(due) ==
    /\ \A c \in due : Ready(c)
    /\ inflight' = inflight \cup (due \ sealed)
    /\ LET d == due \ sealed
           g == d \cap grouped
       IN units' = units \cup {Unit({c}) : c \in d \ g} \cup (IF g = {} THEN {} ELSE {Unit(g)})
    /\ fails' = Plus(fails, due \cap sealed)
    /\ UNCHANGED <<configs, device, old, streak, live, events>>
Change(u, v) == units' = (units \ {u}) \cup {v}

(* _collect_one of every member.                                           *)
Collect(u) ==
    /\ u.pc = "collect"
    /\ Change(u, [u EXCEPT !.pc = "collected", !.ok = u.of \cap reach, !.alarm = alarm])
    /\ UNCHANGED <<configs, device, inflight, fails, old, streak, live, events>>

(* ingest, under snapshot_write_lock: check_stamp on the config as it is   *)
(* now ...                                                                 *)
Accepts(u, c) == rev[c] = u.rev[c]
Check(u) ==
    /\ u.pc = "collected" /\ \A w \in units : w.pc # "write"
    /\ Change(u, [u EXCEPT !.pc = "write", !.accepted = {c \in u.of : Accepts(u, c)}])
    /\ UNCHANGED <<configs, device, inflight, fails, old, streak, live, events>>

(* ... the members in id order: the first of a group that succeeded is the *)
(* primary, the others are standby ...                                     *)
Good(u) == u.ok \cap u.accepted
Bad(u) == u.accepted \ u.ok
Primary(u) == IF Good(u) = {} THEN {} ELSE IF u.grouped = {} THEN Good(u) ELSE {Min(Good(u))}
Origin(u) == IF u.grouped = {} THEN Min(u.of) ELSE 0
(* ... record_failure, record_success ...                                  *)
FailOpens(u) ==
    {c \in Bad(u) : /\ Plus(fails, Bad(u))[c] >= MinSnapshots /\ c \in old
                    /\ (<<"failed", c>> \in live \/ ~maint)}
Failures(u) == {<<"failed", c>> : c \in FailOpens(u)}
Recovered(u) == {<<"failed", c>> : c \in Good(u)} \cap live
(* ... evaluate_alerts of the primary.                                     *)
Streak(u) == IF Primary(u) = {} THEN streak[Origin(u)]
             ELSE IF u.alarm THEN Lower(streak[Origin(u)] + 1, MinCycles) ELSE 0
Alert(u) == <<"alert", Origin(u)>>
Alerts(u) ==
    IF Primary(u) # {} /\ u.alarm /\ (Alert(u) \in live \/ (Streak(u) >= MinCycles /\ ~maint)) THEN {Alert(u)} ELSE {}
(* Mutant: an incident resolves only with its streak in memory.            *)
Cleared_Streak(u) == IF Primary(u) # {} /\ ~u.alarm /\ streak[Origin(u)] > 0 THEN {Alert(u)} \cap live ELSE {}
Cleared(u) == IF Primary(u) # {} /\ ~u.alarm THEN {Alert(u)} \cap live ELSE {}

(* The end of the write: committed; committed without the incident steps,  *)
(* whose savepoint was rolled back; or not at all.  The streaks stay.  The *)
(* channels are told and the configs are free again.                       *)
Write(u, on) ==
    /\ u.pc = "write"
    /\ IF on THEN events' = events ELSE Event
    /\ streak' = [streak EXCEPT ![Origin(u)] = Streak(u)]
    /\ fails' = [c \in Configs |-> IF c \in Good(u) THEN 0 ELSE Plus(fails, Bad(u))[c]]
    /\ old' = old \ Good(u)
    /\ live' = IF on THEN (live \ (Recovered(u) \cup Cleared(u))) \cup Failures(u) \cup Alerts(u) ELSE live
    /\ units' = units \ {u} /\ inflight' = inflight \ u.of
    /\ UNCHANGED <<configs, device>>
WriteFails(u) ==
    /\ u.pc = "write" /\ Event
    /\ streak' = [streak EXCEPT ![Origin(u)] = Streak(u)]
    /\ units' = units \ {u} /\ inflight' = inflight \ u.of
    /\ UNCHANGED <<configs, device, fails, old, live>>

(* resolve_orphans, of the correlation cycle.                              *)
Owned(i) == IF i[1] = "failed" THEN i[2] \in Exists ELSE \E c \in Exists : Source(c) = i[2]
Orphans ==
    /\ live' = {i \in live : Owned(i)} /\ live' # live
    /\ UNCHANGED <<configs, device, memory, fails, old, events>>

(* update_config: the revision is bumped, the group set or cleared.        *)
Edit(c, g) ==
    /\ Event /\ c \in Exists
    /\ rev' = [rev EXCEPT ![c] = @ + 1]
    /\ grouped' = IF g THEN grouped \cup {c} ELSE grouped \ {c}
    /\ UNCHANGED <<sealed, device, memory, fails, old, live>>
(* delete_config, with its snapshots.                                      *)
Delete(c) ==
    /\ Event /\ c \in Exists
    /\ rev' = [rev EXCEPT ![c] = 0] /\ grouped' = grouped \ {c}
    /\ fails' = [fails EXCEPT ![c] = 0] /\ old' = old \cup {c}
    /\ UNCHANGED <<sealed, device, memory, live>>
(* resolve_incident.                                                       *)
Resolve(i) ==
    /\ Event /\ i \in live /\ live' = live \ {i}
    /\ UNCHANGED <<configs, device, memory, fails, old>>

(* The process restarts.                                                   *)
Restart ==
    /\ Event
    /\ inflight' = {} /\ units' = {} /\ streak' = [s \in DOMAIN streak |-> 0]
    /\ UNCHANGED <<configs, device, fails, old, live>>
(* The device.                                                             *)
World ==
    /\ Event
    /\ \/ \E c \in Configs : reach' = (IF c \in reach THEN reach \ {c} ELSE reach \cup {c}) /\ UNCHANGED <<alarm, maint>>
       \/ alarm' = ~alarm /\ UNCHANGED <<reach, maint>>
       \/ maint' = ~maint /\ UNCHANGED <<reach, alarm>>
    /\ UNCHANGED <<configs, memory, fails, old, live>>
(* Ten minutes since the last success.                                     *)
Ages(c) ==
    /\ c \notin old /\ fails[c] > 0 /\ old' = old \cup {c}
    /\ UNCHANGED <<configs, device, memory, fails, live, events>>

Init ==
    /\ rev = [c \in Configs |-> 1] /\ grouped \in {{}, Configs}
    /\ sealed \in {{}, {Max(Configs)} \ grouped} /\ reach = Configs /\ alarm \in BOOLEAN /\ maint = FALSE
    /\ inflight = {} /\ units = {} /\ fails = [c \in Configs |-> 0] /\ old = Configs
    /\ streak = [s \in {0} \cup Configs |-> 0] /\ live = {}
    /\ events = 0
Step(u) == Collect(u) \/ Check(u) \/ Write(u, TRUE)
Next ==
    \/ \E due \in SUBSET Exists \ {{}} : Cycle(due)
    \/ \E u \in units : Step(u) \/ Write(u, FALSE) \/ WriteFails(u)
    \/ Orphans \/ Restart \/ World
    \/ \E c \in Configs : Edit(c, TRUE) \/ Edit(c, FALSE) \/ Delete(c) \/ Ages(c)
    \/ \E i \in live : Resolve(i)
    \/ Exists = {} /\ units = {} /\ UNCHANGED vars
Spec == Init /\ [][Next]_vars
(* A config becomes due again and again, a collect ends and the lock is    *)
(* handed out in turn, the correlation cycle runs, and time passes.        *)
Work(c) == \E u \in units : c \in u.of /\ Step(u)
Begin(c) == \E due \in SUBSET Exists : c \in due /\ Cycle(due)
Fairness ==
    /\ WF_vars(Orphans)
    /\ \A c \in Configs : SF_vars(Work(c)) /\ WF_vars(Begin(c)) /\ WF_vars(Ages(c))
FairSpec == Spec /\ Fairness

-----------------------------------------------------------------------------
(* Properties.                                                             *)

TypeOK ==
    /\ rev \in [Configs -> 0..(MaxEvents + 1)] /\ grouped \subseteq Configs
    /\ fails \in [Configs -> 0..MinSnapshots] /\ streak \in [{0} \cup Configs -> 0..MinCycles]
    /\ inflight \subseteq Configs /\ \A u \in units : u.of \subseteq Configs

(* A config is collected by one unit at a time, although units outlive     *)
(* their cycle.                                                            *)
PolledOnce == \A u, w \in units : u # w => u.of \cap w.of = {}

(* In the end the incidents say what is: a config that collects has no     *)
(* failure incident, one that cannot has one; the alert of a device that   *)
(* is reached is open if it is there and not if not, but for maintenance;  *)
(* and a deleted config leaves none behind.                                *)
IncidentsTrue ==
    /\ \A i \in live : Owned(i)
    /\ \A c \in Exists \ sealed :
         IF c \in reach
         THEN /\ <<"failed", c>> \notin live
              /\ ~alarm => <<"alert", Source(c)>> \notin live
              /\ alarm /\ ~maint => <<"alert", Source(c)>> \in live
         ELSE ~maint => <<"failed", c>> \in live
IncidentsSettle == []<>IncidentsTrue
=============================================================================
