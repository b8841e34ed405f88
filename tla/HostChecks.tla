------------------------------ MODULE HostChecks ------------------------------
(* The check cycle of one host, and what the product then says about it:     *)
(*   scheduler.run_ping_checks      the cycle, its rows, its messages        *)
(*   routers/ping.py, api_v1.py     manual checks, edits, maintenance        *)
(*   agents._record_probe_results   results of a probe                       *)
(*   services/host_state.evaluate   the state every list and badge shows     *)
(* Time passes in check intervals; ages are counted up to the point where    *)
(* nothing tells them apart any more.  Failing services ("warning") are in   *)
(* PortErrors; latency and open incidents, which only tell "degraded" from   *)
(* "up", are left out.                                                       *)
EXTENDS Naturals

CONSTANTS
    Grace,        \* notify_grace_minutes, in intervals
    ResultWindow,       \* core_window_seconds and staleness_window, in intervals
    HostKinds,      \* PingHost.source: {"icmp", "agent"}
    MaxHostChanges,   \* bound: steps of operators
    MaxHostFaults     \* bound: failed ClickHouse calls and restarts

\* What the constants are assumed to be
HostChecksAssumption ==
    /\ Grace \in Nat /\ ResultWindow \in Nat \ {0}
    /\ HostKinds \subseteq {"icmp", "agent"}
    /\ MaxHostChanges \in Nat /\ MaxHostFaults \in Nat

VARIABLES
    source, up,          \* the kind of host; it answers
    enabled, probed,     \* PingHost.enabled; probe_id is set
    maint, window,       \* the manual flag; a maintenance window is active
    row,                 \* the newest ping_checks row: whether it succeeded, its age
    beat, own,           \* age of the newest report of its probe; of its own agent
    since, told,         \* _offline_since (its age), membership of _grace_notified
    cycle,               \* the cycle under way: what it read and measured
    lag,                 \* an interval has passed since it began
    changes, faults,
    said,                \* history: the last message about the host
    reached,             \* history: age of the last answer any check got
    unseen               \* history: intervals since a cycle saw it answer

hostVars == <<source, up, enabled, probed, maint, window, row, beat, own, since, told, cycle,
          lag, changes, faults, said, reached, unseen>>
host == <<source, enabled, probed, maint, window>>
memory == <<since, told>>
history == <<said, reached, unseen>>

None == "none"
Top == 2 * ResultWindow + 2                              \* ages are not told apart beyond
Age(n) == IF n < Top THEN n + 1 ELSE Top
Lower(a, b) == IF a < b THEN a ELSE b
Answer == {None, "yes", "no"}
YesNo(b) == IF b THEN "yes" ELSE "no"
NotOffline == Grace + 1                          \* the host is not in _offline_since
Idle == [busy |-> FALSE, online |-> FALSE, prev |-> None]

HostTypeOK ==
    /\ source \in HostKinds /\ up \in BOOLEAN
    /\ enabled \in BOOLEAN /\ probed \in BOOLEAN /\ window \in BOOLEAN
    /\ maint \in {"off", "on", "over"}
    /\ row \in [ok : Answer, age : 0..Top]
    /\ beat \in 0..Top /\ own \in 0..Top /\ reached \in 0..Top /\ unseen \in 0..Grace
    /\ since \in 0..Grace + 1 /\ told \in BOOLEAN
    /\ cycle \in [busy : BOOLEAN, online : BOOLEAN, prev : Answer]
    /\ lag \in BOOLEAN /\ changes \in 0..MaxHostChanges /\ faults \in 0..MaxHostFaults
    /\ said \in {None, "offline", "online"}

HostInit ==
    /\ source \in HostKinds /\ up = TRUE
    /\ enabled = TRUE /\ probed = FALSE /\ maint = "off" /\ window = FALSE
    /\ row = [ok |-> None, age |-> Top] /\ beat = Top /\ own = Top
    /\ since = NotOffline /\ told = FALSE
    /\ cycle = Idle /\ lag = FALSE /\ changes = 0 /\ faults = 0
    /\ said = None /\ reached = Top /\ unseen = Grace

-----------------------------------------------------------------------------
(* is_in_maintenance: the manual flag before its end, or an active window.  *)
InMaintenance == maint = "on" \/ window
\* core_checked, and the selection of the cycle
Watched == enabled /\ ~InMaintenance /\ ~probed

(* insert_ping_checks: the row becomes the newest unless a newer is stored.  *)
Stored(success, age) ==
    IF row.age < age THEN row ELSE [ok |-> YesNo(success), age |-> age]

(* The cycle reads the host and its newest row, which may fail, and measures. *)
Begin ==
    /\ ~cycle.busy /\ source = "icmp"
    /\ Watched
    /\ maint' = IF maint = "over" THEN "off" ELSE maint
    /\ \E prev \in {row.ok, None} :
         /\ faults' = IF prev # row.ok THEN faults + 1 ELSE faults
         /\ faults' <= MaxHostFaults
         /\ cycle' = [busy |-> TRUE, online |-> up, prev |-> prev]
    /\ lag' = FALSE
    /\ reached' = IF up THEN 0 ELSE reached
    /\ UNCHANGED <<source, up, enabled, probed, window, row, beat, own, memory, changes,
                   said, unseen>>

OfflineSince_Kept ==  \* a host that answers again stays in _offline_since
    IF since # NotOffline THEN since ELSE IF cycle.online THEN NotOffline ELSE 0
\* When the host was first seen offline, if it is
OfflineSince == IF cycle.online THEN NotOffline ELSE IF since = NotOffline THEN 0 ELSE since
\* The grace period is over and nothing was said about this outage yet
GoesOffline_Tracked ==  \* only an outage tracked since an earlier cycle
    ~cycle.online /\ ~told /\ since # NotOffline /\ since < Grace /\ OfflineSince >= Grace
GoesOffline == ~cycle.online /\ ~told /\ OfflineSince >= Grace
BackOnline == cycle.online /\ told /\ cycle.prev = "no"

(* The second half of the cycle: the row (the insert may fail), the grace    *)
(* tracking, the messages.                                                   *)
Finish ==
    /\ cycle.busy
    /\ since' = OfflineSince
    /\ told' = IF cycle.online THEN FALSE ELSE told \/ GoesOffline
    /\ said' = IF GoesOffline THEN "offline" ELSE IF BackOnline THEN "online" ELSE said
    /\ \/ row' = Stored(cycle.online, 0) /\ UNCHANGED faults
       \/ faults < MaxHostFaults /\ faults' = faults + 1 /\ UNCHANGED row
    /\ unseen' = IF cycle.online THEN 0 ELSE unseen
    /\ cycle' = Idle /\ lag' = FALSE
    /\ UNCHANGED <<up, host, beat, own, changes, reached>>

(* A cycle that leaves the host out clears an expired flag all the same.     *)
ClearExpired ==
    /\ enabled /\ maint = "over" /\ ~Watched
    /\ maint' = "off"
    /\ UNCHANGED <<source, up, enabled, probed, window, row, beat, own, memory, cycle,
                   lag, changes, faults, history>>

(* A host that is an agent is online while its agent reports.                *)
AgentCycle ==
    /\ source = "agent" /\ Watched
    /\ \/ row' = Stored(own < ResultWindow, 0) /\ UNCHANGED faults
       \/ faults < MaxHostFaults /\ faults' = faults + 1 /\ UNCHANGED row
    /\ maint' = IF maint = "over" THEN "off" ELSE maint
    /\ UNCHANGED <<source, up, enabled, probed, window, beat, own, memory, cycle, lag,
                   changes, history>>

(* _record_probe_results: a report of the probe, with a result that is up to *)
(* an interval old for a host assigned to it.                                *)
ProbeReports ==
    /\ probed
    /\ beat' = 0
    /\ \/ \E age \in {0, 1} :
            /\ row' = Stored(up, age)
            /\ reached' = IF up THEN 0 ELSE reached
       \/ UNCHANGED <<row, reached>>              \* it ran no check of this host
    /\ UNCHANGED <<up, host, own, memory, cycle, lag, changes, faults, said, unseen>>

(* The host's own agent reports: the host is up.                             *)
AgentReports ==
    /\ source = "agent" /\ up
    /\ own' = 0 /\ reached' = 0
    /\ UNCHANGED <<up, host, row, beat, memory, cycle, lag, changes, faults, said, unseen>>

-----------------------------------------------------------------------------
(* What operators do.                                                        *)
Operator == changes < MaxHostChanges /\ changes' = changes + 1

(* ping_check_now: a check outside the cycle writes the raw result.          *)
CheckNow ==
    /\ Operator
    /\ \/ row' = Stored(IF source = "agent" THEN own < ResultWindow ELSE up, 0) /\ UNCHANGED faults
       \/ faults < MaxHostFaults /\ faults' = faults + 1 /\ UNCHANGED row
    /\ reached' = IF source = "icmp" /\ up THEN 0 ELSE reached
    /\ UNCHANGED <<up, host, beat, own, memory, cycle, lag, said, unseen>>

(* toggle_ping_host, toggle_maintenance, a window's edges, probe_id.         *)
Toggle ==
    /\ Operator
    /\ \/ enabled' = ~enabled /\ UNCHANGED <<probed, maint, window>>
       \/ maint' = (IF maint = "off" THEN "on" ELSE "off") /\ UNCHANGED <<enabled, probed, window>>
       \/ maint = "on" /\ maint' = "over" /\ UNCHANGED <<enabled, probed, window>>
       \/ window' = ~window /\ UNCHANGED <<enabled, probed, maint>>
       \/ probed' = ~probed /\ UNCHANGED <<enabled, maint, window>>
    /\ beat' \in IF probed' # probed THEN {0, Top} ELSE {beat}
    /\ UNCHANGED <<source, up, own, row, memory, cycle, lag, faults, history>>

(* A restart of the backend: what the scheduler remembers is lost.           *)
Restart ==
    /\ faults < MaxHostFaults /\ faults' = faults + 1
    /\ since' = NotOffline /\ told' = FALSE
    /\ cycle' = Idle /\ lag' = FALSE
    /\ UNCHANGED <<up, host, row, beat, own, changes, history>>

(* The host comes and goes.                                                  *)
World ==
    /\ up' = ~up
    /\ UNCHANGED <<host, row, beat, own, memory, cycle, lag, changes, faults, history>>

(* An interval passes; the checks of a cycle end within one.                 *)
Tick ==
    /\ cycle.busy => ~lag
    /\ lag' = cycle.busy
    /\ row' = [row EXCEPT !.age = Age(@)]
    /\ beat' = Age(beat) /\ own' = Age(own) /\ reached' = Age(reached)
    /\ since' = IF since = NotOffline THEN since ELSE Lower(since + 1, Grace)
    /\ unseen' = Lower(unseen + 1, Grace)
    /\ UNCHANGED <<up, host, told, cycle, changes, faults, said>>

HostNext ==
    \/ Begin \/ Finish \/ ClearExpired \/ AgentCycle \/ ProbeReports \/ AgentReports
    \/ CheckNow \/ Toggle \/ Restart \/ World \/ Tick

HostSpec == HostInit /\ [][HostNext]_hostVars
(* The scheduler runs its cycle again and again, and time passes.            *)
HostFairness == WF_hostVars(Begin) /\ WF_hostVars(Finish) /\ WF_hostVars(AgentCycle) /\ WF_hostVars(Tick)
HostFairSpec == HostSpec /\ HostFairness

-----------------------------------------------------------------------------
State_AnyAge ==  \* the newest row counts, however old
    IF ~enabled THEN "disabled"
    ELSE IF InMaintenance THEN "maintenance"
    ELSE IF row.ok = None THEN "unknown"
    ELSE IF row.ok = "no" THEN "down" ELSE "up"
(* evaluate: the first rule that matches.                                    *)
State ==
    IF ~enabled THEN "disabled"
    ELSE IF InMaintenance THEN "maintenance"
    ELSE IF probed /\ beat > ResultWindow THEN "unknown"
    ELSE IF row.ok = None THEN "unknown"
    ELSE IF row.age > (IF probed THEN ResultWindow + 1 ELSE ResultWindow) THEN "unknown"
    ELSE IF row.ok = "no" THEN "down"
    ELSE "up"

(* No false green: a host shown as up has answered somebody's check, or its  *)
(* agent has reported, within the window the product allows plus the one     *)
(* interval a result may be under way - whoever checks it, however probes    *)
(* and cycles fall silent, and though checks were switched off in between.   *)
UpWasReached == State = "up" =>
    reached <= IF source = "agent" THEN 2 * ResultWindow ELSE ResultWindow + 2

(* An outage is announced only when no cycle saw the host answer during the  *)
(* grace period.                                                             *)
GraceKept == [][~told /\ told' => unseen >= Grace]_hostVars

(* A host that stays down under the core's eyes is announced.                *)
OutageAnnounced == <>[](Watched /\ source = "icmp" /\ ~up) => <>[]told

-----------------------------------------------------------------------------
(* Departures that are known.                                                *)
(* A recovery is announced after its outage was.  It is not when a manual    *)
(* check saw the host first, or the newest row could not be read.            *)
RecoveryAnnounced == [][told /\ ~told' /\ cycle.busy /\ cycle.online => said' = "online"]_hostVars

=============================================================================
