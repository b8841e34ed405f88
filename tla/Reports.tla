------------------------------ MODULE Reports ------------------------------
(***************************************************************************)
(* The installation watches itself (services/self_check.py, instrument_job *)
(* of services/metrics.py, services/probes.py): data streams and probes    *)
(* that have gone quiet and jobs that no longer complete become incidents. *)
(* All of them have the same deduplication key, so there is at most one:   *)
(* it has the title of the problem it was opened for.                      *)
(*                                                                         *)
(* A replica that does not lead runs no jobs and forgets nothing; another  *)
(* one runs them meanwhile.  Time is counted in intervals of the jobs.     *)
(***************************************************************************)
EXTENDS Naturals, FiniteSets

CONSTANTS
    Streams,        \* DATA_SOURCES
    Probes,
    Jobs,
    Grace,          \* intervals without a success, JOB_GRACE_FACTOR and the windows of the data
    MaxFaults       \* bound: changes of the world, failed queries, restarts, hand-overs, resolutions

VARIABLES
    broken,         \* what does not work
    used,           \* streams in use, probes with hosts
    age,            \* intervals since the last datapoint, report or recorded success; Never
    quiet,          \* job -> intervals since any replica completed it
    reported,       \* jobs with a sample in runs_total
    due,            \* jobs that have not run in this interval
    up,             \* intervals since the process started
    leading,
    behind,         \* jobs that have not completed since the replica took over
    inc,            \* title of the live incident, or None
    faults

checkVars == <<broken, used, age, quiet, reported, due, up, leading, behind, inc, faults>>
world == <<broken, used>>
metrics == <<age, quiet, reported, due, behind>>

Keys == Streams \cup Probes \cup Jobs
Never == Grace + 2
None == <<"none", "none">>
Older(a) == IF a >= Never - 1 THEN a ELSE a + 1
Fault == faults < MaxFaults /\ faults' = faults + 1

(* evaluate_freshness, and is_stale for the probes that have hosts.        *)
StreamStale(k) == k \in Streams \cap used /\ age[k] > Grace
ProbeStale(k) == k \in Probes \cap used /\ age[k] > Grace
(* evaluate_job: since the last success, or since the start; nothing is    *)
(* said of a job that has not reported, nor right after a start.           *)
(* Mutant: the grace of a start is forgotten.                              *)
JobProblem_Cold(j) == j \in reported /\ age[j] > Grace
JobProblem(j) ==
    /\ j \in reported /\ up >= Grace
    /\ (IF age[j] = Never THEN up ELSE age[j]) > Grace
Problem(k) == (k \in Jobs /\ JobProblem(k)) \/ StreamStale(k) \/ ProbeStale(k)
Title(k) == <<k, IF age[k] = Never THEN "never" ELSE "stale">>

(* collect_problems: a query or a pass that fails leaves its problems out. *)
collect_problems(failed) == {k \in Keys \ failed : Problem(k)}
(* run_self_check: every problem finds or creates the one incident, which  *)
(* is resolved if its title is not among those seen.                       *)
Check(failed, first) ==
    LET problems == collect_problems(failed)
        opened == IF inc = None /\ problems # {} THEN Title(first) ELSE inc
    IN /\ leading
       /\ IF problems = {} THEN first = CHOOSE k \in Keys : TRUE ELSE first \in problems
       /\ inc' = IF opened \in {Title(k) : k \in problems} THEN opened ELSE None
       /\ IF failed = {} THEN faults' = faults ELSE Fault
       /\ UNCHANGED <<world, metrics, up, leading>>

(* instrument_job: a run that raised or logged an error leaves the time of *)
(* the last success alone.                                                 *)
(* Mutant: only one that raised does.                                      *)
Recorded_Degraded(j, result) == result # "failure"
Recorded(j, result) == result = "success"
Run(j, result) ==
    /\ leading /\ j \in due /\ due' = due \ {j}
    /\ (result = "success") = (j \notin broken)
    /\ reported' = reported \cup {j}
    /\ age' = IF Recorded(j, result) THEN [age EXCEPT ![j] = 0] ELSE age
    /\ quiet' = IF result = "success" THEN [quiet EXCEPT ![j] = 0] ELSE quiet
    /\ behind' = IF result = "success" THEN behind \ {j} ELSE behind
    /\ UNCHANGED <<world, up, leading, inc, faults>>

(* An interval passes: the jobs are run, streams and probes deliver.       *)
Tick ==
    /\ leading => due = {}
    /\ due' = Jobs
    /\ age' = [k \in Keys |-> IF k \notin Jobs \cup broken /\ k \in used THEN 0 ELSE Older(age[k])]
    /\ quiet' = [j \in Jobs |-> IF ~leading /\ j \notin broken THEN 0 ELSE Older(quiet[j])]
    /\ up' = IF up > Grace THEN up ELSE up + 1
    /\ UNCHANGED <<world, reported, leading, behind, inc, faults>>
World ==
    /\ Fault
    /\ \/ \E k \in Keys : broken' = (IF k \in broken THEN broken \ {k} ELSE broken \cup {k}) /\ UNCHANGED used
       \/ \E k \in Keys \ Jobs : used' = (IF k \in used THEN used \ {k} ELSE used \cup {k}) /\ UNCHANGED broken
    /\ UNCHANGED <<metrics, up, leading, inc>>
Restart ==
    /\ Fault /\ up' = 0 /\ reported' = {}
    /\ age' = [k \in Keys |-> IF k \in Jobs THEN Never ELSE age[k]]
    /\ UNCHANGED <<world, quiet, due, leading, behind, inc>>
(* The lease is lost to another replica, and taken again.                  *)
HandOver ==
    /\ Fault /\ leading' = ~leading
    /\ behind' = IF leading THEN behind ELSE Jobs
    /\ UNCHANGED <<world, age, quiet, reported, due, up, inc>>
(* resolve_incident.                                                       *)
Resolve ==
    /\ Fault /\ inc # None /\ inc' = None
    /\ UNCHANGED <<world, metrics, up, leading>>

CheckInit ==
    /\ broken = {} /\ used = Streams \cup Probes
    /\ age = [k \in Keys |-> IF k \in Jobs THEN Never ELSE 0] /\ quiet = [j \in Jobs |-> 0]
    /\ reported = {} /\ due = Jobs /\ up = 0 /\ leading = TRUE /\ behind = {}
    /\ inc = None /\ faults = 0
Checks == \E k \in Keys : Check({}, k)
CheckNext ==
    \/ \E failed \in SUBSET Keys, k \in Keys : Check(failed, k)
    \/ \E j \in Jobs, result \in {"success", "failure", "degraded"} : Run(j, result)
    \/ Tick \/ World \/ Restart \/ HandOver \/ Resolve
CheckSpec == CheckInit /\ [][CheckNext]_checkVars
(* The jobs are scheduled, the self-check is one of them, time passes; and *)
(* this replica does not stay without the lease for ever.                  *)
Runs(j) == \E result \in {"success", "failure", "degraded"} : Run(j, result)
CheckFairness ==
    /\ WF_checkVars(Tick) /\ WF_checkVars(Checks) /\ \A j \in Jobs : WF_checkVars(Runs(j))
CheckFairSpec == CheckSpec /\ CheckFairness

-----------------------------------------------------------------------------
(* Properties.                                                             *)

CheckTypeOK ==
    /\ broken \subseteq Keys /\ used \subseteq Streams \cup Probes /\ reported \subseteq Jobs /\ due \subseteq Jobs
    /\ age \in [Keys -> 0..Never] /\ quiet \in [Jobs -> 0..Never] /\ up \in 0..(Grace + 1)
    /\ inc = None \/ inc[1] \in Keys

(* An incident is opened only for what has delivered nothing for its       *)
(* grace, or for a job this replica has not completed since it took over:  *)
(* no restart, no failed query and no other problem makes one up.          *)
AlarmEarned ==
    [][inc' # None /\ inc' # inc =>
         LET k == inc'[1] IN IF k \in Jobs THEN quiet[k] > Grace \/ k \in behind ELSE age[k] > Grace /\ k \in used]_checkVars

(* What stays broken has an incident in the end, and none is left when     *)
(* everything works, although a restart empties the metrics.               *)
Wrong == \E k \in broken : k \in Jobs \cup used
Shown == leading => (Wrong <=> inc # None)
HealthShown == []<>Shown

-----------------------------------------------------------------------------
(***************************************************************************)
(* The weekly digest and the daily summary of a tenant (run_weekly_digest  *)
(* of scheduler.py, services/digest.py, ai/daily_summary.py, slot_due of   *)
(* services/tenant_jobs.py).  A tick at every full hour sends the report   *)
(* if this is the hour of its slot, then marks it as sent.  A replica that *)
(* takes over makes up for the tick it has missed in the last hour, while  *)
(* a report of the old leader may still be under way.                      *)
(*                                                                         *)
(* Hours are counted in a short period; the mark is kept as its age.       *)
(***************************************************************************)
CONSTANTS
    Replicas,
    Kinds,          \* of reports: "digest" or "daily"
    Period,         \* hours from a slot to the next
    Guard,          \* hours between two summaries, 20
    MaxReportFaults       \* bound: failures, changes of settings, crashes and hand-overs

VARIABLES
    kind,
    hour, slot,     \* the hour now, and the one the settings name
    enabled,        \* the report, and notifications
    leader,
    ticked,         \* replicas whose tick of this hour is behind them
    pc,             \* replica -> what its job is doing
    mark,           \* hours since *_last_sent, at most Period + 1
    gap,            \* hours since a report went out
    unmarked,       \* the one that went out last has not been marked
    log,            \* the result logged last
    raced,          \* a tick of this hour was decided while the old leader's report was under way
    reportFaults

reportVars == <<kind, hour, slot, enabled, leader, ticked, pc, mark, gap, unmarked, log, raced, reportFaults>>
settings == <<slot, enabled>>
Aged(n) == IF n > Period THEN n ELSE n + 1
ReportFault == reportFaults < MaxReportFaults /\ reportFaults' = reportFaults + 1
At(r, label) == pc' = [pc EXCEPT ![r] = label]

(* slot_due, and the protection of the summary against duplicates.         *)
(* Mutant: the mark is not looked at.                                      *)
SlotReached == hour = slot
Due_Again == SlotReached
DigestDue == SlotReached /\ mark > 0
SummaryDue == SlotReached /\ mark >= Guard
Due == IF kind = "digest" THEN DigestDue ELSE SummaryDue
(* There is no summary of a day on which nothing happened; a digest counts *)
(* what there is.                                                          *)
Summary(eventful) == kind = "daily" /\ eventful
Digest == kind = "digest"
(* The tick: settings and mark are read, and the data is collected.        *)
ReportTick(r, eventful) ==
    /\ leader = r /\ r \notin ticked /\ pc[r] = "idle"
    /\ ticked' = ticked \cup {r}
    /\ IF enabled /\ Due /\ (Digest \/ Summary(eventful)) THEN At(r, "send") ELSE pc' = pc
    /\ raced' = (raced \/ \E q \in Replicas : pc[q] # "idle")
    /\ UNCHANGED <<kind, hour, settings, leader, mark, gap, unmarked, log, reportFaults>>
(* The model answers and a channel takes it ...                            *)
Send(r) ==
    /\ pc[r] = "send" /\ At(r, "mark")
    /\ gap' = 0 /\ unmarked' = TRUE
    /\ log' = IF kind = "daily" THEN "sent" ELSE log
    /\ UNCHANGED <<kind, hour, settings, leader, ticked, mark, reportFaults, raced>>
(* ... or none does: logged, and not tried again before the next slot.     *)
SendFails(r) ==
    /\ pc[r] = "send" /\ ReportFault /\ At(r, "idle") /\ log' = "failed"
    /\ UNCHANGED <<kind, hour, settings, leader, ticked, mark, gap, unmarked, raced>>
Mark(r) ==
    /\ pc[r] = "mark" /\ At(r, "idle") /\ log' = "sent"
    /\ mark' = 0 /\ unmarked' = FALSE
    /\ UNCHANGED <<kind, hour, settings, leader, ticked, gap, reportFaults, raced>>
MarkFails(r) ==
    /\ pc[r] = "mark" /\ ReportFault /\ At(r, "idle")
    /\ log' = IF kind = "digest" THEN "failed" ELSE log
    /\ UNCHANGED <<kind, hour, settings, leader, ticked, mark, gap, unmarked, raced>>

(* The next full hour; a job is done by then.                              *)
Hour ==
    /\ leader \in ticked /\ \A r \in Replicas : pc[r] = "idle"
    /\ hour' = (hour + 1) % Period /\ ticked' = {}
    /\ mark' = Aged(mark) /\ gap' = Aged(gap) /\ raced' = FALSE
    /\ UNCHANGED <<kind, settings, leader, pc, unmarked, log, reportFaults>>
(* save_digest_settings, save_ai_settings.                                 *)
Save(s, on) ==
    /\ ReportFault /\ slot' = s /\ enabled' = on
    /\ UNCHANGED <<kind, hour, leader, ticked, pc, mark, gap, unmarked, log, raced>>
(* Another replica leads.                                                  *)
NewLeader(r) ==
    /\ ReportFault /\ r # leader /\ leader' = r
    /\ UNCHANGED <<kind, hour, settings, ticked, pc, mark, gap, unmarked, log, raced>>
(* A replica starts anew: its next tick is that of the next hour.          *)
Crash(r) ==
    /\ ReportFault /\ At(r, "idle") /\ ticked' = ticked \cup {r}
    /\ UNCHANGED <<kind, hour, settings, leader, mark, gap, unmarked, log, raced>>

ReportInit ==
    /\ kind \in Kinds /\ hour = 0 /\ slot = 1 /\ enabled = TRUE
    /\ leader \in Replicas /\ ticked = {} /\ pc = [r \in Replicas |-> "idle"]
    /\ mark = Period + 1 /\ gap = Period + 1 /\ unmarked = FALSE /\ log = "none" /\ raced = FALSE /\ reportFaults = 0
ReportNext ==
    \/ \E r \in Replicas : \/ \E eventful \in BOOLEAN : ReportTick(r, eventful)
                           \/ Send(r) \/ SendFails(r) \/ Mark(r) \/ MarkFails(r) \/ NewLeader(r) \/ Crash(r)
    \/ Hour \/ \E s \in 0..(Period - 1), on \in BOOLEAN : Save(s, on)
ReportSpec == ReportInit /\ [][ReportNext]_reportVars
Works(r) == ReportTick(r, TRUE) \/ Send(r) \/ Mark(r)
ReportFairness == WF_reportVars(Hour) /\ \A r \in Replicas : WF_reportVars(Works(r))
(* Something happens every day, as far as liveness is concerned.           *)
ReportFairSpec == ReportSpec /\ ReportFairness /\ \A r \in Replicas : SF_reportVars(enabled /\ Due /\ ReportTick(r, TRUE))

-----------------------------------------------------------------------------
(* Properties.                                                             *)

ReportTypeOK ==
    /\ kind \in Kinds /\ hour \in 0..(Period - 1) /\ slot \in 0..(Period - 1) /\ leader \in Replicas
    /\ ticked \subseteq Replicas /\ pc \in [Replicas -> {"idle", "send", "mark"}]
    /\ mark \in 0..(Period + 1) /\ gap \in 0..(Period + 1) /\ log \in {"none", "sent", "failed"}

(* A report goes out once in its slot, and summaries keep their distance,  *)
(* whatever the slot is moved to - unless the one before went out and was  *)
(* not marked, or was under way when a new leader decided on its own.      *)
Spaced ==
    [][\A r \in Replicas : pc[r] = "send" /\ pc'[r] = "mark" =>
         unmarked \/ raced \/ (IF kind = "digest" THEN gap > 0 ELSE gap >= Guard)]_reportVars

(* While the report is wanted it keeps going out.                          *)
KeepsComing == []<>(gap = 0 \/ ~enabled)
=============================================================================
