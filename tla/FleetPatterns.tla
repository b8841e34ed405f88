----------------------------- MODULE FleetPatterns -----------------------------
(***************************************************************************)
(* Log templates that turn up on several hosts at once                     *)
(* (detect_fleet_patterns of services/log_intelligence.py, the rule of     *)
(* services/correlation.py that reports them) and the noise scores that    *)
(* keep chatter out (compute_noise_score, refresh_noise_scores).  The      *)
(* detection keeps a row for every such template and commits it; it hands  *)
(* a template to the rule when it makes the row, not while the row stays   *)
(* active.  The rule asks for MinCycles cycles in a row, and all templates *)
(* share one incident.                                                     *)
(***************************************************************************)
EXTENDS Integers, FiniteSets

CONSTANTS
    Templates,
    Sources,        \* hosts that send
    MinHosts,       \* hosts that make a template fleet-wide
    MinCycles,      \* correlation_min_cycles
    Quiet,          \* how long an incident lives without news
    Expiry,         \* how long a row stays active without being checked
    MaxTime, MaxFaults

VARIABLES
    now,            \* in units of the ten minutes for which a message counts
    sent,           \* template -> hosts that sent it in this unit
    daily,          \* templates that were as widespread a day ago
    trait,          \* template -> how often it comes, its tags, its age, whether it is a precursor
    score,          \* noise_score as stored
    row,            \* template -> its fleet_patterns row that counts, and when it was checked
    cycle,          \* how far the cycle is, the templates it saw and those handed to the rule
    hits,           \* _rule_hit_counts
    incident,       \* open or not, and when it was refreshed
    told,           \* templates an incident was about
    seen,           \* template -> complete cycles in a row in which it was fleet-wide
    lost,           \* handed to a rule that did not commit
    faults

vars == <<now, sent, daily, trait, score, row, cycle, hits, incident, told, seen, lost, faults>>
Never == 0
NoRow == [active |-> FALSE, checked |-> Never]
Idle == [at |-> "idle", wide |-> {}, issues |-> {}]
NoiseMax == 70      \* FLEET_NOISE_MAX
Traits == [rate : {"rare", "some", "more", "much", "busy"}, tags : SUBSET {"cron", "security", "database", "service"}, age : {"hour", "day", "old"}, precursor : BOOLEAN]
Plain == [rate |-> "some", tags |-> {}, age |-> "old", precursor |-> FALSE]
Shown == {[Plain EXCEPT !.rate = "busy"], [Plain EXCEPT !.rate = "busy", !.precursor = TRUE]}   \* bound: what a template becomes

(* compute_noise_score, as refresh_noise_scores calls it: no severity.     *)
Clamp(n) == IF n < 0 THEN 0 ELSE IF n > 100 THEN 100 ELSE n
RatePart(rate) == CASE rate = "busy" -> 30 [] rate = "much" -> 20 [] rate = "more" -> 10 [] rate = "some" -> 0 [] rate = "rare" -> -10
TagPart(tags) ==
    (IF "security" \in tags THEN -15 ELSE 0) + (IF "database" \in tags THEN -10 ELSE 0) + (IF "service" \in tags THEN -5 ELSE 0)
    + (IF "cron" \in tags THEN 5 ELSE 0) + (IF Cardinality(tags) >= 3 THEN -10 ELSE 0)
AgePart(age) == CASE age = "hour" -> -25 [] age = "day" -> -10 [] age = "old" -> 0
Score_NoBonus(x) == Clamp(50 + RatePart(x.rate) + TagPart(x.tags) + AgePart(x.age))
Score(x) == Clamp(50 + RatePart(x.rate) + TagPart(x.tags) + AgePart(x.age) + (IF x.precursor THEN -30 ELSE 0))

Init ==
    /\ now = 1 /\ sent = [t \in Templates |-> {}]
    /\ daily \in SUBSET Templates
    /\ trait = [t \in Templates |-> Plain]
    /\ score = [t \in Templates |-> 50]
    /\ row = [t \in Templates |-> NoRow]
    /\ cycle = Idle /\ hits = [t \in Templates |-> 0]
    /\ incident = [open |-> FALSE, at |-> Never] /\ told = {}
    /\ seen = [t \in Templates |-> 0] /\ lost = {} /\ faults = 0

(* The hosts send; time passes; a template's traffic or age changes, or it *)
(* becomes a precursor.                                                    *)
Send(t, h) ==
    /\ cycle = Idle
    /\ sent' = [sent EXCEPT ![t] = @ \cup {h}]
    /\ UNCHANGED <<now, daily, trait, score, row, cycle, hits, incident, told, seen, lost, faults>>
Tick ==
    /\ cycle = Idle /\ now < MaxTime /\ now' = now + 1
    /\ sent' = [t \in Templates |-> {}]
    /\ UNCHANGED <<daily, trait, score, row, cycle, hits, incident, told, seen, lost, faults>>
Change(t, x) ==
    /\ cycle = Idle /\ faults < MaxFaults /\ faults' = faults + 1
    /\ trait' = [trait EXCEPT ![t] = x]
    /\ UNCHANGED <<now, sent, daily, score, row, cycle, hits, incident, told, seen, lost>>
(* refresh_noise_scores, in the analytics job.                             *)
Rescore ==
    /\ score' = [t \in Templates |-> Score(trait[t])]
    /\ UNCHANGED <<now, sent, daily, trait, row, cycle, hits, incident, told, seen, lost, faults>>
-----------------------------------------------------------------------------
(* detect_fleet_patterns: the templates on enough hosts of late, without   *)
(* the chatter; when there is none at all, nothing else is done.           *)
Wide == {t \in Templates : Cardinality(sent[t]) >= MinHosts}
Skipped_Neutral(t) == score[t] >= 50
Skipped(t) == score[t] >= NoiseMax
Counting == {t \in Wide : ~Skipped(t)}
Fresh == {t \in Counting : ~row[t].active /\ t \notin daily}
Stale(t) == row[t].active /\ row[t].checked < now - Expiry
Checked(t) ==
    IF t \in Fresh \/ (t \in Counting /\ row[t].active) THEN [active |-> TRUE, checked |-> now]
    ELSE IF Stale(t) THEN [row[t] EXCEPT !.active = FALSE] ELSE row[t]
Detect ==
    /\ cycle = Idle
    /\ row' = IF Wide = {} THEN row ELSE [t \in Templates |-> Checked(t)]
    /\ cycle' = [at |-> "rule", wide |-> {t \in Wide \ daily : score[t] < NoiseMax}, issues |-> Fresh]
    /\ UNCHANGED <<now, sent, daily, trait, score, hits, incident, told, seen, lost, faults>>
(* _rule_fleet_wide on what it was handed, and its commit.                 *)
Hit(t) == IF t \in cycle.issues THEN hits[t] + 1 ELSE hits[t]
Reported == {t \in cycle.issues : Hit(t) >= MinCycles}
Rule ==
    /\ cycle.at = "rule"
    /\ hits' = [t \in Templates |-> Hit(t)]
    /\ incident' = IF Reported = {} THEN incident ELSE [open |-> TRUE, at |-> now]
    /\ told' = told \cup Reported
    /\ cycle' = [cycle EXCEPT !.at = "end"]
    /\ UNCHANGED <<now, sent, daily, trait, score, row, seen, lost, faults>>
(* The rule fails after the detection has committed.                       *)
RuleFails ==
    /\ cycle.at = "rule" /\ faults < MaxFaults /\ faults' = faults + 1
    /\ lost' = lost \cup cycle.issues
    /\ cycle' = [cycle EXCEPT !.at = "partial"]
    /\ UNCHANGED <<now, sent, daily, trait, score, row, hits, incident, told, seen>>
(* The end of the cycle: an incident without news is resolved, the streaks *)
(* of what was not hit end, unless the cycle was not complete.             *)
End ==
    /\ cycle.at \in {"end", "partial"}
    /\ incident' = IF incident.open /\ incident.at < now - Quiet THEN [incident EXCEPT !.open = FALSE] ELSE incident
    /\ IF cycle.at = "end"
       THEN /\ hits' = [t \in Templates |-> IF t \in cycle.issues THEN hits[t] ELSE 0]
            /\ seen' = [t \in Templates |-> IF t \in cycle.wide THEN IF seen[t] < MinCycles THEN seen[t] + 1 ELSE seen[t] ELSE 0]
       ELSE UNCHANGED <<hits, seen>>
    /\ cycle' = Idle
    /\ UNCHANGED <<now, sent, daily, trait, score, row, told, lost, faults>>
Restart ==
    /\ faults < MaxFaults /\ faults' = faults + 1
    /\ hits' = [t \in Templates |-> 0] /\ seen' = [t \in Templates |-> 0]
    /\ lost' = IF cycle.at = "rule" THEN lost \cup cycle.issues ELSE lost
    /\ cycle' = Idle
    /\ UNCHANGED <<now, sent, daily, trait, score, row, incident, told>>

Next ==
    \/ \E t \in Templates : (\E h \in Sources : Send(t, h)) \/ \E x \in Shown : Change(t, x)
    \/ Tick \/ Rescore \/ Detect \/ Rule \/ RuleFails \/ End \/ Restart
Spec == Init /\ [][Next]_vars
-----------------------------------------------------------------------------
TypeOK ==
    /\ now \in 1..MaxTime /\ daily \subseteq Templates
    /\ sent \in [Templates -> SUBSET Sources]
    /\ trait \in [Templates -> Traits] /\ score \in [Templates -> 0..100]
    /\ row \in [Templates -> [active : BOOLEAN, checked : 0..MaxTime]]
    /\ cycle \in [at : {"idle", "rule", "end", "partial"}, wide : SUBSET Templates, issues : SUBSET Templates]
    /\ hits \in [Templates -> 0..MaxTime] /\ seen \in [Templates -> 0..MinCycles]
    /\ incident \in [open : BOOLEAN, at : 0..MaxTime]
    /\ told \subseteq Templates /\ lost \subseteq Templates /\ faults \in 0..MaxFaults

(* The rule matches a template that is on enough hosts, and reports what   *)
(* it has matched for MinCycles cycles in a row: a template that was       *)
(* fleet-wide for as long has been reported, unless the rule failed on it. *)
FleetReported == \A t \in Templates : seen[t] >= MinCycles => t \in told \cup lost
(* What is new, and what is known to come before trouble, is never taken   *)
(* for chatter once the scores are refreshed, however often it comes.      *)
NewsHeard == \A x \in Traits : x.precursor \/ x.age = "hour" => Score(x) < NoiseMax
(* An active row was checked in time, unless nothing has been fleet-wide   *)
(* since: then nobody looks at the rows.                                   *)
RowsChecked == cycle.at = "end" /\ cycle.wide # {} => \A t \in Templates : row[t].active => row[t].checked >= now - Expiry
=============================================================================
