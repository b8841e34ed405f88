---------------------------- MODULE LogPatterns ----------------------------
(***************************************************************************)
(* The templates of a tenant's log messages (services/log_intelligence.py, *)
(* cleanup_old_results of scheduler.py): messages are counted in memory by *)
(* template, a job adds the counts to the table every 30 seconds, another  *)
(* learns which templates precede outages, a daily one deletes what has    *)
(* not been seen for long.  Each of them awaits the database, so messages  *)
(* and the other jobs come in between.                                     *)
(*                                                                         *)
(* One process and one tenant; noise scores, bursts, trends and tags are   *)
(* left out.                                                               *)
(***************************************************************************)
EXTENDS Integers, Sequences, FiniteSets, SequencesExt

CONSTANTS
    Hashes,         \* template hashes
    MaxSeen,        \* bound: messages of one template
    MaxFails,       \* bound: failed flushes
    MaxRestarts,    \* bound: restarts
    MaxPrunes       \* bound: runs of the retention

VARIABLES
    row,            \* hash -> count in log_templates; 0 is no row
    old,            \* hashes whose row is past the retention
    patterns,       \* hashes a precursor pattern refers to
    cached,         \* template_cache
    counts,         \* template_counts
    fresh,          \* new_templates
    flush,          \* the flush under way: pc, the counts and the new templates it took
    prune,          \* cleanup_old_results: idle, or about to reload the cache
    seen,           \* messages of each template since the process started
    gone,           \* ... of these, counted in rows that were deleted
    raced,          \* ... and sent to a row that was deleted while the flush was under way
    fails, restarts, prunes

templateVars == <<row, old, patterns, cached, counts, fresh, flush, prune, seen, gone, raced, fails, restarts, prunes>>

None == [h \in Hashes |-> 0]
Idle == [pc |-> "idle", counts |-> None, fresh |-> {}]
Stored == {h \in Hashes : row[h] > 0}

(* process_message.                                                        *)
Message(h) ==
    /\ seen[h] < MaxSeen /\ seen' = [seen EXCEPT ![h] = @ + 1]
    /\ counts' = [counts EXCEPT ![h] = @ + 1]
    /\ fresh' = IF h \in cached THEN fresh ELSE fresh \cup {h}
    /\ UNCHANGED <<row, old, patterns, cached, flush, prune, gone, raced, fails, restarts, prunes>>

(* flush_templates takes the counts ...                                    *)
FlushBegin ==
    /\ flush.pc = "idle" /\ (counts # None \/ fresh # {})
    /\ flush' = [pc |-> "insert", counts |-> counts, fresh |-> fresh]
    /\ counts' = None /\ fresh' = {}
    /\ UNCHANGED <<row, old, patterns, cached, prune, seen, gone, raced, fails, restarts, prunes>>
(* ... if there are any ...                                                *)
FlushNothing == flush.pc = "idle" /\ counts = None /\ fresh = {} /\ UNCHANGED templateVars
(* ... _write_template_batch upserts the new ones, which fills the cache   *)
(* before the commit ...                                                   *)
FlushInsert ==
    /\ flush.pc = "insert"
    /\ flush' = [flush EXCEPT !.pc = "commit"]
    /\ cached' = cached \cup flush.fresh
    /\ UNCHANGED <<row, old, patterns, counts, fresh, prune, seen, gone, raced, fails, restarts, prunes>>
(* ... updates the known ones, where the row exists, and commits.          *)
FlushCommit ==
    /\ flush.pc = "commit" /\ flush' = Idle
    /\ LET hit == {h \in Hashes : h \in flush.fresh \/ row[h] > 0}
       IN /\ row' = [h \in Hashes |-> IF h \in hit THEN row[h] + flush.counts[h] ELSE 0]
          /\ old' = old \ {h \in hit : flush.counts[h] > 0}
          /\ raced' = [h \in Hashes |-> IF h \in hit THEN raced[h] ELSE raced[h] + flush.counts[h]]
    /\ UNCHANGED <<patterns, cached, counts, fresh, prune, seen, gone, fails, restarts, prunes>>
(* Or it fails and everything is handed back.                              *)
(* Mutant: what came in meanwhile is overwritten.                          *)
HandBack_Overwrite == counts' = flush.counts /\ fresh' = fresh \cup flush.fresh
(* Mutant: the new templates are not handed back.                          *)
HandBack_Counts == counts' = [h \in Hashes |-> counts[h] + flush.counts[h]] /\ fresh' = fresh
HandBack ==
    /\ counts' = [h \in Hashes |-> counts[h] + flush.counts[h]]
    /\ fresh' = fresh \cup flush.fresh
FlushFails ==
    /\ flush.pc # "idle" /\ fails < MaxFails /\ fails' = fails + 1
    /\ HandBack /\ flush' = Idle
    /\ UNCHANGED <<row, old, patterns, cached, prune, seen, gone, raced, restarts, prunes>>

(* learn_precursors: a stored template of the cache is found before        *)
(* outages often enough, or cleanup_precursor_patterns drops its pattern.  *)
Learn(h) ==
    /\ h \in cached /\ h \in Stored \ patterns
    /\ patterns' = patterns \cup {h}
    /\ UNCHANGED <<row, old, cached, counts, fresh, flush, prune, seen, gone, raced, fails, restarts, prunes>>
Unlearn(h) ==
    /\ h \in patterns
    /\ patterns' = patterns \ {h}
    /\ UNCHANGED <<row, old, cached, counts, fresh, flush, prune, seen, gone, raced, fails, restarts, prunes>>

(* A template is not seen for the retention.                               *)
Ages(h) ==
    /\ h \in Stored \ old /\ prunes < MaxPrunes
    /\ old' = old \cup {h}
    /\ UNCHANGED <<row, patterns, cached, counts, fresh, flush, prune, seen, gone, raced, fails, restarts, prunes>>
(* cleanup_log_templates: what no pattern refers to, committed ...         *)
Cleanup ==
    /\ prune = "idle" /\ prunes < MaxPrunes /\ prunes' = prunes + 1
    /\ LET dead == old \ patterns
       IN /\ row' = [h \in Hashes |-> IF h \in dead THEN 0 ELSE row[h]]
          /\ gone' = [h \in Hashes |-> IF h \in dead THEN gone[h] + row[h] ELSE gone[h]]
          /\ old' = old \ dead
          /\ prune' = IF dead = {} THEN "idle" ELSE "reload"
    /\ UNCHANGED <<patterns, cached, counts, fresh, flush, seen, raced, fails, restarts>>
(* ... then load_template_cache.                                           *)
(* Mutant: the cache is left as it is.                                     *)
Reloaded_Never == cached
Reloaded == Stored
Reload ==
    /\ prune = "reload" /\ prune' = "idle"
    /\ cached' = Reloaded
    /\ UNCHANGED <<row, old, patterns, counts, fresh, flush, seen, gone, raced, fails, restarts, prunes>>

(* The process restarts: what was in memory is gone, start_syslog_server   *)
(* loads the cache.                                                        *)
Restart ==
    /\ restarts < MaxRestarts /\ restarts' = restarts + 1
    /\ cached' = Stored /\ counts' = None /\ fresh' = {} /\ flush' = Idle /\ prune' = "idle"
    /\ seen' = row /\ gone' = None /\ raced' = None
    /\ UNCHANGED <<row, old, patterns, fails, prunes>>

TemplateInit ==
    /\ row = None /\ old = {} /\ patterns = {} /\ cached = {} /\ counts = None /\ fresh = {}
    /\ flush = Idle /\ prune = "idle" /\ seen = None /\ gone = None /\ raced = None
    /\ fails = 0 /\ restarts = 0 /\ prunes = 0
TemplateNext ==
    \/ \E h \in Hashes : Message(h) \/ Learn(h) \/ Unlearn(h) \/ Ages(h)
    \/ FlushBegin \/ FlushNothing \/ FlushInsert \/ FlushCommit \/ FlushFails
    \/ Cleanup \/ Reload \/ Restart
TemplateSpec == TemplateInit /\ [][TemplateNext]_templateVars
(* The scheduler runs the jobs again and again.                            *)
TemplateFairness == WF_templateVars(FlushBegin) /\ WF_templateVars(FlushInsert) /\ WF_templateVars(FlushCommit) /\ WF_templateVars(Reload)
TemplateFairSpec == TemplateSpec /\ TemplateFairness

-----------------------------------------------------------------------------
(* Properties.                                                             *)

TemplateTypeOK ==
    /\ {row, counts, seen, gone, raced} \subseteq [Hashes -> Nat]
    /\ old \cup patterns \subseteq Stored /\ cached \cup fresh \subseteq Hashes
    /\ flush.pc \in {"idle", "insert", "commit"} /\ prune \in {"idle", "reload"}

(* No message is counted twice or forgotten, through failed flushes and    *)
(* messages that arrive while one is under way: it is in the table, waits  *)
(* in memory, went with a row the retention deleted, or was on its way to  *)
(* that row when it was deleted.                                           *)
CountsExact ==
    \A h \in Hashes :
        /\ seen[h] = row[h] + counts[h] + flush.counts[h] + gone[h] + raced[h]
        /\ raced[h] > 0 => prunes > 0

(* Whenever no job is at work the cache lists only templates that have a   *)
(* row or will get one: else one that was deleted would pass for known and *)
(* never be stored again.                                                  *)
CacheSound == flush.pc = "idle" /\ prune = "idle" => cached \subseteq Stored \cup fresh

(* A new template gets its row, unless the process is restarted.           *)
AllStored == \A h \in fresh : row[h] > 0 \/ seen[h] = 0
Recreated == []<>AllStored

-----------------------------------------------------------------------------
(***************************************************************************)
(* Log templates that come before trouble (learn_precursors of             *)
(* services/log_intelligence.py, the rule that predicts from them in       *)
(* services/correlation.py, services/predictor_config.py and the verdicts  *)
(* of incident_feedback in routers/api_v1.py).  The learning pass looks at *)
(* what was logged before every event; the windows of events on one host   *)
(* are merged and fetched together, a few messages of each minute.  A      *)
(* verdict "noise" adds a template to a list that is kept as one setting,  *)
(* which people also edit as a whole.                                      *)
(***************************************************************************)
CONSTANTS
    Templates,
    Hosts,          \* hosts with events of their own; an event may also be of Fleet
    Fleet,          \* host_id 0
    Window,         \* PRECURSOR_WINDOW
    Minute,         \* length of a minute, in the units of time
    PerMinute,      \* messages fetched of a minute, and looked at for an event
    MinConfidence,  \* in percent: of a pattern that is kept
    MinOccurrences, \* of one that predicts
    Requests,       \* verdicts under way
    MaxTime, MaxMessages, MaxEvents, MaxVerdicts, MaxFaults

VARIABLES
    now,
    logged,         \* messages: template, host and time
    events,         \* what they may come before: host and time
    pattern,        \* template -> how often it came before an event, and of how many
    blacklist,      \* predictor_template_blacklist
    pass,           \* the learning pass
    request,        \* verdict -> its template and the list it has read
    form,           \* the settings page: the list it shows, when it is open
    rule,           \* the predicting rule, with the list it has read
    noise,          \* template -> whether people called it noise, and whether a pass has begun and ended since
    wrong,          \* templates that were predicted from after that
    clash,          \* two writers of the list overlapped, or a template was taken off it
    verdicts, faults

precursorVars == <<now, logged, events, pattern, blacklist, pass, request, form, rule, noise, wrong, clash, verdicts, faults>>
NoPattern == [occ |-> 0, total |-> 0]
NoPass == [at |-> "idle", drop |-> {}, learnt |-> [t \in Templates |-> NoPattern], labelled |-> {}]
NoRequest == [at |-> "idle", tpl |-> "none", list |-> {}]
Off == [open |-> FALSE, list |-> {}]
AtRest == [open |-> FALSE, list |-> {}, called |-> {}]
Called(how) == {t \in Templates : noise[t] \in how}
Still == verdicts = 0 /\ pass = NoPass /\ ~form.open /\ ~rule.open   \* bound: the world moves before the first verdict, between the steps
Followed == ~clash      \* bound: after that nothing more is labelled

PrecursorInit ==
    /\ now = 1 /\ logged = {} /\ events = {}
    /\ pattern = [t \in Templates |-> NoPattern]
    /\ blacklist = {} /\ pass = NoPass
    /\ request = [r \in Requests |-> NoRequest]
    /\ form = Off /\ rule = AtRest
    /\ noise = [t \in Templates |-> "no"]
    /\ wrong = {} /\ clash = FALSE /\ verdicts = 0 /\ faults = 0
-----------------------------------------------------------------------------
(* _merge_precursor_windows: the look-back windows of a host's events, in  *)
(* the order of time; one that begins within the last range extends it.    *)
Extended_Kept(range, ts) == range
Extended(range, ts) == <<range[1], IF range[2] > ts THEN range[2] ELSE ts>>
Merged(stamps) ==
    LET add(ranges, ts) == IF ranges # <<>> /\ ts - Window <= Last(ranges)[2]
                           THEN Append(Front(ranges), Extended(Last(ranges), ts))
                           ELSE Append(ranges, <<ts - Window, ts>>)
    IN  FoldLeft(add, <<>>, SetToSortSeq(stamps, <))
Ranges(es, h) == Merged({e.at : e \in {d \in es : d.host = h}})
(* _fetch_precursor_messages: of every minute of every range PerMinute     *)
(* messages at most, whichever ClickHouse finds first; those of all hosts  *)
(* for events of the fleet.                                                *)
InRanges(es, h) == LET ranges == Ranges(es, h) IN
    {x \in logged : (h = Fleet \/ x.host = h) /\ \E i \in DOMAIN ranges : ranges[i][1] <= x.at /\ x.at <= ranges[i][2]}
MinuteOf(x) == x.at \div Minute
SameMinute(xs, y) == {x \in xs : MinuteOf(x) = MinuteOf(y)}
Fetches(es, h) == LET all == InRanges(es, h) IN
    {xs \in SUBSET all : \A y \in all : LET n == Cardinality(SameMinute(all, y)) IN
        Cardinality(SameMinute(xs, y)) = IF n < PerMinute THEN n ELSE PerMinute}
(* _learn_precursors_for_event: the oldest messages of each event's own    *)
(* window, each template once.                                             *)
Own(xs, e) == {x \in xs : e.at - Window <= x.at /\ x.at <= e.at}
Oldest(xs, e) == {x \in Own(xs, e) : Cardinality({y \in Own(xs, e) : y.at < x.at}) < PerMinute}
Total(es, fetched) == Cardinality({e \in es : Own(fetched[e.host], e) # {}})
Before(t, es, fetched) == Cardinality({e \in es : \E x \in Oldest(fetched[e.host], e) : x.tpl = t})
(* wilson_lower_bound(k, n) >= c percent, in whole numbers.                *)
Confident(k, n, c) == n > 0 /\ 100 * k >= c * n /\ 10000 * (100 * k - c * n) * (100 * k - c * n) >= 38416 * c * (100 - c) * n

(* learn_precursors: what is on the list loses its pattern ...             *)
LearnBegin_NoSweep ==
    /\ pass = NoPass
    /\ pass' = [NoPass EXCEPT !.at = "learn", !.labelled = Called({"called"})]
    /\ UNCHANGED <<now, logged, events, pattern, blacklist, request, form, rule, noise, wrong, clash, verdicts, faults>>
LearnBegin ==
    /\ pass = NoPass
    /\ pass' = [NoPass EXCEPT !.at = "learn", !.drop = blacklist, !.labelled = Called({"called"})]
    /\ UNCHANGED <<now, logged, events, pattern, blacklist, request, form, rule, noise, wrong, clash, verdicts, faults>>
(* ... the counts, for what is not on the list now ...                     *)
Learnt(fetched) == LET n == Total(events, fetched) IN
    [t \in Templates |-> LET k == Before(t, events, fetched) IN
        IF t \notin blacklist /\ k > 0 /\ Confident(k, n, MinConfidence) THEN [occ |-> k, total |-> n] ELSE NoPattern]
LearnCount ==
    /\ pass.at = "learn"
    /\ \E fetched \in {f \in [Hosts \cup {Fleet} -> SUBSET logged] : \A h \in DOMAIN f : f[h] \in Fetches(events, h)} :
         pass' = [pass EXCEPT !.at = "commit", !.learnt = Learnt(fetched)]
    /\ UNCHANGED <<now, logged, events, pattern, blacklist, request, form, rule, noise, wrong, clash, verdicts, faults>>
(* ... and the commit.  A pattern that was not learnt again stays.         *)
LearnCommit ==
    /\ pass.at = "commit"
    /\ pattern' = [t \in Templates |-> IF pass.learnt[t] # NoPattern THEN pass.learnt[t] ELSE IF t \in pass.drop THEN NoPattern ELSE pattern[t]]
    /\ noise' = [t \in Templates |-> IF t \in pass.labelled /\ noise[t] = "called" THEN "swept" ELSE noise[t]]
    /\ pass' = NoPass
    /\ UNCHANGED <<now, logged, events, blacklist, request, form, rule, wrong, clash, verdicts, faults>>
LearnFails ==
    /\ pass # NoPass /\ faults < MaxFaults /\ faults' = faults + 1
    /\ pass' = NoPass
    /\ UNCHANGED <<now, logged, events, pattern, blacklist, request, form, rule, noise, wrong, clash, verdicts>>
-----------------------------------------------------------------------------
(* incident_feedback with "noise": add_to_blacklist reads the list ...     *)
Busy == \/ \E r \in Requests : request[r] # NoRequest
        \/ form.open
Verdict(r, t) ==
    /\ Followed /\ request[r] = NoRequest /\ verdicts < MaxVerdicts /\ verdicts' = verdicts + 1
    /\ pattern[t] # NoPattern
    /\ request' = [request EXCEPT ![r] = [at |-> "read", tpl |-> t, list |-> blacklist]]
    /\ clash' = (clash \/ Busy)
    /\ UNCHANGED <<now, logged, events, pattern, blacklist, pass, form, rule, noise, wrong, faults>>
(* ... and writes it with the template.                                    *)
VerdictEnds(r) == LET t == request[r].tpl IN
    /\ request[r].at = "read"
    /\ blacklist' = IF t \in request[r].list THEN blacklist ELSE request[r].list \cup {t}
    /\ noise' = [noise EXCEPT ![t] = IF @ = "no" THEN "called" ELSE @]
    /\ request' = [request EXCEPT ![r] = NoRequest]
    /\ UNCHANGED <<now, logged, events, pattern, pass, form, rule, wrong, clash, verdicts, faults>>
(* The settings page shows the list, and saves it as shown or emptied.     *)
OpenForm ==
    /\ Followed /\ ~form.open /\ form' = [open |-> TRUE, list |-> blacklist]
    /\ clash' = (clash \/ Busy)
    /\ UNCHANGED <<now, logged, events, pattern, blacklist, pass, request, rule, noise, wrong, verdicts, faults>>
SaveForm(list) ==
    /\ form.open /\ list \subseteq form.list
    /\ blacklist' = list /\ form' = Off
    /\ clash' = (clash \/ list # form.list)
    /\ UNCHANGED <<now, logged, events, pattern, pass, request, rule, noise, wrong, verdicts, faults>>
(* _rule_precursor_observed: the list is read first, and the patterns and  *)
(* what was logged of late after it.                                       *)
RuleReads ==
    /\ ~rule.open /\ rule' = [open |-> TRUE, list |-> blacklist, called |-> Called({"called", "swept"})]
    /\ UNCHANGED <<now, logged, events, pattern, blacklist, pass, request, form, noise, wrong, clash, verdicts, faults>>
Predicts_Listed(t) == Confident(pattern[t].occ, pattern[t].total, MinConfidence) /\ pattern[t].occ >= MinOccurrences
Predicts(t) == t \notin rule.list /\ Confident(pattern[t].occ, pattern[t].total, MinConfidence) /\ pattern[t].occ >= MinOccurrences
RuleEnds ==
    /\ rule.open
    /\ wrong' = wrong \cup {t \in rule.called : Predicts(t) /\ \E x \in logged : x.tpl = t /\ x.at >= now - Minute}
    /\ rule' = AtRest
    /\ UNCHANGED <<now, logged, events, pattern, blacklist, pass, request, form, noise, clash, verdicts, faults>>
-----------------------------------------------------------------------------
(* The network logs, and something happens.                                *)
Log(t, h) ==
    /\ Still /\ Cardinality(logged) < MaxMessages
    /\ logged' = logged \cup {[tpl |-> t, host |-> h, at |-> now]}
    /\ UNCHANGED <<now, events, pattern, blacklist, pass, request, form, rule, noise, wrong, clash, verdicts, faults>>
Happen(h) ==
    /\ Still /\ Cardinality(events) < MaxEvents
    /\ events' = events \cup {[host |-> h, at |-> now]}
    /\ UNCHANGED <<now, logged, pattern, blacklist, pass, request, form, rule, noise, wrong, clash, verdicts, faults>>
Tick ==
    /\ Still /\ now < MaxTime /\ now' = now + 1
    /\ UNCHANGED <<logged, events, pattern, blacklist, pass, request, form, rule, noise, wrong, clash, verdicts, faults>>

PrecursorNext ==
    \/ LearnBegin \/ LearnCount \/ LearnCommit \/ LearnFails
    \/ \E r \in Requests : VerdictEnds(r) \/ \E t \in Templates : Verdict(r, t)
    \/ OpenForm \/ \E list \in SUBSET Templates : SaveForm(list)
    \/ RuleReads \/ RuleEnds \/ Tick
    \/ \E h \in Hosts : \E t \in Templates : Log(t, h)
    \/ \E h \in Hosts \cup {Fleet} : Happen(h)
PrecursorSpec == PrecursorInit /\ [][PrecursorNext]_precursorVars
-----------------------------------------------------------------------------
Lists == SUBSET Templates
PrecursorTypeOK ==
    /\ now \in 1..MaxTime
    /\ logged \subseteq [tpl : Templates, host : Hosts, at : 1..MaxTime]
    /\ events \subseteq [host : Hosts \cup {Fleet}, at : 1..MaxTime]
    /\ pattern \in [Templates -> [occ : 0..MaxEvents, total : 0..MaxEvents]]
    /\ blacklist \in Lists /\ wrong \in Lists /\ clash \in BOOLEAN
    /\ pass.at \in {"idle", "learn", "commit"} /\ pass.drop \in Lists /\ pass.labelled \in Lists
    /\ \A r \in Requests : request[r].at \in {"idle", "read"} /\ request[r].list \in Lists
    /\ form \in [open : BOOLEAN, list : Lists] /\ rule \in [open : BOOLEAN, list : Lists, called : Lists]
    /\ noise \in [Templates -> {"no", "called", "swept"}]
    /\ verdicts \in 0..MaxVerdicts /\ faults \in 0..MaxFaults

(* The merged ranges hold for every event all that was logged in its own   *)
(* window: nothing is lost by fetching the windows of many events at once. *)
WindowsExact == \A e \in events :
    Own(InRanges(events, e.host), e) = Own({x \in logged : e.host = Fleet \/ x.host = e.host}, e)
(* What people called noise predicts nothing any more, and has no pattern  *)
(* once a pass has begun and ended since, although passes, verdicts and    *)
(* predictions overlap; unless two writers of the list overlapped, or      *)
(* someone took the template off it.                                       *)
NoiseSilenced == clash \/ (wrong = {} /\ \A t \in Called({"swept"}) : pattern[t] = NoPattern)

-----------------------------------------------------------------------------
(***************************************************************************)
(* The volume baselines of a tenant's log sources                          *)
(* (services/log_intelligence.py): compute_baselines folds every completed *)
(* hour, once, into two slots of each source, the one of its weekday and   *)
(* the one all days share; its progress is kept in the settings and        *)
(* mirrored in memory.  compute_template_diversity also counts a sample    *)
(* for the sources that are hosts.                                         *)
(*                                                                         *)
(* A day has one hour.  The statistics are left out but for the number of  *)
(* samples; every source logs in every hour from its first on.  Two        *)
(* instances take turns as leader.                                         *)
(***************************************************************************)
CONSTANTS
    Sources,        \* host keys
    HostSources,    \* ... of these, the ones "host:<id>"
    Instances,
    Weekdays,       \* days of a week
    Backfill,       \* BASELINE_BACKFILL_HOURS
    MaxHour,        \* bound: hours
    MaxPasses,      \* bound: diversity passes
    MaxFailedRuns,  \* bound: runs that fail
    MaxBaselineRestarts \* bound: restarts

VARIABLES
    hour,           \* the hour that is running
    since,          \* source -> hour of its first message
    done,           \* log_baseline_done_through; -1 is none
    mirror,         \* baseline_done_through, per instance
    leader,
    samples,        \* sample_count, by source and slot
    folds,          \* how often each hour was folded in
    passes,         \* how many diversity passes counted a sample, by source and slot
    failedRuns, baselineRestarts

baselineVars == <<hour, since, done, mirror, leader, samples, folds, passes, failedRuns, baselineRestarts>>

Hours == 0..(MaxHour - 1)
AnyDay == -1
Slots == {AnyDay} \cup 0..(Weekdays - 1)
SlotsOf(t) == {AnyDay, t % Weekdays}

(* baseline_hours_due: the completed hours after d, the last Backfill of   *)
(* them.                                                                   *)
(* Mutant: the running hour too.                                           *)
HoursDue_Running(d) == {t \in Hours : t <= hour /\ t > d /\ t >= hour + 1 - Backfill}
HoursDue(d) == {t \in Hours : t < hour /\ t > d /\ t >= hour - Backfill}

(* compute_baselines: nothing to do by the mirror; else by the progress    *)
(* that is stored, which another leader may have moved.                    *)
(* Mutant: the mirror is trusted.                                          *)
Progress_Mirror == mirror[leader]
Progress == done
Early == mirror[leader] >= 0 /\ HoursDue(mirror[leader]) = {}
NothingDue ==
    /\ ~Early /\ HoursDue(Progress) = {} /\ Progress >= 0
    /\ mirror' = [mirror EXCEPT ![leader] = Progress]
    /\ UNCHANGED <<hour, since, done, leader, samples, folds, passes, failedRuns, baselineRestarts>>
(* The samples and the progress are committed by set_setting, together;    *)
(* the first run of all starts every slot over.                            *)
Folded(hours) ==
    /\ samples' = [s \in Sources |-> [x \in Slots |->
                     (IF Progress = -1 THEN 0 ELSE samples[s][x])
                       + Cardinality({t \in hours : x \in SlotsOf(t) /\ since[s] <= t})]]
    /\ folds' = [t \in Hours |-> IF t \in hours THEN folds[t] + 1 ELSE folds[t]]
Compute ==
    /\ ~Early /\ HoursDue(Progress) # {}
    /\ LET hours == HoursDue(Progress) last == CHOOSE t \in hours : \A u \in hours : u <= t
       IN /\ Folded(hours)
          /\ done' = last /\ mirror' = [mirror EXCEPT ![leader] = last]
    /\ UNCHANGED <<hour, since, leader, passes, failedRuns, baselineRestarts>>
(* The run fails: everything is rolled back, and the mirror was not set.   *)
(* Mutant: the mirror was set before.                                      *)
ComputeFails_Mirrored ==
    /\ ~Early /\ HoursDue(Progress) # {} /\ failedRuns < MaxFailedRuns /\ failedRuns' = failedRuns + 1
    /\ mirror' = [mirror EXCEPT ![leader] = hour - 1]
    /\ UNCHANGED <<hour, since, done, leader, samples, folds, passes, baselineRestarts>>
ComputeFails ==
    /\ ~Early /\ HoursDue(Progress) # {} /\ failedRuns < MaxFailedRuns /\ failedRuns' = failedRuns + 1
    /\ UNCHANGED <<hour, since, done, mirror, leader, samples, folds, passes, baselineRestarts>>

(* compute_template_diversity: the slots of the running hour of each host  *)
(* that logs get a sample.                                                 *)
Diversity ==
    /\ \E s \in HostSources : since[s] <= hour /\ passes[s][AnyDay] < MaxPasses
    /\ LET hit(s, x) == s \in HostSources /\ since[s] <= hour /\ x \in SlotsOf(hour)
           plus(f) == [s \in Sources |-> [x \in Slots |-> IF hit(s, x) THEN f[s][x] + 1 ELSE f[s][x]]]
       IN samples' = plus(samples) /\ passes' = plus(passes)
    /\ UNCHANGED <<hour, since, done, mirror, leader, folds, failedRuns, baselineRestarts>>

Hour ==
    /\ hour < MaxHour /\ hour' = hour + 1
    /\ UNCHANGED <<since, done, mirror, leader, samples, folds, passes, failedRuns, baselineRestarts>>
(* Another instance takes over, or this one restarts.                      *)
HandOver(i) ==
    /\ i # leader /\ leader' = i
    /\ UNCHANGED <<hour, since, done, mirror, samples, folds, passes, failedRuns, baselineRestarts>>
BaselineRestart(i) ==
    /\ baselineRestarts < MaxBaselineRestarts /\ baselineRestarts' = baselineRestarts + 1
    /\ mirror' = [mirror EXCEPT ![i] = -1]
    /\ UNCHANGED <<hour, since, done, leader, samples, folds, passes, failedRuns>>

BaselineInit ==
    /\ hour = 0 /\ since \in [Sources -> {0, 1}] /\ done = -1
    /\ mirror = [i \in Instances |-> -1] /\ leader = CHOOSE i \in Instances : TRUE
    /\ samples = [s \in Sources |-> [x \in Slots |-> 0]] /\ passes = samples
    /\ folds = [t \in Hours |-> 0] /\ failedRuns = 0 /\ baselineRestarts = 0
BaselineNext ==
    \/ NothingDue \/ Compute \/ ComputeFails \/ Diversity \/ Hour
    \/ \E i \in Instances : HandOver(i) \/ BaselineRestart(i)
BaselineSpec == BaselineInit /\ [][BaselineNext]_baselineVars
BaselineFairness == WF_baselineVars(Compute) /\ WF_baselineVars(NothingDue)
BaselineFairSpec == BaselineSpec /\ BaselineFairness

-----------------------------------------------------------------------------
(* Properties.                                                             *)

BaselineTypeOK ==
    /\ hour \in 0..MaxHour /\ done \in -1..(MaxHour - 1) /\ leader \in Instances
    /\ mirror \in [Instances -> -1..MaxHour] /\ folds \in [Hours -> Nat]
    /\ samples \in [Sources -> [Slots -> Nat]]

(* "A restart neither skips nor double-counts an hour", nor does a change  *)
(* of the leader or a run that failed: an hour is folded in at most once,  *)
(* only after it has ended; one up to the stored progress that was not was *)
(* more than Backfill hours ago when its turn came; and the samples of an  *)
(* address are the hours folded into the slot since it was first seen.     *)
HoursOnce ==
    /\ \A t \in Hours : folds[t] <= 1 /\ (folds[t] = 1 => t < hour /\ t <= done)
    /\ done >= 0 => folds[done] = 1
    /\ \A t \in Hours : t <= done /\ folds[t] = 0 => t + Backfill <= done
    /\ \A s \in Sources \ HostSources, x \in Slots :
         samples[s][x] = Cardinality({t \in Hours : folds[t] = 1 /\ x \in SlotsOf(t) /\ since[s] <= t})

(* Every completed hour is folded in or too old for it.                    *)
AllFolded == \A t \in Hours : t < hour => t <= done
HoursFolded == []<>AllFolded
=============================================================================
