--------------------------- MODULE Notifications ---------------------------
(***************************************************************************)
(* Alert rules and the gate of notify (services/rules.py, routers/rules.py,*)
(* _is_rate_limited of notifications.py).  A cycle a minute evaluates the  *)
(* enabled rules one by one; a rule fires after enough matches in a row,   *)
(* then rests for its cooldown.  A syslog rule opens an incident, whose    *)
(* creation is announced; any other is announced each time it fires - but  *)
(* the same title only once within the window of the gate.                 *)
(*                                                                         *)
(* The gate reads its clock later than the cycle: at the very end of the   *)
(* window it may go either way.                                            *)
(***************************************************************************)
EXTENDS Naturals

CONSTANTS
    Rules, Syslog,      \* all rules, and those about syslog
    Names,              \* titles
    Distinct,           \* no two rules have the same name
    Required,           \* required_consecutive
    Cooldown, GateWindow,   \* in cycles
    MaxEvents           \* bound: changes of the world, failures, edits and restarts

RulesAssumption == Required \in Nat \ {0} /\ Cooldown \in Nat \ {0} /\ GateWindow \in Nat

VARIABLES
    name,
    enabledRules,                 \* enabled rules
    cond,               \* rules whose condition holds; the others have no match or no data
    streak,             \* _consecutive_matches
    since,              \* cycles since last_triggered_at
    recentTitles,             \* _recent: cycles since a title has passed the gate
    live,               \* syslog rules with a live incident
    todo,               \* rules this cycle has yet to evaluate
    seen,               \* evaluations in a row that matched, of the condition as it is
    wait,               \* of those, the ones since the rule was last announced
    moved,              \* rules edited or switched on or off since their streak began
    events

ruleVars == <<name, enabledRules, cond, streak, since, recentTitles, live, todo, seen, wait, moved, events>>
Bound == GateWindow + 2 * Cooldown + 2 * Required
Older(n, top) == IF n >= top THEN n ELSE n + 1
Event == events < MaxEvents /\ events' = events + 1

(* run_alert_rules: the rules are read, and time has passed.               *)
BeginRules ==
    /\ todo = {} /\ todo' = enabledRules
    /\ since' = [r \in Rules |-> Older(since[r], Cooldown)]
    /\ recentTitles' = [n \in Names |-> Older(recentTitles[n], GateWindow + 1)]
    /\ UNCHANGED <<name, enabledRules, cond, streak, live, seen, wait, moved, events>>

(* _is_rate_limited.                                                       *)
TitleLimited(n, early) == recentTitles[n] < GateWindow \/ (recentTitles[n] = GateWindow /\ early)
(* Mutant: a title that is held back starts its window again.              *)
Passed_Renewed(n, early) == [recentTitles EXCEPT ![n] = 0]
Passed(n, early) == IF TitleLimited(n, early) THEN recentTitles ELSE [recentTitles EXCEPT ![n] = 0]
(* Lines of the last minute, or a value taken from the newest data, answer *)
(* to the rule.                                                            *)
SyslogMatches(r) == r \in Syslog \cap cond
ValueMatches(r) == r \in cond \ Syslog
Matches(r) == SyslogMatches(r) \/ ValueMatches(r)
Announces(r) == r \notin Syslog \/ r \notin live
Done(r) == todo' = todo \ {r}

Resting(r) ==
    /\ r \in todo /\ Done(r) /\ since[r] < Cooldown
    /\ wait' = IF Matches(r) THEN [wait EXCEPT ![r] = Older(@, Bound + 1)] ELSE [wait EXCEPT ![r] = 0]
    /\ seen' = IF Matches(r) THEN seen ELSE [seen EXCEPT ![r] = 0]
    /\ UNCHANGED <<name, enabledRules, cond, streak, since, recentTitles, live, moved, events>>
(* The streak ends when there is no match, or no data.                     *)
(* Mutant: having no data leaves it alone.                                 *)
Missed_NoData(r) == streak
Missed(r) == [streak EXCEPT ![r] = 0]
Miss(r) ==
    /\ r \in todo /\ Done(r) /\ since[r] >= Cooldown /\ ~Matches(r)
    /\ streak' = Missed(r) /\ moved' = moved \ {r}
    /\ seen' = [seen EXCEPT ![r] = 0] /\ wait' = [wait EXCEPT ![r] = 0]
    /\ UNCHANGED <<name, enabledRules, cond, since, recentTitles, live, events>>
Counted(r) == streak[r] + 1
Match(r) ==
    /\ r \in todo /\ Done(r) /\ since[r] >= Cooldown /\ Matches(r) /\ Counted(r) < Required
    /\ streak' = [streak EXCEPT ![r] = Counted(r)]
    /\ seen' = [seen EXCEPT ![r] = Older(@, Required)] /\ wait' = [wait EXCEPT ![r] = Older(@, Bound + 1)]
    /\ UNCHANGED <<name, enabledRules, cond, since, recentTitles, live, moved, events>>
(* _fire_syslog_rule keeps an incident, _fire_rule only announces.         *)
(* Mutant: both keep one.                                                  *)
Opened_Always(r) == live \cup {r}
Opened(r) == IF r \in Syslog THEN live \cup {r} ELSE live
(* _fire_rule, _fire_syslog_rule: announced, then marked.                  *)
Fire(r, early) ==
    /\ r \in todo /\ Done(r) /\ since[r] >= Cooldown /\ Matches(r) /\ Counted(r) >= Required
    /\ streak' = [streak EXCEPT ![r] = 0] /\ since' = [since EXCEPT ![r] = 0] /\ moved' = moved \ {r}
    /\ recentTitles' = IF Announces(r) THEN Passed(name[r], early) ELSE recentTitles
    /\ live' = Opened(r)
    /\ seen' = [seen EXCEPT ![r] = Older(@, Required)]
    /\ wait' = [wait EXCEPT ![r] = IF Announces(r) /\ TitleLimited(name[r], early) THEN Older(@, Bound + 1) ELSE 0]
    /\ UNCHANGED <<name, enabledRules, cond, events>>
(* An exception: in the query, before the announcement (a message template *)
(* that does not fit), or in the commit after it.  The streak is counted   *)
(* by then and stays, and there is no cooldown.                            *)
Fails(r, stage, early) ==
    /\ r \in todo /\ Done(r) /\ since[r] >= Cooldown /\ Event
    /\ stage # "query" => Matches(r) /\ Counted(r) >= Required
    /\ streak' = IF stage = "query" THEN streak ELSE [streak EXCEPT ![r] = Required]
    /\ recentTitles' = IF stage = "commit" /\ Announces(r) THEN Passed(name[r], early) ELSE recentTitles
    /\ wait' = [wait EXCEPT ![r] = 0]
    /\ seen' = IF stage = "query" THEN seen ELSE [seen EXCEPT ![r] = Older(@, Required)]
    /\ UNCHANGED <<name, enabledRules, cond, since, live, moved>>

(* toggle_rule, edit_rule: neither streak nor cooldown is touched.         *)
Toggle(r) ==
    /\ Event
    /\ enabledRules' = IF r \in enabledRules THEN enabledRules \ {r} ELSE enabledRules \cup {r}
    /\ moved' = moved \cup {r} /\ seen' = [seen EXCEPT ![r] = 0] /\ wait' = [wait EXCEPT ![r] = 0]
    /\ UNCHANGED <<name, cond, streak, since, recentTitles, live, todo>>
Edit(r) ==
    /\ Event
    /\ cond' \in {cond \cup {r}, cond \ {r}}
    /\ moved' = moved \cup {r} /\ seen' = [seen EXCEPT ![r] = 0] /\ wait' = [wait EXCEPT ![r] = 0]
    /\ UNCHANGED <<name, enabledRules, streak, since, recentTitles, live, todo>>
World ==
    /\ Event
    /\ \E r \in Rules : cond' = IF r \in cond THEN cond \ {r} ELSE cond \cup {r}
    /\ UNCHANGED <<name, enabledRules, streak, since, recentTitles, live, todo, seen, wait, moved>>
(* resolve_incident.                                                       *)
Resolve ==
    /\ Event /\ \E r \in live : live' = live \ {r}
    /\ UNCHANGED <<name, enabledRules, cond, streak, since, recentTitles, todo, seen, wait, moved>>
Restart ==
    /\ Event /\ todo' = {} /\ moved' = {} /\ streak' = [r \in Rules |-> 0]
    /\ recentTitles' = [n \in Names |-> GateWindow + 1]
    /\ seen' = [r \in Rules |-> 0] /\ wait' = [r \in Rules |-> 0]
    /\ UNCHANGED <<name, enabledRules, cond, since, live>>

RuleInit ==
    /\ name \in [Rules -> Names] /\ (Distinct => \A r, q \in Rules : name[r] = name[q] => r = q)
    /\ enabledRules = Rules /\ cond = {} /\ streak = [r \in Rules |-> 0] /\ since = [r \in Rules |-> Cooldown]
    /\ recentTitles = [n \in Names |-> GateWindow + 1] /\ live = {} /\ todo = {}
    /\ seen = [r \in Rules |-> 0] /\ wait = [r \in Rules |-> 0] /\ moved = {} /\ events = 0
RuleNext ==
    \/ BeginRules \/ World \/ Resolve \/ Restart
    \/ \E r \in Rules : \/ Resting(r) \/ Miss(r) \/ Match(r) \/ Toggle(r) \/ Edit(r)
                        \/ \E early \in BOOLEAN : Fire(r, early) \/ \E stage \in {"query", "fire", "commit"} : Fails(r, stage, early)
RuleSpec == RuleInit /\ [][RuleNext]_ruleVars

-----------------------------------------------------------------------------
(* Properties.                                                             *)

RuleTypeOK ==
    /\ name \in [Rules -> Names] /\ enabledRules \subseteq Rules /\ streak \in [Rules -> 0..Required]
    /\ since \in [Rules -> 0..Cooldown] /\ recentTitles \in [Names -> 0..(GateWindow + 1)]
    /\ live \subseteq Syslog /\ todo \subseteq Rules

(* A rule fires only after Required evaluations in a row that matched,     *)
(* unless it was edited or switched off and on after the first of them.    *)
FiredEarned ==
    [][\A r \in Rules : since[r] >= Cooldown /\ since'[r] = 0 => seen'[r] >= Required \/ r \in moved]_ruleVars

(* A rule that keeps matching is announced within two cooldowns and a      *)
(* window of the gate: being held back once does not silence it.           *)
ToldInTime == \A r \in Rules : wait[r] <= Bound

-----------------------------------------------------------------------------
(***************************************************************************)
(* From notify to the channels of a tenant (notifications.py,              *)
(* notification_channels.py, routers/settings/notifications.py).  A        *)
(* message passes the gate for its title, the settings and secrets are     *)
(* read, the channels are served at the same time, and what became of each *)
(* is logged.                                                              *)
(*                                                                         *)
(* Every message has the same title here; a message is severe or not.      *)
(***************************************************************************)
CONSTANTS
    Tenants,
    Legacy, Extra,      \* channels: Telegram, Discord, webhook, e-mail; Teams, Slack, ntfy
    Calls,              \* notify and the test button, under way at once
    Window,             \* _COOLDOWN_SECONDS
    MaxFaults           \* bound: failed reads, saved settings, keys lost

NotifyAssumption == Window \in Nat \ {0}

VARIABLES
    recent,             \* _recent: tenant -> time since the title passed the gate
    on,                 \* tenants with notify_enabled
    secret,             \* tenant -> channel -> is a secret stored, does it open
    call,               \* what a call is doing
    passed,             \* tenant -> messages let through within the window
    refused,            \* tenants whose message was held back with none let through
    faults

notifyVars == <<recent, on, secret, call, passed, refused, faults>>
store == <<on, secret>>
gate == <<recent, passed, refused>>
Channels == Legacy \cup Extra
Nothing == [c \in Channels |-> "none"]
Idle == [pc |-> "idle", t |-> "none", only |-> {}, low |-> FALSE, cfg |-> Nothing, got |-> {}, log |-> Nothing]
Fault == faults < MaxFaults /\ faults' = faults + 1

(* _is_rate_limited: the gate is closed behind a message it lets through.  *)
(* Mutant: the tenant is not part of the key.                              *)
Limited_Everywhere(t) == \E u \in Tenants : recent[u] < Window
Limited(t) == recent[t] < Window
Begin(k, t, only, low) == call' = [call EXCEPT ![k] = [Idle EXCEPT !.pc = "load", !.t = t, !.only = only, !.low = low]]
Notify(k, t, only, low) ==
    /\ call[k].pc = "idle"
    /\ IF Limited(t)
         THEN /\ refused' = (IF passed[t] = 0 THEN refused \cup {t} ELSE refused)
              /\ UNCHANGED <<recent, passed, call>>
         ELSE /\ recent' = [recent EXCEPT ![t] = 0] /\ passed' = [passed EXCEPT ![t] = @ + 1]
              /\ Begin(k, t, only, low) /\ UNCHANGED refused
    /\ UNCHANGED <<store, faults>>
(* test_notification: no gate, one channel, switched on or not.            *)
Test(k, t, c) ==
    /\ call[k].pc = "idle" /\ Fault
    /\ call' = [call EXCEPT ![k] = [Idle EXCEPT !.pc = "test", !.t = t, !.only = {c}]]
    /\ UNCHANGED <<gate, store>>

(* ChannelSecrets.get, reveal: a value that does not open is an error of   *)
(* its own channel.                                                        *)
(* Mutant: nothing is said of it.                                          *)
Failed_Silent(k, cfg) == {}
Wanted(k, c) == call[k].only = {} \/ c \in call[k].only
Failed(k, cfg) == {c \in Channels : cfg[c] = "bad" /\ Wanted(k, c)}
(* _severity_passes: legacy channels take the severe messages only.        *)
SeverityPasses(c, low) == ~(low /\ c \in Legacy)
Configured(cfg, c) == cfg[c] # "none"
LegacySends(k, cfg) == {c \in Legacy : Configured(cfg, c) /\ SeverityPasses(c, call[k].low)}
ExtraSends(k, cfg) == {c \in Extra : Configured(cfg, c) /\ SeverityPasses(c, call[k].low) /\ Wanted(k, c)}
(* The list of _notify_tenant_channels.                                    *)
(* Mutant: one secret that does not open keeps all the others from going.  *)
Sends_None(k, cfg) == IF Failed(k, cfg) # {} THEN {} ELSE {c \in LegacySends(k, cfg) \cup ExtraSends(k, cfg) : Wanted(k, c)}
Sends(k, cfg) == {c \in LegacySends(k, cfg) \cup ExtraSends(k, cfg) : Wanted(k, c) /\ cfg[c] # "bad"}

(* Settings and secrets are read; secrets that do not open are logged.     *)
Load(k) ==
    LET cfg == secret[call[k].t]
    IN /\ call[k].pc \in {"load", "test"}
       /\ call' = IF call[k].pc = "load" /\ call[k].t \notin on THEN [call EXCEPT ![k] = Idle]
                  ELSE [call EXCEPT ![k].pc = "send", ![k].cfg = cfg,
                                    ![k].log = [c \in Channels |-> IF c \in Failed(k, cfg) THEN "failed" ELSE "none"]]
       /\ UNCHANGED <<gate, store, faults>>
(* The database fails: notify raises, and the gate stays closed.           *)
LoadFails(k) ==
    /\ call[k].pc \in {"load", "test"} /\ Fault
    /\ call' = [call EXCEPT ![k] = Idle]
    /\ UNCHANGED <<gate, store>>

(* gather: every channel has an outcome of its own (after the retries of a *)
(* 429), logged when all are through.  A legacy webhook whose URL is not   *)
(* safe just now returns as if it had been sent.                           *)
LegacyOutcomes == {"taken", "failed", "blocked"}
ExtraOutcomes == {"taken", "failed"}
Outcomes(c) == IF c \in Legacy THEN LegacyOutcomes ELSE ExtraOutcomes
Logged(o) == IF o = "failed" THEN "failed" ELSE "sent"
Gather(k) ==
    LET S == Sends(k, call[k].cfg)
    IN /\ call[k].pc = "send"
       /\ \E result \in {f \in [S -> {"taken", "failed", "blocked"}] : \A c \in S : f[c] \in Outcomes(c)} :
            call' = [call EXCEPT ![k].pc = "done", ![k].got = {c \in S : result[c] = "taken"},
                                 ![k].log = [c \in Channels |-> IF c \in S THEN Logged(result[c]) ELSE @[c]]]
       /\ UNCHANGED <<gate, store, faults>>
Return(k) ==
    /\ call[k].pc = "done" /\ call' = [call EXCEPT ![k] = Idle]
    /\ UNCHANGED <<gate, store, faults>>

(* save_notifications; a tenant's key that is lost or destroyed.           *)
Save(t, c, what) ==
    /\ Fault
    /\ \/ what = "toggle" /\ on' = (IF t \in on THEN on \ {t} ELSE on \cup {t}) /\ UNCHANGED secret
       \/ what \in {"none", "ok", "bad"} /\ secret' = [secret EXCEPT ![t][c] = what] /\ UNCHANGED on
    /\ UNCHANGED <<gate, call>>
(* Time passes; the gate opens again.                                      *)
Tick ==
    /\ recent' = [t \in Tenants |-> IF recent[t] > Window THEN recent[t] ELSE recent[t] + 1]
    /\ passed' = [t \in Tenants |-> IF recent'[t] >= Window THEN 0 ELSE passed[t]]
    /\ UNCHANGED <<store, call, refused, faults>>

NotifyInit ==
    /\ recent = [t \in Tenants |-> Window + 1] /\ on = Tenants
    /\ secret = [t \in Tenants |-> [c \in Channels |-> "ok"]]
    /\ call = [k \in Calls |-> Idle] /\ passed = [t \in Tenants |-> 0] /\ refused = {} /\ faults = 0
NotifyNext ==
    \/ \E k \in Calls :
         \/ \E t \in Tenants, only \in {{}, Extra}, low \in BOOLEAN : Notify(k, t, only, low)
         \/ \E t \in Tenants, c \in Channels : Test(k, t, c)
         \/ Load(k) \/ LoadFails(k) \/ Gather(k) \/ Return(k)
    \/ \E t \in Tenants, c \in Channels, what \in {"toggle", "none", "ok", "bad"} : Save(t, c, what)
    \/ Tick
NotifySpec == NotifyInit /\ [][NotifyNext]_notifyVars

-----------------------------------------------------------------------------
(* Properties.                                                             *)

NotifyTypeOK ==
    /\ recent \in [Tenants -> 0..(Window + 1)] /\ on \subseteq Tenants
    /\ secret \in [Tenants -> [Channels -> {"none", "ok", "bad"}]]
    /\ \A k \in Calls : call[k].pc \in {"idle", "load", "test", "send", "done"} /\ call[k].log \in [Channels -> {"none", "sent", "failed"}]

(* One message per title, window and tenant, also of calls that run at     *)
(* once; and none is held back for the messages of another tenant.         *)
OnePerWindow == refused = {} /\ \A t \in Tenants : passed[t] <= 1

(* When a call is through, every channel it was for has the message, or    *)
(* the history says that it failed, whatever became of the others; only a  *)
(* legacy webhook that was blocked is recorded as sent.                    *)
NothingSilent ==
    \A k \in Calls : call[k].pc = "done" =>
      \A c \in Channels : Wanted(k, c) /\ Configured(call[k].cfg, c) /\ SeverityPasses(c, call[k].low) =>
        c \in call[k].got \/ call[k].log[c] = "failed" \/ (c \in Legacy /\ call[k].log[c] = "sent")
=============================================================================
