----------------------------- MODULE MCAccess ------------------------------
(* Instance of the components around people for TLC: accounts and          *)
(* sessions, the limits on requests, the alert rules and the notifications *)
(* they send, the licence, backups, and what people plan and discover:     *)
(* maintenance windows, scans, ports and SNMP, and what is sent to an AI   *)
(* provider. They share no variable, so each behaviour moves one of them.  *)
(* The MIBs and the nodes are interchangeable, so the first node of the    *)
(* first MIB is one right under the root, if any is.                       *)
EXTENDS Naturals

CONSTANTS
    Users, Customers, Default, Directory, Changes, MaxChanges, Kinds, Windows, Limit, Callers,
    Apart, CleanupEvery, MaxOutages, Rules, Syslog, Names, Distinct, Required, Cooldown, GateWindow,
    MaxEvents, Tenants, LegacyChannels, Extra, Calls, Window, MaxNotifyFaults, Processes, Envs,
    Term, Grace, TTL, MaxLicenceChanges, BackupUsers, Existing, MaxKeys, MaxSteps, Storages,
    Frequency, KeepRuns, MaxTime, MaxRuns, MaxForgets, MaxLoads, DayLen, WeekLen, WindowTimes,
    ClockChange, Clocks, Jump, DaySets, StartTimes, Durations, Moments, MaxDuration, MaxSpan, Span,
    WindowHosts, Editors, MaxEdits, Addresses, PtrNames, Scanners, MaxHosts, MaxScanChanges, Ports,
    PortScanners, MaxPortChanges, Mibs, Nodes, Importers, Configs, Interval, MaxPolls,
    MaxMibChanges, Admins, Operators, AiCalls, Slots, Workers, MaxSaves, MaxSends, MaxStops,
    SecretValues, Short, Generic, Placeholders, MaxWords, MaxAnswer, MaxDelta, MaxPlaceholder

VARIABLES
    part,  \* the component this behaviour is about
    role, accounts, operator, password, sessions, req, accounts_raced, strays, accounts_changes,
    limiter, hits, bucket, limit_clock, cleaned, caller, granted, outages,
    name, enabledRules, cond, streak, rules_since, recentTitles, live, todo, rules_seen, wait,
    moved, events,
    recent, on, secret, notify_call, passed, refused, faults,
    env, row, licence_clock, licence_cache, reading, storing, mode, licence_since, blind, first,
    licence_changes,
    db, files, export, restore, behind, halted, used, steps,
    now, run, listed, kept, job, history, held, watch_seen, forgets, loads,
    windows_clock, table, windows_hosts, windows_seen, windows_overlapped, edits,
    scan_hosts, nextId, ptr, schedule, scan, snap, owed, scan_overlapped, scan_raced, scan_changes,
    net, rows, host, portScan, ports_seen, portsOverlapped, several, portChanges,
    tree, mibs, owner, work, deleted, snmp_overlapped, snmp_cache, time, config, list, results,
    snmp_changes,
    settings, marker, worker, save, consent_call, sends, wish, chosen, mixed, saves, stops,
    request, issued, sent, answer, buf, shown, over

A == INSTANCE Accounts WITH
    Tenants <- Customers, Requests <- Changes, Cleanup <- CleanupEvery, MaxFaults <- MaxOutages,
    raced <- accounts_raced, changes <- accounts_changes, clock <- limit_clock
AL == INSTANCE Notifications WITH
    Legacy <- LegacyChannels, MaxFaults <- MaxNotifyFaults, since <- rules_since, seen <-
    rules_seen, call <- notify_call
LC == INSTANCE Licensing WITH
    Procs <- Processes, MaxChanges <- MaxLicenceChanges, clock <- licence_clock, cache <-
    licence_cache, since <- licence_since, changes <- licence_changes
BK == INSTANCE Backups WITH
    Users <- BackupUsers, Tenants <- Customers, Keep <- KeepRuns, seen <- watch_seen
MW == INSTANCE MaintenanceWindows WITH
    Times <- WindowTimes, Change <- ClockChange, Hosts <- WindowHosts, clock <- windows_clock, hosts
    <- windows_hosts, seen <- windows_seen, overlapped <- windows_overlapped
DI == INSTANCE Discovery WITH
    Names <- PtrNames, MaxChanges <- MaxScanChanges, hosts <- scan_hosts, overlapped <-
    scan_overlapped, raced <- scan_raced, changes <- scan_changes, seen <- ports_seen
SN == INSTANCE Snmp WITH
    MaxTime <- MaxPolls, MaxChanges <- MaxMibChanges, overlapped <- snmp_overlapped, cache <-
    snmp_cache, changes <- snmp_changes
AI == INSTANCE AiFeatures WITH
    Calls <- AiCalls, Values <- SecretValues, Kinds <- Placeholders, call <- consent_call
ASSUME A!AccountsAssumption
ASSUME AL!RulesAssumption
ASSUME AL!NotifyAssumption
ASSUME LC!LicensingAssumption
ASSUME BK!BackupAssumption
ASSUME BK!WatchAssumption
ASSUME AI!AiAssumption

accountsVars ==
    <<role, accounts, operator, password, sessions, req, accounts_raced, strays, accounts_changes>>
limitVars ==
    <<limiter, hits, bucket, limit_clock, cleaned, caller, granted, outages>>
rulesVars ==
    <<name, enabledRules, cond, streak, rules_since, recentTitles, live, todo, rules_seen, wait,
      moved, events>>
notifyVars ==
    <<recent, on, secret, notify_call, passed, refused, faults>>
licenceVars ==
    <<env, row, licence_clock, licence_cache, reading, storing, mode, licence_since, blind, first,
      licence_changes>>
backupVars ==
    <<db, files, export, restore, behind, halted, used, steps>>
watchVars ==
    <<now, run, listed, kept, job, history, held, watch_seen, forgets, loads>>
windowsVars ==
    <<windows_clock, table, windows_hosts, windows_seen, windows_overlapped, edits>>
scanVars ==
    <<scan_hosts, nextId, ptr, schedule, scan, snap, owed, scan_overlapped, scan_raced, scan_changes>>
portsVars ==
    <<net, rows, host, portScan, ports_seen, portsOverlapped, several, portChanges>>
snmpVars ==
    <<tree, mibs, owner, work, deleted, snmp_overlapped, snmp_cache, time, config, list, results,
      snmp_changes>>
consentVars ==
    <<settings, marker, worker, save, consent_call, sends, wish, chosen, mixed, saves, stops>>
redactionVars ==
    <<request, issued, sent, answer, buf, shown, over>>
vars == <<part, accountsVars, limitVars, rulesVars, notifyVars, licenceVars, backupVars, watchVars, windowsVars, scanVars, portsVars, snmpVars, consentVars, redactionVars>>

Init ==
    /\ part \in {"accounts", "limit", "rules", "notify", "licence", "backup", "watch", "windows", "scan", "ports", "snmp", "consent", "redaction"}
    /\ A!AccountInit /\ (part # "accounts" => role = [u \in Users |-> [t \in Customers |-> "admin"]])
    /\ A!LimitInit /\ (part # "limit" => limiter = "memory")
    /\ AL!RuleInit /\ (part # "rules" => name = CHOOSE f \in [Rules -> Names] : \A r, q \in Rules : f[r] = f[q] => r = q)
    /\ AL!NotifyInit
    /\ LC!Init /\ (part # "licence" => env = "none")
    /\ BK!BackupInit /\ (part # "backup" => files = {})
    /\ BK!WatchInit
    /\ MW!Init /\ (part # "windows" => windows_clock = "kept" /\ table = {CHOOSE r \in {MW!Values(d) : d \in {b \in MW!Bodies : MW!Accepts(b)}} : TRUE})
    /\ DI!ScanInit /\ (part # "scan" => ptr = [a \in Addresses |-> DI!Unknown])
    /\ DI!PortsInit /\ (part # "ports" => net = [p \in Ports |-> DI!Closed])
    /\ SN!Init /\ (part # "snmp" => tree = [m \in Mibs |-> [n \in Nodes |-> SN!Root]])
    /\ LET m == CHOOSE k \in Mibs : TRUE  n == CHOOSE k \in Nodes : TRUE IN
         (\E k \in Mibs, x \in Nodes : tree[k][x] = SN!Root) => tree[m][n] = SN!Root
    /\ AI!ConsentInit /\ (part # "consent" => ~settings.key)
    /\ AI!RedactionInit /\ (part # "redaction" => request = <<[val |-> CHOOSE v \in SecretValues : TRUE, as |-> AI!Plain]>>)

(* A step of one component leaves the others alone.                        *)
accountsOnly ==
    part = "accounts" /\ UNCHANGED <<part, limitVars, rulesVars, notifyVars, licenceVars, backupVars, watchVars, windowsVars, scanVars, portsVars, snmpVars, consentVars, redactionVars>>
limitOnly ==
    part = "limit" /\ UNCHANGED <<part, accountsVars, rulesVars, notifyVars, licenceVars, backupVars, watchVars, windowsVars, scanVars, portsVars, snmpVars, consentVars, redactionVars>>
rulesOnly ==
    part = "rules" /\ UNCHANGED <<part, accountsVars, limitVars, notifyVars, licenceVars, backupVars, watchVars, windowsVars, scanVars, portsVars, snmpVars, consentVars, redactionVars>>
notifyOnly ==
    part = "notify" /\ UNCHANGED <<part, accountsVars, limitVars, rulesVars, licenceVars, backupVars, watchVars, windowsVars, scanVars, portsVars, snmpVars, consentVars, redactionVars>>
licenceOnly ==
    part = "licence" /\ UNCHANGED <<part, accountsVars, limitVars, rulesVars, notifyVars, backupVars, watchVars, windowsVars, scanVars, portsVars, snmpVars, consentVars, redactionVars>>
backupOnly ==
    part = "backup" /\ UNCHANGED <<part, accountsVars, limitVars, rulesVars, notifyVars, licenceVars, watchVars, windowsVars, scanVars, portsVars, snmpVars, consentVars, redactionVars>>
watchOnly ==
    part = "watch" /\ UNCHANGED <<part, accountsVars, limitVars, rulesVars, notifyVars, licenceVars, backupVars, windowsVars, scanVars, portsVars, snmpVars, consentVars, redactionVars>>
windowsOnly ==
    part = "windows" /\ UNCHANGED <<part, accountsVars, limitVars, rulesVars, notifyVars, licenceVars, backupVars, watchVars, scanVars, portsVars, snmpVars, consentVars, redactionVars>>
scanOnly ==
    part = "scan" /\ UNCHANGED <<part, accountsVars, limitVars, rulesVars, notifyVars, licenceVars, backupVars, watchVars, windowsVars, portsVars, snmpVars, consentVars, redactionVars>>
portsOnly ==
    part = "ports" /\ UNCHANGED <<part, accountsVars, limitVars, rulesVars, notifyVars, licenceVars, backupVars, watchVars, windowsVars, scanVars, snmpVars, consentVars, redactionVars>>
snmpOnly ==
    part = "snmp" /\ UNCHANGED <<part, accountsVars, limitVars, rulesVars, notifyVars, licenceVars, backupVars, watchVars, windowsVars, scanVars, portsVars, consentVars, redactionVars>>
consentOnly ==
    part = "consent" /\ UNCHANGED <<part, accountsVars, limitVars, rulesVars, notifyVars, licenceVars, backupVars, watchVars, windowsVars, scanVars, portsVars, snmpVars, redactionVars>>
redactionOnly ==
    part = "redaction" /\ UNCHANGED <<part, accountsVars, limitVars, rulesVars, notifyVars, licenceVars, backupVars, watchVars, windowsVars, scanVars, portsVars, snmpVars, consentVars>>
Next ==
    \/ accountsOnly /\ A!AccountNext
    \/ limitOnly /\ A!LimitNext
    \/ rulesOnly /\ AL!RuleNext
    \/ notifyOnly /\ AL!NotifyNext
    \/ licenceOnly /\ LC!Next
    \/ backupOnly /\ BK!BackupNext
    \/ watchOnly /\ BK!WatchNext
    \/ windowsOnly /\ MW!Next
    \/ scanOnly /\ DI!ScanNext
    \/ portsOnly /\ DI!PortsNext
    \/ snmpOnly /\ SN!Next
    \/ consentOnly /\ AI!ConsentNext
    \/ redactionOnly /\ AI!RedactionNext

Spec == Init /\ [][Next]_vars

-----------------------------------------------------------------------------
(* Every component's variables have their types.                           *)
TypesOK ==
    /\ part = "accounts" => A!AccountTypeOK
    /\ part = "limit" => A!LimitTypeOK
    /\ part = "rules" => AL!RuleTypeOK
    /\ part = "notify" => AL!NotifyTypeOK
    /\ part = "licence" => LC!TypeOK
    /\ part = "backup" => BK!BackupTypeOK
    /\ part = "watch" => BK!WatchTypeOK
    /\ part = "windows" => MW!TypeOK
    /\ part = "scan" => DI!ScanTypeOK
    /\ part = "ports" => DI!PortsTypeOK
    /\ part = "snmp" => SN!TypeOK
    /\ part = "consent" => AI!ConsentTypeOK
    /\ part = "redaction" => AI!RedactionTypeOK

(* A tenant keeps an admin, the operator flag is that of the admins of the *)
(* default tenant, and a session was opened with the present password, but *)
(* for the overlaps each of them names; the licence a process decides by   *)
(* was in force when it read it or later, and its expiry never makes       *)
(* replicas run the jobs side by side; and what goes to an AI provider     *)
(* goes as an admin decided, to the provider and redacted as one save had  *)
(* set it.                                                                 *)
AccountsSafe ==
    /\ part = "accounts" => (A!AdminLeft /\ A!OperatorMirrors /\ A!SessionsFresh)
    /\ part = "licence" => (LC!LicenceFresh /\ LC!AloneExplained)
    /\ part = "consent" => (AI!OptInHonest /\ AI!SentAsDecided)

(* A rule fires only after the evaluations in a row it asks for, unless it *)
(* was edited meanwhile, and one that keeps matching is announced in time, *)
(* although the gate in front of the channels held it back; the gate lets  *)
(* one message per title, window and tenant through, and none is held back *)
(* for another tenant; when a call is through, every channel it was for    *)
(* has the message or the history says that it failed.                     *)
MessagesArrive ==
    /\ AL!FiredEarned
    /\ [](part = "rules" => AL!ToldInTime)
    /\ [](part = "notify" => AL!OnePerWindow /\ AL!NothingSilent)

(* After a restore everyone can sign in and every secret opens, whatever   *)
(* the export met, unless the restore was broken off or the export lacks   *)
(* the key; and when the watch over the guests' backups is silent there    *)
(* was a backup in time.                                                   *)
BackupsHold ==
    /\ part = "backup" => (BK!EveryoneIn /\ BK!SecretsReadable)
    /\ part = "watch" => (BK!NoSilentGap /\ BK!HistoryTrue)

(* A maintenance window is in force exactly during its occurrences, over   *)
(* midnight, over days and over a change of the clock, and saving it       *)
(* unchanged moves nothing; no address that was watched is lost when       *)
(* duplicates are merged, and no scan adds an address twice; the ports     *)
(* shown are those the last scan saw, and a port shown as watched is       *)
(* checked; what the imported MIBs define has a name; a limit lets through *)
(* what it says, although lists are cleaned up and Redis does not answer;  *)
(* and no value found anywhere in a request goes to an AI provider, and    *)
(* the answer is shown as if it had come in one piece.                     *)
PlansKept ==
    /\ part = "windows" => (MW!ScheduleRight /\ MW!RoundTrip)
    /\ part = "scan" => (DI!NotLost /\ DI!NoTwins)
    /\ part = "ports" => (DI!PortsTrue /\ DI!MonitoredChecked)
    /\ part = "snmp" => SN!CatalogueNames
    /\ part = "limit" => A!WithinLimit
    /\ part = "redaction" => (AI!NothingLeaves /\ AI!StreamExact /\ AI!SecretsHidden)

=============================================================================
