----------------------------- MODULE MCIngest ------------------------------
(* Instance of the components data comes in through for TLC: the syslog    *)
(* relay of a probe, the server's write pipeline, the attribution of a     *)
(* line to a host, the templates and the baselines learned from the lines, *)
(* the integrations that are collected, the rates worked out from counters *)
(* of traffic, and the templates that turn up on many hosts or before      *)
(* trouble. They share no variable, so each behaviour moves one of them.   *)
(* The sites of hosts are interchangeable, so the hosts are first in sites *)
(* numbered in their order. The alarm of an integration is on at first, as *)
(* the device may end it.                                                  *)
EXTENDS Naturals, SyslogRelay

CONSTANTS
    QueueMax, BatchSize, BufferMax, MaxConns, MaxMsg, MaxInsertFaults, MaxStops, Tenants, Sites,
    Hosts, AllowlistOnly, MaxEdits, Hashes, MaxSeen, MaxFails, MaxRestarts, MaxPrunes, Sources,
    HostSources, Instances, Weekdays, Backfill, MaxHour, MaxPasses, Configs, MinCycles,
    MinSnapshots, MaxIntegrationEvents, SourceKinds, Handlers, Loads, MaxTime, MaxSamples,
    MaxResets, MaxLost, Templates, FleetSources, MinHosts, FleetCycles, Quiet, Expiry,
    MaxFleetFaults, NoisyTemplates, EventHosts, Fleet, Window, Minute, PerMinute, MinConfidence,
    MinOccurrences, Requests, MaxLogged, MaxEvents, MaxVerdicts, MaxPassFaults

VARIABLES
    part,  \* the component this behaviour is about
    server, server_conns, queue, server_buffer, inline, server_batch, by, server_stored, sources,
    server_dropped, server_lost, server_faults, doubtful, stops,
    hosts, filed, active, known, hosts_seen, enforced, edits,
    templates_row, templates_old, patterns, cached, counts, fresh, flush, prune, templates_seen,
    gone, raced, templates_fails, restarts, prunes,
    hour, since, done, mirror, leader, samples, folds, passes, failedRuns, baselineRestarts,
    rev, grouped, sealed, reach, alarm, maint, inflight, units, integration_fails, integration_old,
    streak, live, integration_events,
    kind, bandwidth_now, counter, carried, resets, wire, measured, handler, table, bandwidth_lost,
    overlapped, reordered,
    fleet_now, sent, daily, trait, score, fleet_row, cycle, hits, incident, told, fleet_seen,
    fleet_lost, fleet_faults,
    precursor_now, logged, precursor_events, pattern, blacklist, pass, request, form, rule, noise,
    wrong, clash, verdicts, precursor_faults

S == INSTANCE SyslogServer WITH
    MaxFaults <- MaxInsertFaults, conns <- server_conns, buffer <- server_buffer, batch <-
    server_batch, stored <- server_stored, dropped <- server_dropped, lost <- server_lost, faults <-
    server_faults, seen <- hosts_seen
T == INSTANCE LogPatterns WITH
    MaxFailedRuns <- MaxFails, MaxBaselineRestarts <- MaxRestarts, Templates <- NoisyTemplates,
    Hosts <- EventHosts, MaxMessages <- MaxLogged, MaxFaults <- MaxPassFaults, row <- templates_row,
    old <- templates_old, seen <- templates_seen, fails <- templates_fails, now <- precursor_now,
    events <- precursor_events, faults <- precursor_faults
I == INSTANCE Integrations WITH
    MaxEvents <- MaxIntegrationEvents, fails <- integration_fails, old <- integration_old, events <-
    integration_events
BW == INSTANCE Bandwidth WITH
    now <- bandwidth_now, lost <- bandwidth_lost
F == INSTANCE FleetPatterns WITH
    Sources <- FleetSources, MinCycles <- FleetCycles, MaxFaults <- MaxFleetFaults, now <-
    fleet_now, row <- fleet_row, seen <- fleet_seen, lost <- fleet_lost, faults <- fleet_faults
ASSUME RelayAssumption
ASSUME S!HostsAssumption

serverVars ==
    <<server, server_conns, queue, server_buffer, inline, server_batch, by, server_stored, sources,
      server_dropped, server_lost, server_faults, doubtful, stops>>
hostsVars ==
    <<hosts, filed, active, known, hosts_seen, enforced, edits>>
templatesVars ==
    <<templates_row, templates_old, patterns, cached, counts, fresh, flush, prune, templates_seen,
      gone, raced, templates_fails, restarts, prunes>>
baselinesVars ==
    <<hour, since, done, mirror, leader, samples, folds, passes, failedRuns, baselineRestarts>>
integrationVars ==
    <<rev, grouped, sealed, reach, alarm, maint, inflight, units, integration_fails,
      integration_old, streak, live, integration_events>>
bandwidthVars ==
    <<kind, bandwidth_now, counter, carried, resets, wire, measured, handler, table, bandwidth_lost,
      overlapped, reordered>>
fleetVars ==
    <<fleet_now, sent, daily, trait, score, fleet_row, cycle, hits, incident, told, fleet_seen,
      fleet_lost, fleet_faults>>
precursorVars ==
    <<precursor_now, logged, precursor_events, pattern, blacklist, pass, request, form, rule, noise,
      wrong, clash, verdicts, precursor_faults>>
vars == <<part, relayVars, serverVars, hostsVars, templatesVars, baselinesVars, integrationVars, bandwidthVars, fleetVars, precursorVars>>

Init ==
    /\ part \in {"relay", "server", "hosts", "templates", "baselines", "integration", "bandwidth", "fleet", "precursor"}
    /\ RelayInit
    /\ S!ServerInit
    /\ S!HostsInit /\ (part # "hosts" => hosts = [h \in Hosts |-> CHOOSE r \in S!Records : TRUE]) /\ (part = "hosts" => \A h \in Hosts : hosts[h].site <= h)
    /\ T!TemplateInit
    /\ T!BaselineInit /\ (part # "baselines" => since = [s \in Sources |-> 0])
    /\ I!Init /\ (alarm <=> part = "integration") /\ (part # "integration" => grouped = {} /\ sealed = {})
    /\ BW!Init /\ (part # "bandwidth" => kind = "agent")
    /\ F!Init /\ (part # "fleet" => daily = {})
    /\ T!PrecursorInit

(* A step of one component leaves the others alone.                        *)
relayOnly ==
    part = "relay" /\ UNCHANGED <<part, serverVars, hostsVars, templatesVars, baselinesVars, integrationVars, bandwidthVars, fleetVars, precursorVars>>
serverOnly ==
    part = "server" /\ UNCHANGED <<part, relayVars, hostsVars, templatesVars, baselinesVars, integrationVars, bandwidthVars, fleetVars, precursorVars>>
hostsOnly ==
    part = "hosts" /\ UNCHANGED <<part, relayVars, serverVars, templatesVars, baselinesVars, integrationVars, bandwidthVars, fleetVars, precursorVars>>
templatesOnly ==
    part = "templates" /\ UNCHANGED <<part, relayVars, serverVars, hostsVars, baselinesVars, integrationVars, bandwidthVars, fleetVars, precursorVars>>
baselinesOnly ==
    part = "baselines" /\ UNCHANGED <<part, relayVars, serverVars, hostsVars, templatesVars, integrationVars, bandwidthVars, fleetVars, precursorVars>>
integrationOnly ==
    part = "integration" /\ UNCHANGED <<part, relayVars, serverVars, hostsVars, templatesVars, baselinesVars, bandwidthVars, fleetVars, precursorVars>>
bandwidthOnly ==
    part = "bandwidth" /\ UNCHANGED <<part, relayVars, serverVars, hostsVars, templatesVars, baselinesVars, integrationVars, fleetVars, precursorVars>>
fleetOnly ==
    part = "fleet" /\ UNCHANGED <<part, relayVars, serverVars, hostsVars, templatesVars, baselinesVars, integrationVars, bandwidthVars, precursorVars>>
precursorOnly ==
    part = "precursor" /\ UNCHANGED <<part, relayVars, serverVars, hostsVars, templatesVars, baselinesVars, integrationVars, bandwidthVars, fleetVars>>
Next ==
    \/ relayOnly /\ RelayNext
    \/ serverOnly /\ S!ServerNext
    \/ hostsOnly /\ S!HostsNext
    \/ templatesOnly /\ T!TemplateNext
    \/ baselinesOnly /\ T!BaselineNext
    \/ integrationOnly /\ I!Next
    \/ bandwidthOnly /\ BW!Next
    \/ fleetOnly /\ F!Next
    \/ precursorOnly /\ T!PrecursorNext

(* The fairness of each component.  One component moves in a behaviour, so *)
(* fairness of a disjunction of actions of different components is         *)
(* fairness of each of them.                                               *)
Fairness ==
    /\ WF_vars(\/ relayOnly /\ TakeBatch
               \/ serverOnly /\ S!Worker
               \/ templatesOnly /\ T!FlushBegin
               \/ baselinesOnly /\ T!Compute
               \/ integrationOnly /\ I!Orphans)
    /\ WF_vars(\/ relayOnly /\ (Done \/ Refused \/ SendFails)
               \/ serverOnly /\ S!InsertOk
               \/ templatesOnly /\ T!FlushInsert
               \/ baselinesOnly /\ T!NothingDue)
    /\ WF_vars(\/ relayOnly /\ CountDropped
               \/ serverOnly /\ S!Cancel
               \/ templatesOnly /\ T!FlushCommit)
    /\ WF_vars(\/ serverOnly /\ S!Drain
               \/ templatesOnly /\ T!Reload)
    /\ WF_vars(serverOnly /\ S!Start)
    /\ WF_vars(serverOnly /\ \E w \in S!Flushers : S!Flush(w) \/ S!Nothing(w))
    /\ \A c \in Configs : SF_integrationVars(part = "integration" /\ I!Work(c))
    /\ \A c \in Configs : WF_integrationVars(part = "integration" /\ I!Begin(c))
    /\ \A c \in Configs : WF_integrationVars(part = "integration" /\ I!Ages(c))
Spec == Init /\ [][Next]_vars /\ Fairness

-----------------------------------------------------------------------------
(* Every component's variables have their types.                           *)
TypesOK ==
    /\ part = "relay" => RelayTypeOK
    /\ part = "server" => S!ServerTypeOK
    /\ part = "hosts" => S!HostsTypeOK
    /\ part = "templates" => T!TemplateTypeOK
    /\ part = "baselines" => T!BaselineTypeOK
    /\ part = "integration" => I!TypeOK
    /\ part = "bandwidth" => BW!TypeOK
    /\ part = "fleet" => F!TypeOK
    /\ part = "precursor" => T!PrecursorTypeOK

(* The relay's counters add up, its buffer, batches and connections keep   *)
(* their caps, and what it holds is in the order received; a line is       *)
(* attributed to a host of its own tenant and site only, with an allowlist *)
(* an address nobody owns is not accepted, and a listener closed to        *)
(* strangers closes with the last refresh; and no integration is collected *)
(* by two units at once, although collects outlive their cycle.            *)
Ingested ==
    /\ part = "hosts" => (S!Attributed /\ S!AllowlistHolds /\ S!ListenerCloses)
    /\ part = "relay" => (BufferSound /\ InOrder)
    /\ part = "integration" => I!PolledOnce

(* Every line the server took is in exactly one place or was dropped at a  *)
(* full queue or buffer, through failed inserts, stops and restarts, and   *)
(* what one sender sent is stored in its order; the rates of an interface  *)
(* never show more traffic than there was, unless heartbeats of an agent   *)
(* overtake or overlap each other; the count of a template is the number   *)
(* of its lines, through failed flushes and restarts; a template that is   *)
(* cached as known has its row, unless the cleanup has just removed it; no *)
(* hour is folded into a baseline twice, whoever leads; a template on      *)
(* enough hosts for long enough is reported, unless its rule failed, and   *)
(* what is new or comes before trouble is never chatter; the merged        *)
(* windows before events hold what was logged before each; and a template  *)
(* that people called noise predicts nothing any more, unless two edits of *)
(* the list overlapped.                                                    *)
RecordsRight ==
    /\ part = "server" => S!Accounted /\ S!StoredInOrder
    /\ part = "bandwidth" => BW!NotCountedTwice
    /\ part = "templates" => T!CountsExact /\ T!CacheSound
    /\ part = "baselines" => T!HoursOnce
    /\ part = "fleet" => F!FleetReported /\ F!NewsHeard /\ F!RowsChecked
    /\ part = "precursor" => T!WindowsExact /\ T!NoiseSilenced

(* What the relay buffered is handed over; what the server took is stored; *)
(* a template the cleanup removed is created again; every past hour is     *)
(* folded; and the incidents of integrations come to say what the devices  *)
(* are, whatever is edited, deleted or restarted meanwhile.                *)
DataFlows ==
    []<>CASE part = "relay" -> Empty
          [] part = "server" -> S!Drained
          [] part = "templates" -> T!AllStored
          [] part = "baselines" -> T!AllFolded
          [] part = "integration" -> I!IncidentsTrue
          [] OTHER -> TRUE

=============================================================================
