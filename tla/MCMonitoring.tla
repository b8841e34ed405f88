--------------------------- MODULE MCMonitoring ----------------------------
(* Instance of the components that watch hosts and agents for TLC: the     *)
(* check cycle of a host, its port errors, the services an agent watches,  *)
(* and the agents themselves: enrolment, log collectors, self-update. They *)
(* share no variable, so each behaviour moves one of them.                 *)
EXTENDS Naturals, HostChecks, AgentServices

CONSTANTS
    SetAfter, ClearAfter, MaxPortChanges, MaxPortFaults, LogKinds, Limit, Interval, MaxEntries,
    MaxClock, MaxFails, MaxRestarts, MaxRotations, Machines, MaxReqs, MaxChanges, Binaries, Scripts,
    Released, Foreign, AgentKinds, MaxDeploys, MaxFlips, Requests, Addresses, MaxWrites,
    EditsOverlap

VARIABLES
    part,  \* the component this behaviour is about
    port_up, ok, port_watched, checks, portErr, fail, pass, port_cycle, port_changes, port_faults,
    bad,
    collect_kind, stamps, base, clock, last, pos, upto, got, twice, excused, over, swapped, fails,
    restarts, rotations,
    agent, issued, cfg, inst, reqs, install, command, enrol_report, lost, dropped, queued, done,
    enrol_changes,
    served, sig, cache, multi, probe, update_kind, update_running, key, strict, trust, saved, offer,
    update_told, deploys, flips,
    edits_row, req, job, data, stale, writes

P == INSTANCE PortErrors WITH
    MaxChanges <- MaxPortChanges, MaxFaults <- MaxPortFaults, up <- port_up, watched <-
    port_watched, cycle <- port_cycle, changes <- port_changes, faults <- port_faults
C == INSTANCE AgentCollectors WITH
    Kinds <- LogKinds, kind <- collect_kind
E == INSTANCE Agents WITH
    Kinds <- AgentKinds, report <- enrol_report, changes <- enrol_changes, kind <- update_kind,
    running <- update_running, told <- update_told
X == INSTANCE IntegrationEdits WITH
    Overlap <- EditsOverlap, row <- edits_row
ASSUME HostChecksAssumption
ASSUME P!PortErrorsAssumption
ASSUME ServicesAssumption
ASSUME C!CollectAssumption
ASSUME E!EnrolmentAssumption
ASSUME X!EditsAssumption

portVars ==
    <<port_up, ok, port_watched, checks, portErr, fail, pass, port_cycle, port_changes, port_faults,
      bad>>
collectVars ==
    <<collect_kind, stamps, base, clock, last, pos, upto, got, twice, excused, over, swapped, fails,
      restarts, rotations>>
enrolVars ==
    <<agent, issued, cfg, inst, reqs, install, command, enrol_report, lost, dropped, queued, done,
      enrol_changes>>
updateVars ==
    <<served, sig, cache, multi, probe, update_kind, update_running, key, strict, trust, saved,
      offer, update_told, deploys, flips>>
editsVars ==
    <<edits_row, req, job, data, stale, writes>>
vars == <<part, hostVars, portVars, servicesVars, collectVars, enrolVars, updateVars, editsVars>>

Init ==
    /\ part \in {"host", "port", "services", "collect", "enrol", "update", "edits"}
    /\ HostInit /\ (part # "host" => source = "icmp")
    /\ P!Init
    /\ ServicesInit
    /\ C!Init /\ (part # "collect" => collect_kind = "file")
    /\ E!EnrolmentInit
    /\ E!UpdateInit /\ (part # "update" => update_kind = "script" /\ ~multi /\ ~key /\ ~strict)
    /\ X!Init /\ (part # "edits" => edits_row.at = "a")

(* A step of one component leaves the others alone.                        *)
hostOnly ==
    part = "host" /\ UNCHANGED <<part, portVars, servicesVars, collectVars, enrolVars, updateVars, editsVars>>
portOnly ==
    part = "port" /\ UNCHANGED <<part, hostVars, servicesVars, collectVars, enrolVars, updateVars, editsVars>>
servicesOnly ==
    part = "services" /\ UNCHANGED <<part, hostVars, portVars, collectVars, enrolVars, updateVars, editsVars>>
collectOnly ==
    part = "collect" /\ UNCHANGED <<part, hostVars, portVars, servicesVars, enrolVars, updateVars, editsVars>>
enrolOnly ==
    part = "enrol" /\ UNCHANGED <<part, hostVars, portVars, servicesVars, collectVars, updateVars, editsVars>>
updateOnly ==
    part = "update" /\ UNCHANGED <<part, hostVars, portVars, servicesVars, collectVars, enrolVars, editsVars>>
editsOnly ==
    part = "edits" /\ UNCHANGED <<part, hostVars, portVars, servicesVars, collectVars, enrolVars, updateVars>>
Next ==
    \/ hostOnly /\ HostNext
    \/ portOnly /\ P!Next
    \/ servicesOnly /\ ServicesNext
    \/ collectOnly /\ C!Next
    \/ enrolOnly /\ E!EnrolmentNext
    \/ updateOnly /\ E!UpdateNext
    \/ editsOnly /\ X!Next

(* The fairness of each component.  One component moves in a behaviour, so *)
(* fairness of a disjunction of actions of different components is         *)
(* fairness of each of them.                                               *)
Fairness ==
    /\ WF_vars(\/ hostOnly /\ Begin
               \/ portOnly /\ P!Begin
               \/ servicesOnly /\ (ReportCommit \/ ReportFails)
               \/ updateOnly /\ E!Runs /\ E!Version)
    /\ WF_vars(\/ hostOnly /\ Finish
               \/ portOnly /\ P!Finish
               \/ servicesOnly /\ (EditCommit \/ EditFails)
               \/ updateOnly /\ E!Runs /\ E!Download)
    /\ WF_vars(hostOnly /\ AgentCycle)
    /\ WF_vars(hostOnly /\ Tick)
    /\ SF_vars(servicesOnly /\ ReportRead(Services))
    /\ SF_vars(servicesOnly /\ ReportArrives)
Spec == Init /\ [][Next]_vars /\ Fairness

-----------------------------------------------------------------------------
(* Every component's variables have their types.                           *)
TypesOK ==
    /\ part = "host" => HostTypeOK
    /\ part = "port" => P!TypeOK
    /\ part = "services" => ServicesTypeOK
    /\ part = "collect" => C!TypeOK
    /\ part = "enrol" => E!EnrolmentTypeOK
    /\ part = "update" => E!UpdateTypeOK
    /\ part = "edits" => X!TypeOK

(* An agent passes over no log entry and sends none twice, but for the     *)
(* windows and failures its collectors accept; no machine takes over       *)
(* another one's agent; a token that is dead was replaced or deleted; an   *)
(* uninstall command is cleared only for the report that carries it; and   *)
(* the stored secret of an integration goes to no address it was not       *)
(* entered for.                                                            *)
AgentsSafe ==
    /\ part = "collect" => (C!NothingSkipped /\ C!SentOnce)
    /\ part = "enrol" => (E!NoTakeover /\ E!DeadTokenExplained /\ E!CommandKept)
    /\ part = "edits" => X!SecretStays

(* An agent that was told to take only signed binaries takes no other from *)
(* then on; a native agent comes to run what is served, if it may; and a   *)
(* result of an integration is stored only while its settings are those it *)
(* was collected with.                                                     *)
AgentsRun ==
    E!Tightened /\ E!KeepsUp /\ X!DataCurrent

(* A watched service that stays down is alerted, one that stays up has no  *)
(* live incident in the end; an outage is announced once no cycle has seen *)
(* the host answer for the grace period, and is announced; the flag of a   *)
(* failing service is set for consecutive failures and cleared when it     *)
(* works again.                                                            *)
Told ==
    DownAlerts /\ UpResolves /\ GraceKept /\ OutageAnnounced /\ P!PortErrorEarned /\ P!ErrorClears

=============================================================================
