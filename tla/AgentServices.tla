--------------------------- MODULE AgentServices ---------------------------
(***************************************************************************)
(* Watched services of one agent (backend/services/agent_services.py): an  *)
(* editor sets the watch list, the agent learns it from a heartbeat        *)
(* response and reports the state of each service, the backend folds a     *)
(* report into agents.service_states and opens or resolves incidents.      *)
(*                                                                         *)
(* Both handlers read the agent row, compute, and write the whole          *)
(* service_states column back at commit; nothing locks the row.  Names,    *)
(* start types and texts are left out.  An incident is the service it is   *)
(* about: one report is evaluated at a time, so the lookup of              *)
(* _find_or_create_incident keeps it unique.                               *)
(***************************************************************************)
EXTENDS Naturals, FiniteSets

CONSTANTS
    Services,
    FailReports,    \* setting agent_service_fail_reports
    Overlap,        \* the two handlers may run at the same time
    Nobody,           \* no transaction
    MaxEdits        \* bound: changes of the watch list

\* What the constants are assumed to be
ServicesAssumption == FailReports \in Nat \ {0} /\ Overlap \in BOOLEAN /\ MaxEdits \in Nat

VARIABLES
    running,             \* services that run on the agent's machine
    maintenance,    \* the agent's host is in maintenance
    agentList,      \* the watch list the agent knows
    watched,        \* agents.watched_services
    states,         \* agents.service_states: per service, streak and alerted flag
    entries,        \* services that have an entry in service_states
    live,           \* services with an open or acknowledged incident
    report,         \* the evaluation under way
    edit,           \* the watch-list request under way
    edits

servicesVars == <<running, maintenance, agentList, watched, states, entries, live, report, edit, edits>>
agentRow == <<watched, states, entries>>

Fresh == [fails |-> 0, alerted |-> FALSE]
Answers == {"running", "failing", "unclear"}

(* merge_report, for one service: "stopped" and "not_found" extend the     *)
(* streak, "running" ends it, "unknown" and a missing entry hold it.       *)
(* Mutants: an unclear answer ends the streak; "running" takes back one    *)
(* failure.                                                                *)
Merged_UnclearEnds(old, answer) ==
    [old EXCEPT !.fails = IF answer # "failing" THEN 0
                          ELSE IF @ < FailReports THEN @ + 1 ELSE @]
Merged_Decays(old, answer) ==
    [old EXCEPT !.fails = CASE answer = "running" -> @ - 1
                            [] answer = "failing" -> IF @ < FailReports THEN @ + 1 ELSE @
                            [] OTHER -> @]
Merged(old, answer) ==
    [old EXCEPT !.fails = CASE answer = "running" -> 0
                            [] answer = "failing" -> IF @ < FailReports THEN @ + 1 ELSE @
                            [] OTHER -> @]

(* A heartbeat arrives: what the agent found for the services it knows of  *)
(* (it may not be able to tell), and the row as the evaluation reads it.   *)
ReportRead(A) ==
    /\ report = Nobody /\ (Overlap \/ edit = Nobody)
    /\ report' = [answers |-> [s \in Services |->
                     CASE s \notin agentList \cap A -> "unclear"
                       [] s \in running -> "running"
                       [] OTHER -> "failing"],
                  watched |-> watched, states |-> states]
    /\ UNCHANGED <<running, maintenance, agentList, agentRow, live, edit, edits>>

NewStates == [s \in Services |->
    IF s \in report.watched THEN Merged(report.states[s], report.answers[s]) ELSE Fresh]
Opens == {s \in report.watched :
    NewStates[s].fails >= FailReports /\ ~NewStates[s].alerted /\ ~maintenance}
(* Mutant: recoveries are not looked at during maintenance.                *)
Closes_OutOfMaintenance ==
    {s \in Services : /\ report.states[s].alerted /\ ~maintenance
                      /\ s \notin report.watched \/ report.answers[s] = "running"}
Closes ==
    {s \in Services : /\ report.states[s].alerted
                      /\ s \notin report.watched \/ report.answers[s] = "running"}

(* apply_service_report commits; the response carries the list, or is      *)
(* lost.                                                                   *)
ReportCommit ==
    /\ report # Nobody
    /\ live' = (live \cup Opens) \ Closes
    /\ states' = [s \in Services |->
          [NewStates[s] EXCEPT !.alerted = (@ \/ s \in Opens) /\ s \notin Closes]]
    /\ entries' = report.watched
    /\ agentList' \in {agentList, report.watched}
    /\ report' = Nobody
    /\ UNCHANGED <<running, maintenance, watched, edit, edits>>

(* _evaluate_service_states logs an error and drops this report.           *)
ReportFails ==
    /\ report # Nobody
    /\ report' = Nobody
    /\ agentList' \in {agentList, report.watched}
    /\ UNCHANGED <<running, maintenance, agentRow, live, edit, edits>>

(* set_watched_services reads the row ...                                  *)
EditRead(W) ==
    /\ edit = Nobody /\ (Overlap \/ report = Nobody)
    /\ edits < MaxEdits
    /\ edits' = edits + 1
    /\ edit' = [list |-> W, states |-> states, entries |-> entries]
    /\ UNCHANGED <<running, maintenance, agentList, agentRow, live, report>>

(* ... and apply_watch_list_change commits.  Without a dropped entry the   *)
(* column's text does not change and is not written.                       *)
(* Mutant: the dropped services' state goes, their incidents stay.         *)
EditCommit_KeepsIncidents ==
    /\ edit # Nobody
    /\ watched' = edit.list
    /\ states' = [s \in Services |-> IF s \in edit.list THEN states[s] ELSE Fresh]
    /\ edit' = Nobody
    /\ UNCHANGED <<running, maintenance, agentList, entries, live, report, edits>>
EditCommit ==
    /\ edit # Nobody
    /\ watched' = edit.list
    /\ live' = live \ {s \in Services \ edit.list : edit.states[s].alerted}
    /\ IF edit.entries \subseteq edit.list
       THEN UNCHANGED <<states, entries>>
       ELSE /\ states' = [s \in Services |-> IF s \in edit.list THEN edit.states[s] ELSE Fresh]
            /\ entries' = edit.entries \cap edit.list
    /\ edit' = Nobody
    /\ UNCHANGED <<running, maintenance, agentList, report, edits>>

EditFails == edit # Nobody /\ edit' = Nobody /\ UNCHANGED <<running, maintenance, agentList, agentRow, live, report, edits>>

(* A person resolves the incident; the alerted flag stays.                 *)
UserResolve(s) ==
    /\ s \in live
    /\ live' = live \ {s}
    /\ UNCHANGED <<running, maintenance, agentList, agentRow, report, edit, edits>>

ServiceChanges(s) ==
    /\ running' = IF s \in running THEN running \ {s} ELSE running \cup {s}
    /\ UNCHANGED <<maintenance, agentList, agentRow, live, report, edit, edits>>

MaintenanceChanges ==
    /\ maintenance' = ~maintenance
    /\ UNCHANGED <<running, agentList, agentRow, live, report, edit, edits>>

ServicesInit ==
    /\ running = Services /\ maintenance = FALSE
    /\ agentList = {} /\ watched = {}
    /\ states = [s \in Services |-> Fresh] /\ entries = {}
    /\ live = {}
    /\ report = Nobody /\ edit = Nobody /\ edits = 0

ServicesNext ==
    \/ \E A \in SUBSET Services : ReportRead(A)
    \/ ReportCommit \/ ReportFails
    \/ \E W \in SUBSET Services : EditRead(W)
    \/ EditCommit \/ EditFails
    \/ \E s \in Services : UserResolve(s) \/ ServiceChanges(s)
    \/ MaintenanceChanges

ServicesSpec == ServicesInit /\ [][ServicesNext]_servicesVars

(* Heartbeats keep coming, and now and then the agent can tell, the        *)
(* evaluation of that report commits and the response arrives.             *)
AgentCouldTell == \A s \in agentList : report.answers[s] # "unclear"
ReportArrives == ReportCommit /\ AgentCouldTell /\ agentList' = report.watched
ServicesFairness ==
    /\ SF_servicesVars(ReportRead(Services))
    /\ WF_servicesVars(ReportCommit \/ ReportFails)
    /\ SF_servicesVars(ReportArrives)
    /\ WF_servicesVars(EditCommit \/ EditFails)
ServicesFairSpec == ServicesSpec /\ ServicesFairness

-----------------------------------------------------------------------------
(* Properties.                                                             *)

ServiceState == [fails : 0..FailReports, alerted : BOOLEAN]
ServicesTypeOK ==
    /\ running \subseteq Services /\ agentList \subseteq Services /\ watched \subseteq Services
    /\ live \subseteq Services
    /\ maintenance \in BOOLEAN /\ entries \subseteq Services
    /\ states \in [Services -> ServiceState]
    /\ report \in {Nobody} \cup
          [answers : [Services -> Answers], watched : SUBSET Services, states : [Services -> ServiceState]]
    /\ edit \in {Nobody} \cup
          [list : SUBSET Services, states : [Services -> ServiceState], entries : SUBSET Services]
    /\ edits \in 0..MaxEdits

(* An incident is "resolved by the first running report or by removing the *)
(* service from the watch list": every live one belongs to a service whose *)
(* removal or recovery is still going to resolve it.                       *)
IncidentsOwned ==
    report = Nobody /\ edit = Nobody => \A s \in live : s \in watched /\ states[s].alerted

(* A service that stays down and watched, out of maintenance, is alerted   *)
(* in the end, whatever reports, answers or transactions are lost before.  *)
DownAlerts ==
    \A s \in Services :
        <>[](s \in watched /\ s \notin running /\ ~maintenance) => <>[](states[s].alerted)

(* A service that stays up has no live incident in the end, also when it   *)
(* was taken off the watch list or put back on it meanwhile.               *)
UpResolves == \A s \in Services : <>[](s \in running) => <>[](s \notin live)

=============================================================================
