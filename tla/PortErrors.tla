------------------------------ MODULE PortErrors ------------------------------
(* The flag port_error of one host: scheduler.run_ping_checks latches it     *)
(* with hysteresis, manual checks and edits write it from the side.  What    *)
(* the cycle does besides is in HostChecks.                                  *)
EXTENDS Naturals

CONSTANTS
    SetAfter,     \* PORT_ERROR_SET_THRESHOLD
    ClearAfter,   \* PORT_ERROR_CLEAR_THRESHOLD
    MaxChanges,   \* bound: steps of operators
    MaxFaults     \* bound: restarts

\* What the constants are assumed to be
PortErrorsAssumption ==
    /\ SetAfter \in Nat \ {0} /\ ClearAfter \in Nat \ {0}
    /\ MaxChanges \in Nat /\ MaxFaults \in Nat

VARIABLES
    up, ok,              \* the host answers; its service answers
    watched,             \* enabled, not in maintenance, not left to a probe
    checks,              \* the service checks configured, "none" for ICMP only
    portErr,             \* PingHost.port_error
    fail, pass,          \* _port_fail_streak, _port_pass_streak
    cycle,               \* the cycle under way: what it measured; fresh is history:
                         \* it began after the checks were last reset
    changes, faults,
    bad                  \* history: failures in a row since the checks were reset

vars == <<up, ok, watched, checks, portErr, fail, pass, cycle, changes, faults, bad>>

None == "none"
Checks == {None, "tcp", "https"}
Lower(a, b) == IF a < b THEN a ELSE b
Idle == [busy |-> FALSE, checks |-> None, online |-> FALSE, bad |-> FALSE,
         fresh |-> TRUE]

TypeOK ==
    /\ up \in BOOLEAN /\ ok \in BOOLEAN /\ watched \in BOOLEAN
    /\ checks \in Checks /\ portErr \in BOOLEAN
    /\ fail \in 0..SetAfter /\ pass \in 0..ClearAfter /\ bad \in 0..SetAfter
    /\ cycle \in [busy : BOOLEAN, checks : Checks, online : BOOLEAN, bad : BOOLEAN,
                  fresh : BOOLEAN]
    /\ changes \in 0..MaxChanges /\ faults \in 0..MaxFaults

Init ==
    /\ up = TRUE /\ ok = TRUE /\ watched = TRUE /\ checks = "tcp" /\ portErr = FALSE
    /\ fail = 0 /\ pass = 0 /\ cycle = Idle /\ changes = 0 /\ faults = 0 /\ bad = 0

(* check_host: ICMP decides online; a failing service of a host that is      *)
(* online is an error.                                                       *)
check_host == [online |-> up, bad |-> up /\ checks # None /\ ~ok]

(* The first half of the cycle selects the host and measures.                *)
Begin ==
    /\ ~cycle.busy /\ watched
    /\ cycle' = [busy |-> TRUE, checks |-> checks,
                 online |-> check_host.online, bad |-> check_host.bad, fresh |-> TRUE]
    /\ UNCHANGED <<up, ok, watched, checks, portErr, fail, pass, changes, faults, bad>>

PassStreak_Late ==  \* a pass counts only after a pass
    IF pass > 0 /\ cycle.online /\ ~cycle.bad THEN Lower(pass + 1, ClearAfter) ELSE 0
(* The streaks after a measurement, counted as far as the thresholds: only a *)
(* host that is online and has a service check moves them, and they are      *)
(* dropped with the last service check.                                      *)
FailStreak == IF cycle.checks = None THEN 0
              ELSE IF ~cycle.online THEN fail
              ELSE IF cycle.bad THEN Lower(fail + 1, SetAfter) ELSE 0
PassStreak == IF cycle.checks = None THEN 0
              ELSE IF ~cycle.online THEN pass
              ELSE IF cycle.bad THEN 0 ELSE Lower(pass + 1, ClearAfter)
Latched == /\ cycle.checks # None
           /\ IF portErr THEN PassStreak < ClearAfter ELSE FailStreak >= SetAfter

(* The second half reads the row again and writes what changed.              *)
Finish ==
    /\ cycle.busy
    /\ fail' = FailStreak /\ pass' = PassStreak /\ portErr' = Latched
    /\ bad' = IF ~cycle.fresh \/ cycle.checks = None \/ ~cycle.online THEN bad
              ELSE IF cycle.bad THEN Lower(bad + 1, SetAfter) ELSE 0
    /\ cycle' = Idle
    /\ UNCHANGED <<up, ok, watched, checks, changes, faults>>

Operator == changes < MaxChanges /\ changes' = changes + 1

(* ping_check_now writes the raw result of a check outside the cycle.        *)
CheckNow ==
    /\ Operator
    /\ portErr' = check_host.bad
    /\ UNCHANGED <<up, ok, watched, checks, fail, pass, cycle, faults, bad>>

ChangeChecks_Kept ==  \* the streaks survive a change of the checks
    /\ Operator
    /\ checks' \in Checks \ {checks}
    /\ portErr' = FALSE
    /\ bad' = 0 /\ cycle' = [cycle EXCEPT !.fresh = ~cycle.busy]
    /\ UNCHANGED <<up, ok, watched, fail, pass, faults>>
(* update_host, bulk_update_hosts and update_discovered_port: the flag and   *)
(* the streaks start anew.                                                   *)
ChangeChecks ==
    /\ Operator
    /\ checks' \in Checks \ {checks}
    /\ portErr' = FALSE /\ fail' = 0 /\ pass' = 0
    /\ bad' = 0 /\ cycle' = [cycle EXCEPT !.fresh = ~cycle.busy]
    /\ UNCHANGED <<up, ok, watched, faults>>

(* edit_ping_host changes the checks and leaves flag and streaks, against    *)
(* the advice of reset_port_error_state: failures of the old checks count on. *)
EditForm ==
    /\ Operator
    /\ checks' \in Checks \ {checks}
    /\ UNCHANGED <<up, ok, watched, portErr, fail, pass, cycle, faults, bad>>

(* Monitoring is switched, maintenance begins or ends, a probe takes over.   *)
Toggle ==
    /\ Operator /\ watched' = ~watched
    /\ UNCHANGED <<up, ok, checks, portErr, fail, pass, cycle, faults, bad>>

(* A restart of the backend loses the streaks.                               *)
Restart ==
    /\ faults < MaxFaults /\ faults' = faults + 1
    /\ fail' = 0 /\ pass' = 0 /\ cycle' = Idle
    /\ UNCHANGED <<up, ok, watched, checks, portErr, changes, bad>>

World ==
    /\ \/ up' = ~up /\ UNCHANGED ok
       \/ ok' = ~ok /\ UNCHANGED up
    /\ UNCHANGED <<watched, checks, portErr, fail, pass, cycle, changes, faults, bad>>

Next ==
    \/ Begin \/ Finish \/ CheckNow \/ ChangeChecks \/ EditForm \/ Toggle \/ Restart \/ World

(* The scheduler runs its cycle again and again.                             *)
Fairness == WF_vars(Begin) /\ WF_vars(Finish)
Spec == Init /\ [][Next]_vars /\ Fairness

-----------------------------------------------------------------------------
(* The flag of a failing service is set by a cycle only when the service has *)
(* failed in a row since its checks were reset; the one measurement that was *)
(* under way at the reset may count for one of them.  A flapping endpoint, a *)
(* change through the API or a restart does not raise it early.              *)
PortErrorEarned ==
    [][~portErr /\ portErr' /\ cycle.busy /\ ~cycle'.busy => bad' >= SetAfter - 1]_vars

(* The flag of a service that works again is cleared while the core checks   *)
(* its host.  (A host that a probe took over keeps the flag: nothing clears  *)
(* it any more.)                                                             *)
ErrorClears == <>[](watched /\ up /\ ok) => <>[]~portErr

=============================================================================
