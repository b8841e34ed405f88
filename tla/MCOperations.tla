--------------------------- MODULE MCOperations ----------------------------
(* Instance of what runs the installation for TLC: the updater sidecar,    *)
(* the rebuild of the ClickHouse tables that follows a migration, the      *)
(* checks the installation makes of itself and its scheduled reports, and  *)
(* the forecasts of when a disk is full. They share no variable, so each   *)
(* behaviour moves one of them.                                            *)
EXTENDS Naturals, Updater

CONSTANTS
    N, LateCopies, Coincide, MaxDeletes, MaxCopyFaults, Streams, Probes, Jobs, Grace,
    MaxCheckFaults, Replicas, ReportKinds, Period, Guard, MaxReportFaults, Customers, Pages, Full,
    DiskLevels, Lookback, Budget, Newest, Ttl, MinHistory, MaxHistory, Soon, Later, MaxDays,
    MaxComputed, MaxForecastFaults

VARIABLES
    part,  \* the component this behaviour is about
    parts, next, flight, rebuild_work, staging, truth, prog, intent, where, state, stopped,
    rebuild_pc, stable, seen, names, stage, odd, abandoned, deletes, rebuild_faults,
    broken, used, age, quiet, reported, due, up, leading, behind, inc, selfcheck_faults,
    kind, hour, slot, enabled, leader, ticked, reports_pc, mark, gap, unmarked, log, reports_raced,
    reportFaults,
    now, taken, history, cache, forecast_work, shown, forecast_raced, computed, forecast_faults

R == INSTANCE ClickHouseRebuild WITH
    MaxFaults <- MaxCopyFaults, work <- rebuild_work, pc <- rebuild_pc, faults <- rebuild_faults
SC == INSTANCE Reports WITH
    MaxFaults <- MaxCheckFaults, Kinds <- ReportKinds, faults <- selfcheck_faults, pc <- reports_pc,
    raced <- reports_raced
F == INSTANCE Forecasts WITH
    Tenants <- Customers, Levels <- DiskLevels, Window <- Lookback, MaxTime <- MaxDays, MaxFaults <-
    MaxForecastFaults, work <- forecast_work, raced <- forecast_raced, faults <- forecast_faults

rebuildVars ==
    <<parts, next, flight, rebuild_work, staging, truth, prog, intent, where, state, stopped,
      rebuild_pc, stable, seen, names, stage, odd, abandoned, deletes, rebuild_faults>>
selfcheckVars ==
    <<broken, used, age, quiet, reported, due, up, leading, behind, inc, selfcheck_faults>>
reportsVars ==
    <<kind, hour, slot, enabled, leader, ticked, reports_pc, mark, gap, unmarked, log,
      reports_raced, reportFaults>>
forecastVars ==
    <<now, taken, history, cache, forecast_work, shown, forecast_raced, computed, forecast_faults>>
vars == <<part, updaterVars, rebuildVars, selfcheckVars, reportsVars, forecastVars>>

Init ==
    /\ part \in {"updater", "rebuild", "selfcheck", "reports", "forecast"}
    /\ UpdaterInit /\ (part # "updater" => mode = CHOOSE m \in Modes : TRUE)
    /\ R!Init
    /\ SC!CheckInit
    /\ SC!ReportInit /\ (part # "reports" => kind = "daily" /\ leader = CHOOSE r \in Replicas : TRUE)
    /\ F!Init

(* A step of one component leaves the others alone.                        *)
updaterOnly ==
    part = "updater" /\ UNCHANGED <<part, rebuildVars, selfcheckVars, reportsVars, forecastVars>>
rebuildOnly ==
    part = "rebuild" /\ UNCHANGED <<part, updaterVars, selfcheckVars, reportsVars, forecastVars>>
selfcheckOnly ==
    part = "selfcheck" /\ UNCHANGED <<part, updaterVars, rebuildVars, reportsVars, forecastVars>>
reportsOnly ==
    part = "reports" /\ UNCHANGED <<part, updaterVars, rebuildVars, selfcheckVars, forecastVars>>
forecastOnly ==
    part = "forecast" /\ UNCHANGED <<part, updaterVars, rebuildVars, selfcheckVars, reportsVars>>
Next ==
    \/ updaterOnly /\ UpdaterNext
    \/ rebuildOnly /\ R!Next
    \/ selfcheckOnly /\ SC!CheckNext
    \/ reportsOnly /\ SC!ReportNext
    \/ forecastOnly /\ F!Next

(* The fairness of each component.  One component moves in a behaviour, so *)
(* fairness of a disjunction of actions of different components is         *)
(* fairness of each of them.                                               *)
Fairness ==
    /\ WF_vars(\/ updaterOnly /\ RunStep
               \/ rebuildOnly /\ R!Job
               \/ selfcheckOnly /\ SC!Tick
               \/ reportsOnly /\ SC!Hour)
    /\ WF_vars(\/ updaterOnly /\ BackupEnd
               \/ rebuildOnly /\ R!InsertCommit(1)
               \/ selfcheckOnly /\ SC!Checks
               \/ reportsOnly /\ SC!Works("a"))
    /\ WF_vars(\/ updaterOnly /\ LateMigration(1)
               \/ rebuildOnly /\ R!InsertCommit(2)
               \/ selfcheckOnly /\ SC!Runs("job")
               \/ reportsOnly /\ SC!Works("b"))
    /\ WF_vars(\/ updaterOnly /\ LateMigration(2)
               \/ rebuildOnly /\ R!InsertCommit(3))
    /\ WF_vars(updaterOnly /\ LateMigration(3))
    /\ SF_vars(\/ updaterOnly /\ StartRun
               \/ rebuildOnly /\ R!Exchange
               \/ reportsOnly /\ enabled /\ SC!Due /\ SC!ReportTick("a", TRUE))
    /\ SF_vars(\/ rebuildOnly /\ R!NextPass /\ stable'
               \/ reportsOnly /\ enabled /\ SC!Due /\ SC!ReportTick("b", TRUE))
Spec == Init /\ [][Next]_vars /\ Fairness

-----------------------------------------------------------------------------
(* Every component's variables have their types.                           *)
TypesOK ==
    /\ part = "updater" => UpdaterTypeOK
    /\ part = "rebuild" => R!TypeOK
    /\ part = "selfcheck" => SC!CheckTypeOK
    /\ part = "reports" => SC!ReportTypeOK
    /\ part = "forecast" => F!TypeOK

(* From the exchange on no row is in the live table twice, and once the    *)
(* rebuild is reported complete it has every row that was written and not  *)
(* deleted; the old table is dropped only then.                            *)
RowsExact ==
    /\ part = "rebuild" => (R!NoDuplicate /\ R!Complete)

(* The self-check opens an incident only for what has delivered nothing    *)
(* for its grace, or a job the new leader has not completed; a scheduled   *)
(* report goes out once in its slot, unless the one before was not marked; *)
(* a disk gets a date to be full by only if it fills, within what its      *)
(* steepest and flattest rise allow, from samples spread over the whole    *)
(* window; and a page shows its own tenant's forecast, fresh, and no older *)
(* one than before unless two computations overlapped.                     *)
AlarmsEarned ==
    /\ SC!AlarmEarned /\ SC!Spaced /\ F!AnswersFresh
    /\ [](part = "forecast" => F!DateHonest /\ F!ThinnedEvenly /\ F!AnswersOwn)

(* A checkout is brought to the newest release by running the update       *)
(* again, whatever step failed before, and the state file does not say     *)
(* "running" for ever; the rebuild comes to an end although its runs are   *)
(* cut short; what stays broken is shown by the self-check and no alarm is *)
(* left once it works; a report that is wanted keeps going out.            *)
UpdateSettles ==
    /\ CatchesUp /\ StatusSettles
    /\ part = "rebuild" => R!Ends
    /\ []<>CASE part = "selfcheck" -> SC!Shown
            [] part = "reports" -> gap = 0 \/ ~enabled
            [] OTHER -> TRUE

=============================================================================
