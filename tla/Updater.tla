------------------------------ MODULE Updater ------------------------------
(***************************************************************************)
(* The updater sidecar (sidecar/update-server.py, orchestrator.py,         *)
(* image_update.py), the backend's proxy (routers/update.py) and what it   *)
(* updates: the checkout or pinned release on disk, the images, the app    *)
(* container, whose entrypoint migrates (backend/migrate.py), the database *)
(* schema and the dumps.  A version is a number; an app of version v needs *)
(* the schema v and does not know a higher one.                            *)
(*                                                                         *)
(* Left out: command lines, compose project and path resolution, texts.    *)
(* A step that runs a command may always fail; MaxFaults bounds failed     *)
(* steps, crashes of the sidecar, restarts of the app and moved tags       *)
(* together.                                                               *)
(***************************************************************************)
EXTENDS Naturals, Sequences

CONSTANTS
    Modes,          \* NODEGLOW_UPDATE_MODE: "git", "image"
    Retention,      \* BACKUP_RETENTION
    MaxVersion,     \* bound: releases
    MaxFaults       \* bound: see above

(* A retention of 0 would keep no dump at all.                             *)
ASSUME UpdaterAssumption ==
    /\ Modes \subseteq {"git", "image"}
    /\ Retention \in Nat \ {0} /\ MaxVersion \in Nat \ {0} /\ MaxFaults \in Nat

VARIABLES
    mode,
    newest,         \* origin/main, or the newest release
    moved,          \* releases whose tag names an unsigned image by now
    pinned,         \* checked-out version, or NODEGLOW_VERSION in .env
    built,          \* git mode: version of the image built last
    local,          \* image mode: local image per release: none, signed or other
    app,            \* app container: version and content of its image, does it serve
    schema,         \* revision of the database
    late,           \* migrations that run on although their caller is gone
    dumps,          \* per kind, the dumps in the backup directory, oldest first
    run,            \* index of the worker's step, 0 when no run is active
    plan,           \* Ctx.plan: release to install, verified digest, replaced .env
    dumping,        \* _backup_status["running"]
    file,           \* status in the state file
    faults

outside == <<mode, newest, moved>>
disk == <<pinned, built, local>>
updaterVars == <<outside, disk, app, schema, late, dumps, run, plan, dumping, file, faults>>

Versions == 1..MaxVersion
Kinds == {"pre-update", "scheduled"}
(* The state before the worker's first write is "new"; "backup" is the     *)
(* start of dump_database, "dump" the stream into the final file.          *)
GitSteps == <<"new", "preflight", "backup", "dump", "pull", "build", "migrate", "restart">>
ImageSteps == <<"new", "preflight", "resolve", "verify", "backup", "dump", "pull", "stage",
                "install", "migrate", "restart", "handoff">>
Steps == IF mode = "git" THEN GitSteps ELSE ImageSteps
At(s) == run # 0 /\ Steps[run] = s
NoPlan == [target |-> 0, digest |-> "none", replaced |-> 0]

Larger(a, b) == IF a > b THEN a ELSE b
Fault == faults < MaxFaults /\ faults' = faults + 1

-----------------------------------------------------------------------------
(* A run (start_run, run_update).                                          *)

(* start_run, under _run_lock.  Mutant: a dump does not keep a run off.    *)
StartRun_IgnoresDump ==
    /\ run = 0
    /\ run' = 1 /\ plan' = NoPlan
    /\ UNCHANGED <<outside, disk, app, schema, late, dumps, dumping, file, faults>>
StartRun ==
    /\ run = 0 /\ ~dumping
    /\ run' = 1 /\ plan' = NoPlan
    /\ UNCHANGED <<outside, disk, app, schema, late, dumps, dumping, file, faults>>

(* The step returned: the next one is written as running, or the run as    *)
(* done.                                                                   *)
Advance ==
    IF run = Len(Steps)
    THEN run' = 0 /\ file' = "done"
    ELSE run' = run + 1 /\ file' = "running"
(* The step raised: "failed" is written and the chain ends.                *)
(* Mutant: the state file keeps the step's "running".                      *)
Abort_Silently == run' = 0 /\ UNCHANGED file
Abort == run' = 0 /\ file' = "failed"

(* The worker writes the fresh state; until then the file is the one of    *)
(* the run before.                                                         *)
Begin ==
    /\ At("new") /\ Advance
    /\ UNCHANGED <<outside, disk, app, schema, late, dumps, plan, dumping, faults>>

(* A step that changes nothing but its own plan, and may fail.             *)
Check(s) ==
    /\ At(s)
    /\ \/ Advance /\ UNCHANGED faults
       \/ Abort /\ Fault
    /\ UNCHANGED <<outside, disk, app, schema, late, dumps, dumping>>

Preflight == mode = "git" /\ Check("preflight") /\ UNCHANGED plan
ImagePreflight == mode = "image" /\ Check("preflight") /\ UNCHANGED plan

(* newer_releases: above the release that .env pins.                       *)
NewerReleases == {v \in Versions : pinned < v /\ v <= newest}
(* The newest of them, or nothing to do.                                   *)
Resolve ==
    /\ At("resolve")
    /\ \/ /\ newest \in NewerReleases
          /\ Advance /\ plan' = [plan EXCEPT !.target = newest] /\ UNCHANGED faults
       \/ NewerReleases = {} /\ Abort /\ UNCHANGED <<plan, faults>>
       \/ Abort /\ Fault /\ UNCHANGED plan
    /\ UNCHANGED <<outside, disk, app, schema, late, dumps, dumping>>

(* cosign reports the digest of a signed image and fails on another.       *)
Verify ==
    /\ At("verify")
    /\ \/ /\ plan.target \notin moved
          /\ Advance /\ plan' = [plan EXCEPT !.digest = "signed"] /\ UNCHANGED faults
       \/ plan.target \in moved /\ Abort /\ UNCHANGED <<plan, faults>>
       \/ Abort /\ Fault /\ UNCHANGED plan
    /\ UNCHANGED <<outside, disk, app, schema, late, dumps, dumping>>

-----------------------------------------------------------------------------
(* Dumps (dump_database, prune_backups).                                   *)

NewDump(kind) == [dumps EXCEPT ![kind] = Append(@, [schema |-> schema, whole |-> FALSE])]
Finished(s) == [s EXCEPT ![Len(s)].whole = TRUE]
(* Mutant: nothing is pruned.                                              *)
Kept_All(s) == s
Kept(s) == IF Len(s) <= Retention THEN s ELSE SubSeq(s, Len(s) - Retention + 1, Len(s))
(* Mutant: the kinds share one retention.                                  *)
Pruned_Together(kind) ==
    [k \in Kinds |->
        CASE k = kind -> Kept(Finished(dumps[k]))
          [] k # kind /\ Len(dumps["pre-update"]) + Len(dumps["scheduled"]) > Retention -> <<>>
          [] OTHER -> dumps[k]]
(* The dump ends well: the Retention newest of its kind stay.              *)
Pruned(kind) == [dumps EXCEPT ![kind] = Kept(Finished(@))]
(* It fails: its partial file is removed.                                  *)
Dropped(kind) == [dumps EXCEPT ![kind] = SubSeq(@, 1, Len(@) - 1)]

StepBackupBegin ==
    /\ At("backup") /\ Advance
    /\ dumps' = NewDump("pre-update")
    /\ UNCHANGED <<outside, disk, app, schema, late, plan, dumping, faults>>
StepBackupEnd ==
    /\ At("dump")
    /\ \/ dumps' = Pruned("pre-update") /\ Advance /\ UNCHANGED faults
       \/ dumps' = Dropped("pre-update") /\ Abort /\ Fault
    /\ UNCHANGED <<outside, disk, app, schema, late, plan, dumping>>

(* scheduled_backup_once: the flag is set under the lock ...               *)
BackupBegin ==
    /\ run = 0 /\ ~dumping
    /\ dumping' = TRUE
    /\ dumps' = NewDump("scheduled")
    /\ UNCHANGED <<outside, disk, app, schema, late, run, plan, file, faults>>
(* ... and cleared when the dump ended, either way.                        *)
BackupEnd ==
    /\ dumping /\ dumping' = FALSE
    /\ \/ dumps' = Pruned("scheduled") /\ UNCHANGED faults
       \/ dumps' = Dropped("scheduled") /\ Fault
    /\ UNCHANGED <<outside, disk, app, schema, late, run, plan, file>>

-----------------------------------------------------------------------------
(* New code on disk: pull and build, or pull, stage and install.           *)

(* A failure may come before the fast-forward or from the check after it.  *)
(* Mutant: nothing to pull ends the run.                                   *)
Pull_OnlyNew ==
    /\ At("pull") /\ mode = "git"
    /\ IF newest > pinned THEN pinned' = newest /\ Advance ELSE Abort /\ UNCHANGED pinned
    /\ UNCHANGED <<outside, built, local, app, schema, late, dumps, plan, dumping, faults>>
Pull ==
    /\ At("pull") /\ mode = "git"
    /\ \/ pinned' = newest /\ Advance /\ UNCHANGED faults
       \/ pinned' \in {pinned, newest} /\ Abort /\ Fault
    /\ UNCHANGED <<outside, built, local, app, schema, late, dumps, plan, dumping>>

Build ==
    /\ At("build")
    /\ \/ built' = pinned /\ Advance /\ UNCHANGED faults
       \/ Abort /\ Fault /\ UNCHANGED built
    /\ UNCHANGED <<outside, pinned, local, app, schema, late, dumps, plan, dumping>>

Content(v) == IF v \in moved THEN "other" ELSE "signed"
(* The pull is by tag: the local image has to match the verified digest.   *)
(* Mutant: the digests are not compared.                                   *)
ImagePull_Unchecked ==
    /\ At("pull") /\ mode = "image"
    /\ local' = [local EXCEPT ![plan.target] = Content(plan.target)]
    /\ Advance
    /\ UNCHANGED <<outside, pinned, built, app, schema, late, dumps, plan, dumping, faults>>
ImagePull ==
    /\ At("pull") /\ mode = "image"
    /\ \/ /\ local' = [local EXCEPT ![plan.target] = Content(plan.target)]
          /\ IF local'[plan.target] = plan.digest THEN Advance ELSE Abort
          /\ UNCHANGED faults
       \/ Abort /\ Fault /\ UNCHANGED local
    /\ UNCHANGED <<outside, pinned, built, app, schema, late, dumps, plan, dumping>>

Stage == Check("stage") /\ UNCHANGED plan

(* step_install; on an error it reverts what it replaced.                  *)
Install ==
    /\ At("install")
    /\ \/ /\ pinned' = plan.target /\ plan' = [plan EXCEPT !.replaced = pinned]
          /\ Advance /\ UNCHANGED faults
       \/ Abort /\ Fault /\ UNCHANGED <<pinned, plan>>
    /\ UNCHANGED <<outside, built, local, app, schema, late, dumps, dumping>>

-----------------------------------------------------------------------------
(* Migrating and restarting.                                               *)

Target == IF mode = "git" THEN built ELSE plan.target

(* migrate.py of version v: the revisions are one transaction.  A revision *)
(* it does not know is an error.                                           *)
Migrates(v) == schema <= v
(* What a failing migrate may leave: nothing, the revisions without the    *)
(* row-level-security setup after them, or a container that still runs     *)
(* when the call timed out.                                                *)
MigrationLeft ==
    \/ UNCHANGED <<schema, late>>
    \/ Migrates(Target) /\ schema' = Target /\ UNCHANGED late
    \/ late' = late \cup {Target} /\ UNCHANGED schema

(* revert_install, in image mode.                                          *)
Reverted == IF plan.replaced = 0 THEN pinned ELSE plan.replaced

Migrate ==
    /\ At("migrate")
    /\ \/ /\ Migrates(Target) /\ schema' = Target
          /\ Advance /\ UNCHANGED <<pinned, late, faults>>
       \/ /\ ~Migrates(Target)
          /\ Abort /\ pinned' = Reverted /\ UNCHANGED <<schema, late, faults>>
       \/ MigrationLeft /\ Abort /\ pinned' = Reverted /\ Fault
    /\ UNCHANGED <<outside, built, local, app, dumps, plan, dumping>>

(* The migration nobody waits for any more ends.                           *)
LateMigration(v) ==
    /\ v \in late
    /\ late' = late \ {v}
    /\ schema' = Larger(schema, v)
    /\ UNCHANGED <<outside, disk, app, dumps, run, plan, dumping, file, faults>>

(* The entrypoint: it migrates and then starts the app, or refuses.        *)
(* Mutant: the app starts without it.                                      *)
Started_Unmigrated(v) ==
    /\ app' = [version |-> v, content |-> IF mode = "git" THEN "signed" ELSE local[v], up |-> TRUE]
    /\ UNCHANGED schema
Started(v) ==
    /\ app' = [version |-> v, content |-> IF mode = "git" THEN "signed" ELSE local[v],
               up |-> Migrates(v)]
    /\ schema' = Larger(schema, v)

(* compose up -d; a failure may leave the old containers, none, or the new *)
(* ones.                                                                   *)
Restart ==
    /\ At("restart")
    /\ \/ Started(Target) /\ Advance /\ UNCHANGED faults
       \/ /\ \/ UNCHANGED <<app, schema>>
             \/ app' = [app EXCEPT !.up = FALSE] /\ UNCHANGED schema
             \/ Started(Target)
          /\ Abort /\ Fault
    /\ UNCHANGED <<outside, disk, late, dumps, plan, dumping>>

(* step_handoff never fails; a helper replaces the sidecar afterwards,     *)
(* which is Crash.                                                         *)
Handoff ==
    /\ At("handoff") /\ Advance
    /\ UNCHANGED <<outside, disk, app, schema, late, dumps, plan, dumping, faults>>

-----------------------------------------------------------------------------
(* The world around it.                                                    *)

(* The sidecar's container dies and starts again: threads, plan and flag   *)
(* are gone, files stay; a command it was waiting for may go on.           *)
Crash ==
    /\ Fault
    /\ run' = 0 /\ plan' = NoPlan /\ dumping' = FALSE
    /\ \/ UNCHANGED <<app, schema, late>>
       \/ At("migrate") /\ late' = late \cup {Target} /\ UNCHANGED <<app, schema>>
       \/ At("restart") /\ Started(Target) /\ UNCHANGED late
    /\ UNCHANGED <<outside, disk, dumps, file>>

(* The app's container restarts on the image it was created from.          *)
AppRestarts ==
    /\ Fault
    /\ Started(app.version)
    /\ UNCHANGED <<outside, disk, late, dumps, run, plan, dumping, file>>

(* An operator runs compose up by hand.                                    *)
ManualUp ==
    /\ Fault /\ run = 0
    /\ Started(IF mode = "git" THEN built ELSE pinned)
    /\ UNCHANGED <<outside, disk, late, dumps, run, plan, dumping, file>>

Publish ==
    /\ newest < MaxVersion
    /\ newest' = newest + 1
    /\ UNCHANGED <<mode, moved, disk, app, schema, late, dumps, run, plan, dumping, file, faults>>

TagMoves ==
    /\ Fault
    /\ moved' = IF newest \in moved THEN moved \ {newest} ELSE moved \cup {newest}
    /\ UNCHANGED <<mode, newest, disk, app, schema, late, dumps, run, plan, dumping, file>>

UpdaterInit ==
    /\ mode \in Modes /\ newest = 1 /\ moved = {}
    /\ pinned = 1 /\ built = 1
    /\ local = [v \in Versions |-> IF v = 1 THEN "signed" ELSE "none"]
    /\ app = [version |-> 1, content |-> "signed", up |-> TRUE]
    /\ schema = 1 /\ late = {}
    /\ dumps = [k \in Kinds |-> <<>>]
    /\ run = 0 /\ plan = NoPlan /\ dumping = FALSE
    /\ file = "idle" /\ faults = 0

RunStep ==
    \/ Begin \/ Preflight \/ ImagePreflight \/ Resolve \/ Verify \/ StepBackupBegin \/ StepBackupEnd
    \/ Pull \/ Build \/ ImagePull \/ Stage \/ Install \/ Migrate \/ Restart \/ Handoff
UpdaterNext ==
    \/ StartRun \/ RunStep
    \/ BackupBegin \/ BackupEnd
    \/ \E v \in Versions : LateMigration(v)
    \/ Crash \/ AppRestarts \/ ManualUp \/ Publish \/ TagMoves

UpdaterSpec == UpdaterInit /\ [][UpdaterNext]_updaterVars

(* Commands end or time out, a dump ends, and somebody keeps starting      *)
(* runs; the scheduled dump, which disables a start, is over most of the   *)
(* day.                                                                    *)
UpdaterFairness ==
    /\ WF_updaterVars(RunStep) /\ WF_updaterVars(BackupEnd) /\ SF_updaterVars(StartRun)
    /\ \A v \in Versions : WF_updaterVars(LateMigration(v))
UpdaterFairSpec == UpdaterSpec /\ UpdaterFairness

-----------------------------------------------------------------------------
(* Properties.                                                             *)

Contents == {"none", "signed", "other"}
Dump == [schema : Versions, whole : BOOLEAN]
UpdaterTypeOK ==
    /\ mode \in Modes /\ newest \in Versions /\ moved \subseteq Versions
    /\ pinned \in Versions /\ built \in Versions /\ local \in [Versions -> Contents]
    /\ app \in [version : Versions, content : Contents, up : BOOLEAN]
    /\ schema \in Versions /\ late \subseteq Versions
    /\ dumps \in [Kinds -> Seq(Dump)] /\ faults \in 0..MaxFaults
    /\ \A k \in Kinds : Len(dumps[k]) <= Retention + MaxFaults + 1
    /\ run \in 0..Len(Steps) /\ dumping \in BOOLEAN
    /\ plan \in [target : 0..MaxVersion, digest : Contents, replaced : 0..MaxVersion]
    /\ file \in {"idle", "running", "done", "failed"}

(* New code never serves on an old schema, however runs, crashes, failed   *)
(* migrations and restarts by hand interleave (migrate.py: "code for       *)
(* revision 030 running against schema 028").                              *)
NeverAhead == app.up => app.version <= schema

(* When the schema has left the serving app behind, the directory has a    *)
(* whole pre-update dump that app can run on, unless Retention later runs  *)
(* pushed it out (the partial file of a crashed one counts).  Scheduled    *)
(* dumps never do.                                                         *)
RecoveryPath ==
    LET pre == dumps["pre-update"] IN
    app.up /\ app.version < schema =>
        \/ \E i \in DOMAIN pre : pre[i].whole /\ pre[i].schema <= app.version
        \/ Len(pre) >= Retention

(* While a run migrates, the newest pre-update dump is whole and no other  *)
(* dump is being written: the lock keeps runs and scheduled dumps apart.   *)
DumpedBeforeMigrate ==
    At("migrate") \/ At("restart") =>
        /\ dumps["pre-update"] # <<>>
        /\ dumps["pre-update"][Len(dumps["pre-update"])].whole
        /\ ~dumping

(* In image mode only signed images run, though verification and pull ask  *)
(* for the tag one after the other.                                        *)
OnlyVerified == app.content = "signed"

(* All four, through every interleaving of runs, scheduled dumps, crashes, *)
(* failed steps, migrations nobody waits for, restarts and moved tags.     *)
UpgradeSafe == NeverAhead /\ RecoveryPath /\ DumpedBeforeMigrate /\ OnlyVerified

(* After the last fault and the last release a checkout is brought to that *)
(* release by running the update again, whatever step failed before.       *)
Current == app.up /\ app.version = newest
CatchesUp == <>[](Current \/ mode = "image")

(* The state file does not say "running" for ever.                         *)
StatusSettles == []<>(file # "running")

(* The same for image mode ("resolve: picks the newest release above the   *)
(* running one", docs/INSTALL.md).                                         *)
ImageCatchesUp == <>[](Current \/ newest \in moved)
=============================================================================
