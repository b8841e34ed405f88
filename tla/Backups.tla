------------------------------ MODULE Backups ------------------------------
(***************************************************************************)
(* The backup of the database (services/backup.py; download_backup and     *)
(* restore_backup of api_v1.py).  The export reads one table after the     *)
(* other, each as it is committed by then; a table that cannot be read is  *)
(* exported empty.  The restore replaces the tables of the file in one     *)
(* transaction, and only then, in transactions of their own, gives users   *)
(* without a membership one and moves secrets from the key of the          *)
(* installation to the key of their tenant.                                *)
(***************************************************************************)
EXTENDS Integers, Sequences, FiniteSets

CONSTANTS
    Users,
    Tenants,        \* in the database or in a backup
    Existing,       \* of them, those this installation has
    MaxKeys,        \* bound: tenant keys ever created
    MaxSteps        \* bound: writes, exports, restores, faults

(* Tenants are numbered, those of this installation from 1.                *)
BackupAssumption ==
    /\ Cardinality(Existing) \in Nat /\ Existing = 1 .. Cardinality(Existing)
    /\ MaxKeys \in Nat /\ MaxSteps \in Nat

VARIABLES
    db,             \* the committed tables
    files,          \* the exports the operator has kept: an old one, the last one
    export,         \* the export under way: position and tables so far
    restore,        \* the restore under way: step, and the file it restores
    behind,         \* keys an export may lack although it has secrets under them: they were
                    \* made, or restored, after it had read the keys, or it skipped the keys
    halted,         \* the last restore was broken off after its tables were committed
    used,           \* key ids given out
    steps

backupVars == <<db, files, export, restore, behind, halted, used, steps>>
EXPORT_TABLES == <<"users", "members", "keys", "secrets">>  \* in this order
Install == 0                                 \* under the key of the installation
Empty == [users |-> {}, members |-> {}, keys |-> {}, secrets |-> {}]
Idle == [step |-> "idle", file |-> Empty]
Bounded == steps < MaxSteps /\ steps' = steps + 1

(* An export of an older version: no memberships, secrets under SECRET_KEY. *)
Old == [users |-> Users, secrets |-> {[tenant |-> t, key |-> Install] : t \in Tenants}]
Late(ks) == behind' = IF export.at > 3 THEN behind \cup ks ELSE behind
Keys(t) == {k \in db.keys : k.tenant = t}
Newest(t) == CHOOSE k \in Keys(t) : \A j \in Keys(t) : j.key <= k.key

(***************************************************************************)
(* Requests, while neither an export nor a restore keeps them away.        *)
(***************************************************************************)
(* create_user_api: the account and its membership in one commit.          *)
AddUser(u) ==
    /\ Bounded /\ u \notin db.users
    /\ db' = [db EXCEPT !.users = @ \cup {u}, !.members = @ \cup {u}]
    /\ UNCHANGED <<files, export, restore, behind, halted, used>>

(* rotate_tenant_key, and tenant_cipher for the first secret of a tenant:  *)
(* a new key, and the secrets of the tenant under it.                      *)
Rotate(t) ==
    /\ Bounded /\ used < MaxKeys /\ t \in Existing /\ used' = used + 1
    /\ LET k == [tenant |-> t, key |-> used + 1] IN
       /\ db' = [db EXCEPT !.keys = @ \cup {k}, !.secrets = {s \in @ : s.tenant # t} \cup {k}]
       /\ Late({k})
    /\ UNCHANGED <<files, export, restore, halted>>

(***************************************************************************)
(* export_backup.                                                          *)
(***************************************************************************)
StartExport ==
    /\ Bounded /\ export.at = 0 /\ export' = [at |-> 1, tables |-> Empty]
    /\ UNCHANGED <<db, files, restore, behind, halted, used>>

Exported(rows) ==
    LET got == [export.tables EXCEPT ![EXPORT_TABLES[export.at]] = rows] IN
    IF export.at = Len(EXPORT_TABLES)
    THEN files' = (files \cap {Old}) \cup {got} /\ export' = [at |-> 0, tables |-> Empty]
    ELSE export' = [at |-> export.at + 1, tables |-> got] /\ UNCHANGED files

ReadTable ==
    /\ export.at > 0 /\ Exported(db[EXPORT_TABLES[export.at]])
    /\ UNCHANGED <<db, restore, behind, halted, used, steps>>

(* The except: the table is exported without rows.                         *)
SkipTable ==
    /\ Bounded /\ export.at > 0 /\ Exported({})
    /\ behind' = IF export.at = 3 THEN behind \cup db.keys ELSE behind
    /\ UNCHANGED <<db, restore, halted, used>>

(***************************************************************************)
(* import_backup.                                                          *)
(***************************************************************************)
(* decrypt_backup opens the file and its format is right; otherwise the    *)
(* request ends here.                                                      *)
Open(f) ==
    /\ Bounded /\ restore.step = "idle" /\ restore' = [step |-> "tables", file |-> f]
    /\ UNCHANGED <<db, files, export, behind, halted, used>>

(* _restore_tables: TRUNCATE ... CASCADE and INSERT, committed together.   *)
(* Truncating users empties the memberships too, in the file or not.       *)
(* Mutant: the keys of the tenants are not among the tables.               *)
Restored_NoKeys(f) ==
    [t \in DOMAIN db |-> IF t = "keys" THEN db[t] ELSE IF t \in DOMAIN f THEN f[t] ELSE IF t = "members" THEN {} ELSE db[t]]
Restored(f) ==
    [t \in DOMAIN db |-> IF t \in DOMAIN f THEN f[t] ELSE IF t = "members" THEN {} ELSE db[t]]

RestoreTables ==
    /\ restore.step = "tables" /\ db' = Restored(restore.file)
    /\ restore' = [restore EXCEPT !.step = "members"] /\ halted' = TRUE
    /\ Late(db'.keys) /\ UNCHANGED <<files, export, used, steps>>

(* A row is refused or a lock is not given in time: nothing is changed.    *)
RestoreFails ==
    /\ Bounded /\ restore.step = "tables" /\ restore' = Idle
    /\ UNCHANGED <<db, files, export, behind, halted, used>>

(* sync_from_users_role and backfill_memberships.                          *)
(* Mutant: only for an export that says it is old.                         *)
Granted_Old(f) == IF "members" \in DOMAIN f THEN db.members ELSE db.users
Granted(f) == db.members \cup db.users

GrantMemberships ==
    /\ restore.step = "members" /\ db' = [db EXCEPT !.members = Granted(restore.file)]
    /\ restore' = [restore EXCEPT !.step = "secrets"]
    /\ UNCHANGED <<files, export, behind, halted, used, steps>>

(* reencrypt_legacy of every restored tenant that exists: one commit.      *)
Legacy == {s \in db.secrets : s.key = Install /\ s.tenant \in Existing}
Moved ==
    LET new == {s.tenant : s \in {x \in Legacy : Keys(x.tenant) = {}}}
        fresh == {[tenant |-> t, key |-> used + t] : t \in new}
        key(t) == IF t \in new THEN CHOOSE k \in fresh : k.tenant = t ELSE Newest(t)
    IN  [db EXCEPT !.keys = @ \cup fresh,
                   !.secrets = (@ \ Legacy) \cup {key(s.tenant) : s \in Legacy}]

MoveSecrets ==
    /\ restore.step = "secrets" /\ db' = Moved /\ used' = used + Cardinality(Existing)
    /\ restore' = Idle /\ halted' = FALSE
    /\ Late(db'.keys) /\ UNCHANGED <<files, export, steps>>

(* The process ends: what is not committed is lost.  The next start moves  *)
(* secrets left under the installation's key (upgrade_legacy_secrets), and *)
(* does not look for memberships.                                          *)
Crash ==
    /\ Bounded /\ restore' = Idle
    /\ export' = [at |-> 0, tables |-> Empty] /\ db' = Moved /\ used' = used + Cardinality(Existing)
    /\ UNCHANGED <<files, behind, halted>>

(* A new host, to restore onto: its database is empty.                     *)
NewHost ==
    /\ Bounded /\ db # Empty /\ db' = Empty /\ restore' = Idle
    /\ export' = [at |-> 0, tables |-> Empty] /\ halted' = FALSE
    /\ UNCHANGED <<files, behind, used>>

BackupInit ==
    /\ db = Empty /\ files \in {{}, {Old}}
    /\ export = [at |-> 0, tables |-> Empty] /\ restore = Idle
    /\ behind = {} /\ halted = FALSE /\ used = 0 /\ steps = 0

(* The bound is reached and nothing is under way.                          *)
Rest == steps = MaxSteps /\ export.at = 0 /\ restore.step = "idle" /\ UNCHANGED backupVars

BackupNext ==
    \/ \E u \in Users : AddUser(u)
    \/ \E t \in Tenants : Rotate(t)
    \/ StartExport \/ ReadTable \/ SkipTable
    \/ \E f \in files : Open(f)
    \/ RestoreTables \/ RestoreFails \/ GrantMemberships \/ MoveSecrets \/ Crash \/ NewHost \/ Rest

BackupSpec == BackupInit /\ [][BackupNext]_backupVars

-----------------------------------------------------------------------------
AllKeys == [tenant : Tenants, key : 0 .. used]
Tables(t) == t.users \subseteq Users /\ t.members \subseteq Users /\ t.keys \subseteq AllKeys /\ t.secrets \subseteq AllKeys
(* Every variable has its type.                                            *)
BackupTypeOK ==
    /\ Tables(db) /\ \A f \in files \ {Old} : Tables(f)
    /\ export.at \in 0 .. Len(EXPORT_TABLES) /\ Tables(export.tables)
    /\ restore.step \in {"idle", "tables", "members", "secrets"}
    /\ behind \subseteq AllKeys /\ halted \in BOOLEAN /\ used \in Nat /\ steps \in 0 .. MaxSteps

(* Whatever was exported and restored: outside a restore that was broken   *)
(* off after its tables were committed, every user of the database has a   *)
(* membership, so that somebody can sign in.                               *)
EveryoneIn == (restore.step \in {"idle", "tables"} /\ ~halted) => db.users \subseteq db.members

(* A secret of a tenant is readable: it is under the installation's key or *)
(* under a key the database holds, unless the table of keys was exported   *)
(* empty or the key was made after the export had read that table.         *)
SecretsReadable ==
    \A s \in db.secrets : s.key = Install \/ s \in db.keys \/ s \in behind

-----------------------------------------------------------------------------
(***************************************************************************)
(* The watch over the backups of a guest (services/backup_monitor.py;      *)
(* routers/backups.py; after_ingest of integrations/proxmox.py).  Every    *)
(* snapshot of the cluster lists backup files per storage and the recent   *)
(* tasks; a sync folds them into one job row and a history.  A manual sync *)
(* does the same with the snapshot it has loaded, which a newer one may    *)
(* have overtaken.                                                         *)
(***************************************************************************)
CONSTANTS
    Storages,       \* numbers: a snapshot lists them in this order
    Frequency,      \* expected_frequency_hours
    Keep,           \* days of history
    MaxTime, MaxRuns, MaxForgets, MaxLoads  \* bounds: the clock, runs, what the cluster forgets, manual syncs

(* The storages are numbered in the order in which a snapshot lists them.  *)
WatchAssumption ==
    /\ Cardinality(Storages) \in Nat /\ Storages = 1 .. Cardinality(Storages)
    /\ Frequency \in Nat /\ Keep \in Nat
    /\ MaxTime \in Nat \ {0} /\ MaxForgets \in Nat /\ MaxLoads \in Nat

VARIABLES
    now,
    run,            \* start time -> what became of the run, and its storage
    listed,         \* tasks the cluster still lists
    kept,           \* backup files not pruned
    job,            \* last_run_at, last_status, enabled; a sync that finds a run makes the row
    history,        \* rows: start time and status
    held,           \* the snapshot a manual sync has loaded, in a set
    seen,           \* runs a sync has seen as running
    forgets, loads

watchVars == <<now, run, listed, kept, job, history, held, seen, forgets, loads>>
Times == 1 .. MaxTime
Never == 0
None == [result |-> "none", storage |-> 0]
HasFile(r) == r.result \in {"ok", "warned"}  \* a run with warnings leaves a file, its task is not OK

(***************************************************************************)
(* The cluster.                                                            *)
(***************************************************************************)
Start(s) ==
    /\ Cardinality({t \in Times : run[t].result # "none"}) < MaxRuns
    /\ run[now].result = "none" /\ run' = [run EXCEPT ![now] = [result |-> "running", storage |-> s]]
    /\ listed' = listed \cup {now} /\ UNCHANGED <<now, kept, job, history, held, seen, forgets, loads>>
End(t, result) ==
    /\ run[t].result = "running" /\ run' = [run EXCEPT ![t].result = result]
    /\ kept' = IF result = "failed" THEN kept ELSE kept \cup {t}
    /\ UNCHANGED <<now, listed, job, history, held, seen, forgets, loads>>
(* The task list is short and files are pruned.                            *)
Forget(t) ==
    /\ forgets < MaxForgets /\ forgets' = forgets + 1
    /\ \/ t \in listed /\ listed' = listed \ {t} /\ UNCHANGED kept
       \/ t \in kept /\ kept' = kept \ {t} /\ UNCHANGED listed
    /\ UNCHANGED <<now, run, job, history, held, seen, loads>>
Tick == now < MaxTime /\ now' = now + 1 /\ UNCHANGED <<run, listed, kept, job, history, held, seen, forgets, loads>>

Snapshot == [files |-> kept, tasks |-> {[at |-> t, result |-> run[t].result] : t \in listed}]

(***************************************************************************)
(* sync_proxmox_backups.                                                   *)
(***************************************************************************)
(* The task's status, as integrations/proxmox.py and the sync read it.     *)
Mapped(result) == CASE result = "running" -> "running" [] result = "ok" -> "ok" [] OTHER -> "failed"

Latest(ts) == CHOOSE t \in ts : \A u \in ts : u <= t
On(s, found) == {t \in found : run[t].storage = s}
(* guest_latest: the newest file of each storage; the last storage wins.   *)
AfterFiles(j, found) ==
    LET with == {s \in Storages : On(s, found) # {}}
    IN  IF with = {} THEN j
        ELSE [j EXCEPT !.last = Latest(On(Latest(with), found)), !.status = "ok"]
(* The tasks, newest first: one that is as new as the job's last run wins. *)
AfterTasks(j, tasks) ==
    LET new == {x.at : x \in tasks}
    IN  IF new = {} \/ Latest(new) < j.last THEN j
        ELSE [j EXCEPT !.last = Latest(new), !.status = Mapped((CHOOSE x \in tasks : x.at = Latest(new)).result)]

(* Rows for what has none at its time: the newest file of each storage,    *)
(* then the finished tasks.                                                *)
(* Mutant: a row for every finished task.                                  *)
Recorded_Again(s) ==
    history \cup {[at |-> Latest(On(x, s.files)), status |-> "ok"] : x \in {y \in Storages : On(y, s.files) # {}}}
            \cup {[at |-> x.at, status |-> Mapped(x.result)] : x \in {y \in s.tasks : y.result # "running"}}
Recorded(s) ==
    LET fs == {Latest(On(x, s.files)) : x \in {y \in Storages : On(y, s.files) # {}}}
        old == {h.at : h \in history}
    IN  history \cup {[at |-> t, status |-> "ok"] : t \in fs \ old}
                \cup {[at |-> x.at, status |-> Mapped(x.result)]
                      : x \in {y \in s.tasks : y.result # "running" /\ y.at \notin fs \cup old}}

Synced(s) ==
    /\ job' = AfterTasks(AfterFiles(job, s.files), s.tasks)
    /\ history' = Recorded(s)
    /\ seen' = seen \cup {x.at : x \in {y \in s.tasks : y.result = "running"}}

(* after_ingest: in the ingest's own transaction.                          *)
Ingest == Synced(Snapshot) /\ UNCHANGED <<now, run, listed, kept, held, forgets, loads>>

(* sync_all_sources: the latest snapshot is loaded, then synced.           *)
Load ==
    /\ held = {} /\ loads < MaxLoads /\ loads' = loads + 1 /\ held' = {Snapshot}
    /\ UNCHANGED <<now, run, listed, kept, job, history, seen, forgets>>
ManualSync ==
    \E s \in held : Synced(s) /\ held' = {} /\ UNCHANGED <<now, run, listed, kept, forgets, loads>>

(* update_job_settings, cleanup_old_history.                               *)
Settings ==
    /\ job.status # "absent" /\ job' = [job EXCEPT !.enabled = ~@]
    /\ UNCHANGED <<now, run, listed, kept, history, held, seen, forgets, loads>>
Cleanup ==
    /\ \E h \in history : h.at < now - Keep
    /\ history' = {h \in history : h.at >= now - Keep}
    /\ UNCHANGED <<now, run, listed, kept, job, held, seen, forgets, loads>>

(* check_backup_compliance.                                                *)
(* Mutant: a failed run is only overdue.                                   *)
Issues_Overdue ==
    IF job.enabled /\ job.last # Never /\ now - job.last > Frequency THEN {"overdue"} ELSE {}
Issues ==
    IF ~job.enabled THEN {}
    ELSE (IF job.status = "failed" THEN {"failed"} ELSE {})
         \cup (IF job.last # Never /\ now - job.last > Frequency THEN {"overdue"} ELSE {})
(* effective_status of get_backup_summary.                                 *)
Effective == IF job.status = "ok" /\ job.last # Never /\ now - job.last > Frequency THEN "warning" ELSE job.status

WatchInit ==
    /\ now = 1 /\ run = [t \in Times |-> None] /\ listed = {} /\ kept = {}
    /\ job = [last |-> Never, status |-> "absent", enabled |-> TRUE]
    /\ history = {} /\ held = {} /\ seen = {} /\ forgets = 0 /\ loads = 0

WatchNext ==
    \/ \E s \in Storages : Start(s)
    \/ \E t \in Times, r \in {"ok", "warned", "failed"} : End(t, r)
    \/ \E t \in Times : Forget(t)
    \/ Tick \/ Ingest \/ Load \/ ManualSync \/ Settings \/ Cleanup

WatchSpec == WatchInit /\ [][WatchNext]_watchVars

-----------------------------------------------------------------------------
Statuses == {"absent", "running", "ok", "failed"}
(* Every variable has its type.                                            *)
WatchTypeOK ==
    /\ now \in Times /\ listed \subseteq Times /\ kept \subseteq Times /\ seen \subseteq Times
    /\ \A t \in Times : run[t].result \in {"none", "running", "ok", "warned", "failed"}
    /\ job \in [last : Times \cup {Never}, status : Statuses, enabled : BOOLEAN]
    /\ history \subseteq [at : Times, status : {"ok", "failed"}] /\ Cardinality(held) <= 1
    /\ forgets \in 0 .. MaxForgets /\ loads \in 0 .. MaxLoads

(* When the compliance check has nothing to say about an enabled job, a    *)
(* backup began no longer ago than the frequency asks for, and it left a   *)
(* file or was running when a sync saw it; and the summary calls a job     *)
(* healthy only when there was such a file.                                *)
NoSilentGap ==
    /\ job.status # "absent" /\ job.enabled /\ Issues = {} =>
         \E t \in Times : now - t <= Frequency /\ (HasFile(run[t]) \/ t \in seen)
    /\ Effective = "ok" => \E t \in Times : now - t <= Frequency /\ HasFile(run[t])

(* The history has one row per run, which says what became of it; a run    *)
(* with warnings may stand for either.                                     *)
HistoryTrue ==
    \A h \in history :
        /\ \A g \in history : g.at = h.at => g = h
        /\ h.status = "ok" => HasFile(run[h.at])
        /\ h.status = "failed" => run[h.at].result \in {"failed", "warned"}
=============================================================================
