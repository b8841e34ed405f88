-------------------------- MODULE TenantLifecycle --------------------------
(***************************************************************************)
(* A tenant from creation to purge (ee tenancy/lifecycle.py, purge.py,     *)
(* jobs.py, api.py).  The operator's routes read the tenant and commit a   *)
(* change some awaits later; the purge job works through its steps, may    *)
(* fail after each of them and starts from the top on its next run; the    *)
(* monitoring jobs write rows for the tenants they listed as active.       *)
(*                                                                         *)
(* One tenant, not the default one.  Licence checks, the typed             *)
(* confirmation, plans, names and audit rows are left out.                 *)
(***************************************************************************)
EXTENDS Naturals, FiniteSets

CONSTANTS
    Requests,       \* operators' requests under way at a time
    Overlap,        \* a request may span the start of a purge
    MaxRequests,    \* bound: requests
    MaxFailures     \* bound: purge runs that fail or die

VARIABLES
    status,         \* active, suspended, deleting; gone when the row is deleted
    after,          \* delete_after: none, future, past
    started,        \* purge_started_at is set
    shred,          \* purge_state's crypto_shred
    keys,           \* the tenant's data keys: none, live, destroyed
    rows,           \* stores with rows of the tenant: subset of Stores
    job,            \* monitoring job: it listed the tenant as active
    req,            \* per request: its action, and the status and start it read
    pc,             \* of the purge job
    cancelled,      \* the operator was told that the deletion is cancelled
    requests, failures

lifeVars == <<status, after, started, shred, keys, rows, job, req, pc, cancelled, requests, failures>>

Stores == {"clickhouse", "postgres", "identities"}
Actions == {"suspend", "resume", "delete", "cancel"}
NoRequest == [action |-> "none", status |-> "gone", started |-> FALSE]
tenant == <<status, after, started>>
purge == <<shred, keys, pc, failures>>

-----------------------------------------------------------------------------
(* The operator's routes (_tenant_action, lifecycle).                      *)

(* get_tenant: the row as it is now.                                       *)
Request(r, a) ==
    /\ req[r] = NoRequest /\ requests < MaxRequests /\ status # "gone"
    /\ ~Overlap => pc # "mark"
    /\ requests' = requests + 1
    /\ req' = [req EXCEPT ![r] = [action |-> a, status |-> status, started |-> started]]
    /\ UNCHANGED <<tenant, rows, job, cancelled, purge>>

(* Which change it may make, by what it read.                              *)
(* Mutant: a started purge can be cancelled.                               *)
Allowed_Started(q) ==
    CASE q.action = "suspend" -> q.status = "active"
      [] q.action = "resume" -> q.status = "suspended"
      [] q.action = "delete" -> q.status # "deleting"
      [] q.action = "cancel" -> q.status = "deleting"
Allowed(q) ==
    CASE q.action = "suspend" -> q.status = "active"
      [] q.action = "resume" -> q.status = "suspended"
      [] q.action = "delete" -> q.status # "deleting"
      [] q.action = "cancel" -> q.status = "deleting" /\ ~q.started

(* The columns the action sets are committed; a row that is gone is an     *)
(* error.                                                                  *)
Respond(r) ==
    LET q == req[r] IN
    /\ q # NoRequest
    /\ req' = [req EXCEPT ![r] = NoRequest]
    /\ IF Allowed(q) /\ status # "gone"
       THEN /\ status' = CASE q.action \in {"suspend", "cancel"} -> "suspended"
                           [] q.action = "resume" -> "active"
                           [] q.action = "delete" -> "deleting"
            /\ after' = CASE q.action = "delete" -> "future"
                          [] q.action = "cancel" -> "none"
                          [] OTHER -> after
            /\ cancelled' = CASE q.action = "cancel" -> TRUE
                              [] q.action = "delete" -> FALSE
                              [] OTHER -> cancelled
       ELSE UNCHANGED <<status, after, cancelled>>
    /\ UNCHANGED <<started, rows, job, requests, purge>>

-----------------------------------------------------------------------------
(* Monitoring (run_for_tenants): listed once, written later.               *)

JobLists ==
    /\ ~job /\ status = "active" /\ job' = TRUE
    /\ UNCHANGED <<tenant, rows, req, cancelled, requests, purge>>
(* Rows in both stores, the first secret's key; PostgreSQL refuses rows of *)
(* a tenant that is gone.                                                  *)
JobWrites ==
    /\ job /\ job' = FALSE
    /\ rows' = rows \cup (IF status = "gone" THEN {"clickhouse"} ELSE {"clickhouse", "postgres"})
    /\ UNCHANGED <<tenant, req, cancelled, requests, purge>>

(* Thirty days: no iteration and no request lasts that long.               *)
GraceOver ==
    /\ after = "future" /\ ~job /\ \A r \in Requests : req[r] = NoRequest
    /\ after' = "past"
    /\ UNCHANGED <<status, started, rows, job, req, cancelled, requests, purge>>

-----------------------------------------------------------------------------
(* The purge job (run_tenant_purges, purge_tenant).                        *)

(* due_for_purge and purge_tenant's own check.                             *)
Due == status = "deleting" /\ after = "past"

(* Mutant: a purge that has started is somebody else's.                    *)
PurgeRead_Once ==
    /\ pc = "idle" /\ Due /\ ~started
    /\ ~Overlap => \A r \in Requests : req[r] = NoRequest
    /\ pc' = "mark"
    /\ UNCHANGED <<tenant, rows, job, req, cancelled, requests, shred, keys, failures>>
PurgeRead ==
    /\ pc = "idle" /\ Due
    /\ ~Overlap => \A r \in Requests : req[r] = NoRequest
    /\ pc' = "mark"
    /\ UNCHANGED <<tenant, rows, job, req, cancelled, requests, shred, keys, failures>>
(* purge_started_at and the run are committed.                             *)
(* Mutant: the keys are left alone.                                        *)
PurgeMark_NoShred ==
    /\ pc = "mark" /\ started' = TRUE
    /\ pc' = "clickhouse"
    /\ UNCHANGED <<status, after, rows, job, req, cancelled, requests, shred, keys, failures>>
PurgeMark ==
    /\ pc = "mark" /\ started' = TRUE
    /\ pc' = IF shred THEN "clickhouse" ELSE "shred"
    /\ UNCHANGED <<status, after, rows, job, req, cancelled, requests, shred, keys, failures>>
Shred ==
    /\ pc = "shred"
    /\ keys' = "destroyed" /\ pc' = "saved"
    /\ UNCHANGED <<tenant, rows, job, req, cancelled, requests, shred, failures>>
SaveShred ==
    /\ pc = "saved" /\ shred' = TRUE /\ pc' = "clickhouse"
    /\ UNCHANGED <<tenant, rows, job, req, cancelled, requests, keys, failures>>
(* ClickHouse, the tenant's tables, memberships and users, one after the   *)
(* other; each may be cut short and done again.                            *)
After(store) == CASE store = "clickhouse" -> "postgres"
                  [] store = "postgres" -> "identities"
                  [] store = "identities" -> "row"
(* Mutant: ClickHouse is left to its retention.                            *)
PurgeStore_Postgres(store) ==
    /\ pc = store
    /\ rows' = IF store = "clickhouse" THEN rows ELSE rows \ {store}
    /\ pc' = After(store)
    /\ UNCHANGED <<tenant, job, req, cancelled, requests, shred, keys, failures>>
PurgeStore(store) ==
    /\ pc = store
    /\ rows' = rows \ {store} /\ pc' = After(store)
    /\ UNCHANGED <<tenant, job, req, cancelled, requests, shred, keys, failures>>
(* Mutant: the row stays and says so.                                      *)
PurgeRow_Kept ==
    /\ pc = "row"
    /\ status' = "purged" /\ pc' = "idle"
    /\ UNCHANGED <<after, started, rows, job, req, cancelled, requests, shred, keys, failures>>
PurgeRow ==
    /\ pc = "row"
    /\ status' = "gone" /\ pc' = "idle"
    /\ UNCHANGED <<after, started, rows, job, req, cancelled, requests, shred, keys, failures>>
(* A step fails or the process dies: the next run starts from the top.     *)
PurgeFails ==
    /\ pc # "idle" /\ failures < MaxFailures
    /\ failures' = failures + 1 /\ pc' = "idle"
    /\ UNCHANGED <<tenant, rows, job, req, cancelled, requests, shred, keys>>

(* A tenant that is not monitored may stay as it is.                       *)
Rests ==
    /\ status # "active" /\ ~job /\ \A r \in Requests : req[r] = NoRequest
    /\ UNCHANGED lifeVars

(* create_tenant: one transaction with the site, the first admin and the   *)
(* data key.                                                               *)
LifeInit ==
    /\ status = "active" /\ after = "none" /\ started = FALSE /\ shred = FALSE
    /\ keys = "live" /\ rows = {"postgres", "identities"} /\ job = FALSE
    /\ req = [r \in Requests |-> NoRequest] /\ pc = "idle" /\ cancelled = FALSE
    /\ requests = 0 /\ failures = 0

Purge ==
    \/ PurgeRead \/ PurgeMark \/ Shred \/ SaveShred \/ PurgeRow
    \/ \E store \in Stores : PurgeStore(store)
LifeNext ==
    \/ \E r \in Requests : Respond(r) \/ \E a \in Actions : Request(r, a)
    \/ JobLists \/ JobWrites \/ GraceOver \/ Purge \/ PurgeFails \/ Rests

LifeSpec == LifeInit /\ [][LifeNext]_lifeVars
(* The job runs every fifteen minutes, requests are answered, days pass.   *)
LifeFairness ==
    /\ WF_lifeVars(Purge) /\ WF_lifeVars(JobWrites) /\ WF_lifeVars(GraceOver)
    /\ \A r \in Requests : WF_lifeVars(Respond(r))
LifeFairSpec == LifeSpec /\ LifeFairness

-----------------------------------------------------------------------------
(* Properties.                                                             *)

LifeTypeOK ==
    /\ status \in {"active", "suspended", "deleting", "gone"}
    /\ after \in {"none", "future", "past"} /\ rows \subseteq Stores
    /\ keys \in {"live", "destroyed"} /\ pc \in Stores \cup {"idle", "mark", "shred", "saved", "row"}
    /\ started \in BOOLEAN /\ shred \in BOOLEAN /\ job \in BOOLEAN /\ cancelled \in BOOLEAN
    /\ \A r \in Requests : req[r].action \in Actions \cup {"none"}

(* A deletion the operator was told is cancelled destroys nothing, and a   *)
(* tenant that is or can be active again has its keys and its data         *)
(* (cancel_deletion: "Refused once the purge has started").                *)
CancelledIsKept ==
    cancelled \/ status \in {"active", "suspended"} =>
        keys = "live" /\ {"postgres", "identities"} \subseteq rows

(* Data goes only after the keys: a purge that dies half-way leaves        *)
(* nothing readable behind, in no order of failures.                       *)
ShredFirst == ~({"postgres", "identities"} \subseteq rows) => keys = "destroyed"

(* When the tenant's row is gone nothing of it is left in any store.       *)
NothingLeft == status = "gone" => rows = {} /\ keys = "destroyed"

(* A due deletion is carried out, though runs fail on the way.             *)
Purged == (status = "deleting" /\ started) ~> (status = "gone")

-----------------------------------------------------------------------------
(***************************************************************************)
(* The data keys of one tenant (services/tenant_keys.py): transactions     *)
(* that write a secret, rotate the keys, move values from the installation *)
(* key to the tenant's, or destroy the keys, on a database with READ       *)
(* COMMITTED isolation and row locks.  A transaction loads the key set     *)
(* once and keeps it (_memo) until it commits or rolls back.               *)
(*                                                                         *)
(* Keys are numbered in the order they are created; value 0 is the         *)
(* installation key.  A secret is one row; its plaintext is the number of  *)
(* the write.  Left out: wrapping, keys that do not unwrap, plaintext      *)
(* settings, and the cache of unwrapped keys, which is keyed by the        *)
(* wrapped key itself.                                                     *)
(***************************************************************************)
CONSTANTS
    Writers,        \* transactions that save the secret
    Operators,      \* others at work: subset of {"rotate", "upgrade", "destroy"}
    Quiet,          \* keys are destroyed only when nothing else is at work
    MaxKey,         \* bound: keys created
    MaxWrite        \* bound: writes of the secret

VARIABLES
    key,            \* status of each key row: none, live, retired, destroyed
    secret,         \* the committed value: key and plaintext
    oldBackend,     \* the previous version still runs and writes the old format
    tx,             \* per transaction: see Idle
    last,           \* highest key created so far
    writes,         \* writes of the secret so far
    latest,         \* plaintext of the last committed write
    shredded,       \* a destroy has committed
    moved           \* a startup pass that began after the old backend was gone has committed

keysVars == <<key, secret, oldBackend, tx, last, writes, latest, shredded, moved>>

KeysAssumption ==
    /\ MaxKey \in Nat /\ MaxWrite \in Nat
    /\ Operators \subseteq {"rotate", "upgrade", "destroy"}
    /\ Writers \cap {"rotate", "upgrade", "destroy"} = {}

Txs == Writers \cup Operators
Keys == 1..MaxKey
None == [key |-> 0, val |-> 0]
(* pc; the key set loaded; the key created; the value read; the value      *)
(* written; key rows updated, and to what; whether the old backend was     *)
(* gone when it began.                                                     *)
Idle == [pc |-> "idle", memo |-> [k \in Keys |-> "none"], made |-> 0, read |-> None, wrote |-> None,
         rows |-> {}, mark |-> "none", late |-> FALSE]
At(p, s) == tx[p].pc = s
Empty(v) == v.val = 0

-----------------------------------------------------------------------------
(* Key sets (_load, _create).                                              *)

(* The newest key that is neither retired nor destroyed.                   *)
Live(ks) == {k \in Keys : ks[k] = "live"}
Active(ks) == CHOOSE k \in Live(ks) : \A j \in Live(ks) : j <= k
Destroyed(ks) == Live(ks) = {} /\ \E k \in Keys : ks[k] = "destroyed"
Readable(ks, k) == k = 0 \/ ks[k] \in {"live", "retired"}

(* tenant_cipher(write=True): the first write creates the key.             *)
WithKey(ks, k) == IF Live(ks) = {} THEN [ks EXCEPT ![k] = "live"] ELSE ks
Creates(ks) == Live(ks) = {}

(* Nobody else has an uncommitted update of the row.                       *)
SecretFree(p) == \A q \in Txs \ {p} : tx[q].wrote = None
KeysFree(p, S) == \A q \in Txs \ {p} : tx[q].rows \cap S = {}

Goto(p, s) == tx' = [tx EXCEPT ![p].pc = s]

(* The transaction takes effect, and its key set is forgotten.             *)
Commit(p) ==
    /\ key' = [k \in Keys |->
                CASE k \in tx[p].rows -> tx[p].mark
                  [] k = tx[p].made /\ k \notin tx[p].rows -> "live"
                  [] OTHER -> key[k]]
    /\ secret' = IF Empty(tx[p].wrote) THEN secret ELSE tx[p].wrote
    /\ tx' = [tx EXCEPT ![p] = Idle]
(* Mutant: the key set survives the rollback.                              *)
Rollback_KeepsMemo(p) ==
    /\ tx[p].pc # "idle"
    /\ tx' = [tx EXCEPT ![p] = [Idle EXCEPT !.memo = tx[p].memo]]
    /\ UNCHANGED <<key, secret, oldBackend, last, writes, latest, shredded, moved>>
Rollback(p) ==
    /\ tx[p].pc # "idle"
    /\ tx' = [tx EXCEPT ![p] = Idle]
    /\ UNCHANGED <<key, secret, oldBackend, last, writes, latest, shredded, moved>>

(* _load: once per transaction.                                            *)
Loaded(p) == IF \E k \in Keys : tx[p].memo[k] # "none" THEN tx[p].memo ELSE key
(* The key set of p with a new key, if it has no active one.               *)
Cipher(p, ks) ==
    /\ last' = IF Creates(ks) THEN last + 1 ELSE last
    /\ last' <= MaxKey

-----------------------------------------------------------------------------
(* Saving a secret (encrypt_secret and its caller).                        *)

(* The purge is at work on a tenant that nobody else touches.              *)
Quiesced == Quiet /\ "destroy" \in Operators /\ ~At("destroy", "idle")

WriteBegin(p) ==
    /\ p \in Writers /\ At(p, "idle") /\ ~Quiesced
    /\ ~Destroyed(Loaded(p))
    /\ Cipher(p, Loaded(p))
    /\ tx' = [tx EXCEPT ![p] = [Idle EXCEPT !.pc = "encrypt", !.memo = WithKey(Loaded(p), last'),
                                            !.made = IF Creates(Loaded(p)) THEN last' ELSE 0]]
    /\ UNCHANGED <<key, secret, oldBackend, writes, latest, shredded, moved>>
Encrypt(p) ==
    /\ At(p, "encrypt") /\ p \in Writers /\ SecretFree(p) /\ writes < MaxWrite
    /\ writes' = writes + 1
    /\ tx' = [tx EXCEPT ![p].pc = "commit", ![p].wrote = [key |-> Active(tx[p].memo), val |-> writes + 1]]
    /\ UNCHANGED <<key, secret, oldBackend, last, latest, shredded, moved>>
WriteCommit(p) ==
    /\ At(p, "commit") /\ p \in Writers
    /\ Commit(p) /\ latest' = tx[p].wrote.val
    /\ UNCHANGED <<oldBackend, last, writes, shredded, moved>>

(* The previous backend saves under the installation key, until it stops.  *)
OldWrite ==
    /\ oldBackend /\ ~Quiesced /\ writes < MaxWrite
    /\ \A q \in Txs : tx[q].wrote = None
    /\ writes' = writes + 1 /\ latest' = writes + 1
    /\ secret' = [key |-> 0, val |-> writes + 1]
    /\ UNCHANGED <<key, oldBackend, tx, last, shredded, moved>>
OldStops ==
    /\ oldBackend /\ oldBackend' = FALSE
    /\ UNCHANGED <<key, secret, tx, last, writes, latest, shredded, moved>>

-----------------------------------------------------------------------------
(* rotate_tenant_key.                                                      *)

RotateBegin(p) ==
    /\ p = "rotate" /\ At(p, "idle") /\ ~Quiesced
    /\ ~Destroyed(key) /\ last < MaxKey
    /\ last' = last + 1
    /\ tx' = [tx EXCEPT ![p] = [Idle EXCEPT !.pc = "read", !.memo = key, !.made = last']]
    /\ UNCHANGED <<key, secret, oldBackend, writes, latest, shredded, moved>>
(* The rows are selected ...                                               *)
RotateRead(p) ==
    /\ p = "rotate" /\ At(p, "read")
    /\ tx' = [tx EXCEPT ![p].pc = "flush", ![p].read = secret]
    /\ UNCHANGED <<key, secret, oldBackend, last, writes, latest, shredded, moved>>
(* ... and flushed under the new key, but for what the old keys do not     *)
(* open.                                                                   *)
RotateFlush(p) ==
    /\ p = "rotate" /\ At(p, "flush") /\ SecretFree(p)
    /\ LET v == tx[p].read IN
       tx' = [tx EXCEPT ![p].pc = "retire",
                        ![p].wrote = IF Empty(v) \/ ~Readable(tx[p].memo, v.key) THEN None
                                     ELSE [key |-> tx[p].made, val |-> v.val]]
    /\ UNCHANGED <<key, secret, oldBackend, last, writes, latest, shredded, moved>>
(* The keys it knew are retired.  Mutant: to a status no reader knows.     *)
Retired_Unknown == "expired"
Retired == "retired"
RotateRetire(p) ==
    /\ p = "rotate" /\ At(p, "retire") /\ KeysFree(p, Keys)
    /\ tx' = [tx EXCEPT ![p].pc = "commit", ![p].mark = Retired,
                        ![p].rows = {k \in Keys : tx[p].memo[k] \in {"live", "retired"} /\ key[k] = "live"}]
    /\ UNCHANGED <<key, secret, oldBackend, last, writes, latest, shredded, moved>>
RotateCommit(p) ==
    /\ p = "rotate" /\ At(p, "commit") /\ Commit(p)
    /\ UNCHANGED <<oldBackend, last, writes, latest, shredded, moved>>

-----------------------------------------------------------------------------
(* reencrypt_legacy, by the startup pass (upgrade) or before a destroy.    *)

Legacy(v) == ~Empty(v) /\ v.key = 0

UpgradeBegin(p) ==
    /\ p = "upgrade" /\ At(p, "idle") /\ ~Quiesced
    /\ tx' = [tx EXCEPT ![p] = [Idle EXCEPT !.pc = "read", !.late = ~oldBackend]]
    /\ UNCHANGED <<key, secret, oldBackend, last, writes, latest, shredded, moved>>
(* Nothing is pending, or the key set is loaded, with a first key if need  *)
(* be.  After a destroy the pass skips the tenant.                         *)
Next1(p) == IF p = "destroy" THEN "destroy" ELSE "commit"
LegacyRead(p) ==
    /\ p \in {"upgrade", "destroy"} /\ At(p, "read")
    /\ LET ks == Loaded(p) IN
       \/ /\ ~Legacy(secret)
          /\ Goto(p, Next1(p)) /\ UNCHANGED last
       \/ /\ Legacy(secret) /\ ~Destroyed(ks) /\ Cipher(p, ks)
          /\ tx' = [tx EXCEPT ![p].pc = "flush", ![p].read = secret, ![p].memo = WithKey(ks, last'),
                              ![p].made = IF Creates(ks) THEN last' ELSE 0]
       \/ /\ Legacy(secret) /\ Destroyed(ks)
          /\ tx' = [tx EXCEPT ![p] = Idle] /\ UNCHANGED last
    /\ UNCHANGED <<key, secret, oldBackend, writes, latest, shredded, moved>>
(* Mutant: what is read is left as it is.                                  *)
LegacyFlush_Nothing(p) ==
    /\ p \in {"upgrade", "destroy"} /\ At(p, "flush") /\ SecretFree(p)
    /\ Goto(p, Next1(p))
    /\ UNCHANGED <<key, secret, oldBackend, last, writes, latest, shredded, moved>>
LegacyFlush(p) ==
    /\ p \in {"upgrade", "destroy"} /\ At(p, "flush") /\ SecretFree(p)
    /\ tx' = [tx EXCEPT ![p].pc = Next1(p),
                        ![p].wrote = [key |-> Active(tx[p].memo), val |-> tx[p].read.val]]
    /\ UNCHANGED <<key, secret, oldBackend, last, writes, latest, shredded, moved>>
UpgradeCommit(p) ==
    /\ p = "upgrade" /\ At(p, "commit") /\ Commit(p)
    /\ moved' = (moved \/ tx[p].late)
    /\ UNCHANGED <<oldBackend, last, writes, latest, shredded>>

-----------------------------------------------------------------------------
(* destroy_tenant_key, called by the purge.                                *)

(* Quiet: the tenant has been suspended for thirty days, and the startup   *)
(* pass of this process is over before its scheduler starts.               *)
DestroyBegin(p) ==
    /\ p = "destroy" /\ At(p, "idle") /\ ~shredded
    /\ Quiet => /\ \A q \in Txs : At(q, "idle")
                /\ ~oldBackend
    /\ tx' = [tx EXCEPT ![p] = [Idle EXCEPT !.memo = key, !.pc = IF Destroyed(key) THEN "destroy" ELSE "read"]]
    /\ UNCHANGED <<key, secret, oldBackend, last, writes, latest, shredded, moved>>
(* The UPDATE sees the rows committed when it starts and its own ...       *)
DestroyUpdate(p) ==
    /\ p = "destroy" /\ At(p, "destroy")
    /\ tx' = [tx EXCEPT ![p].pc = "locks", ![p].mark = "destroyed",
                        ![p].rows = {k \in Keys : key[k] \in {"live", "retired"} \/ k = tx[p].made}]
    /\ UNCHANGED <<key, secret, oldBackend, last, writes, latest, shredded, moved>>
(* ... and waits for their locks.  A tenant without keys gets a tombstone. *)
(* Mutant: it does not.                                                    *)
DestroyCommit_NoTombstone(p) ==
    /\ p = "destroy" /\ At(p, "locks") /\ KeysFree(p, tx[p].rows)
    /\ Commit(p)
    /\ shredded' = TRUE
    /\ UNCHANGED <<oldBackend, last, writes, latest, moved>>
DestroyCommit(p) ==
    /\ p = "destroy" /\ At(p, "locks") /\ KeysFree(p, tx[p].rows)
    /\ IF tx[p].rows = {} /\ ~Destroyed(tx[p].memo)
       THEN /\ last < MaxKey /\ last' = last + 1
            /\ key' = [key EXCEPT ![last'] = "destroyed"]
            /\ tx' = [tx EXCEPT ![p] = Idle] /\ UNCHANGED secret
       ELSE Commit(p) /\ UNCHANGED last
    /\ shredded' = TRUE
    /\ UNCHANGED <<oldBackend, writes, latest, moved>>

KeysInit ==
    /\ key = [k \in Keys |-> "none"] /\ secret = None /\ oldBackend = TRUE
    /\ tx = [p \in Txs |-> Idle]
    /\ last = 0 /\ writes = 0 /\ latest = 0 /\ shredded = FALSE /\ moved = FALSE

KeysNext ==
    \/ OldWrite \/ OldStops
    \/ \E p \in Txs :
        \/ WriteBegin(p) \/ Encrypt(p) \/ WriteCommit(p) \/ Rollback(p)
        \/ RotateBegin(p) \/ RotateRead(p) \/ RotateFlush(p) \/ RotateRetire(p) \/ RotateCommit(p)
        \/ UpgradeBegin(p) \/ LegacyRead(p) \/ LegacyFlush(p) \/ UpgradeCommit(p)
        \/ DestroyBegin(p) \/ DestroyUpdate(p) \/ DestroyCommit(p)

KeysSpec == KeysInit /\ [][KeysNext]_keysVars

-----------------------------------------------------------------------------
(* Properties.                                                             *)

Status == {"none", "live", "retired", "destroyed"}
Value == [key : 0..MaxKey, val : 0..MaxWrite]
KeysTypeOK ==
    /\ key \in [Keys -> Status] /\ secret \in Value
    /\ last \in 0..MaxKey /\ writes \in 0..MaxWrite /\ latest \in 0..MaxWrite
    /\ \A p \in Txs : tx[p].read \in Value /\ tx[p].wrote \in Value

(* A committed secret is never under a key that is not there: it opens,    *)
(* unless the keys were destroyed on purpose, whichever transactions       *)
(* rotated, rolled back or created keys in between ("previous keys retired *)
(* (still readable ...)").                                                 *)
SecretsOpen == ~shredded => Empty(secret) \/ Readable(key, secret.key)

(* Once the keys are destroyed no secret opens and none can be encrypted   *)
(* again, also when a startup pass was under way (crypto-shred).           *)
Shredded == shredded => Live(key) = {} /\ (Empty(secret) \/ ~Readable(key, secret.key)) /\ Destroyed(key)

(* After a startup pass that began once the previous backend was gone, no  *)
(* value is under the installation key any more.                           *)
LegacyGone == moved => ~Legacy(secret)

(* A committed secret is never replaced by an older one ("nothing written  *)
(* concurrently with the old key is lost").                                *)
NothingLost == secret.val = latest
=============================================================================
