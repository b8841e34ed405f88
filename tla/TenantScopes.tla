--------------------------- MODULE TenantScopes ----------------------------
(***************************************************************************)
(* Who a database statement acts for (services/tenancy.py, pg_rls.py).     *)
(* A task runs in the scope of a tenant, in system scope or in none.  The  *)
(* session filter looks at the scope when a statement is made and when     *)
(* objects are added and flushed.  Row-level security looks at two         *)
(* settings of the transaction, which a hook sends before a statement when *)
(* the connection's note of what it last sent differs; the server undoes   *)
(* them at the end of a transaction and at ROLLBACK TO SAVEPOINT, and the  *)
(* connection goes back to a pool with its note.                           *)
(***************************************************************************)
EXTENDS Naturals, Sequences, FiniteSets

CONSTANTS
    Tenants,
    Tasks,
    Conns,          \* the pool
    Bindings,       \* what sessions may be bound to (bind_session)
    MaxSteps        \* bound: statements, scopes and faults

VARIABLES
    rls,            \* RLS_ENABLED
    ctx,            \* task -> its scope
    bound,          \* task -> the tenant its session is bound to, or Nobody
    conn,           \* task -> its connection, or NoConn
    guc,            \* connection -> the settings, as the server has them
    saved,          \* connection -> what they were at the open savepoints
    note,           \* connection -> info[_STATE_KEY]
    info,           \* connection -> info[_BOUND_KEY]
    pending,        \* task -> the object added and not flushed, or Nothing
    dirty,          \* task -> the tenant of a loaded object it has changed, or Nobody
    strayed,        \* a statement has reached rows of a tenant it did not act for
    steps

scopesVars == <<rls, ctx, bound, conn, guc, saved, note, info, pending, dirty, strayed, steps>>
Nobody == 0
System == 99
NoConn == "none"
Unknown == 98                                \* ("?", "?")
NoScope == 97
Nothing == [tenant |-> Nobody, made |-> {}]
Clean == Nobody                              \* ("", "off"): no tenant, no bypass
Bounded == steps < MaxSteps /\ steps' = steps + 1

(* Tenants have ids of their own, and a session is bound to one of them.   *)
ScopesAssumption ==
    /\ Tenants \cap {Nobody, System, Unknown, NoScope} = {} /\ Bindings \subseteq Tenants \cup {Nobody}
    /\ NoConn \notin Conns /\ MaxSteps \in Nat

(* _effective_context: the ambient scope, else the session's binding.      *)
Effective(k) == IF ctx[k] # NoScope THEN ctx[k] ELSE IF bound[k] # Nobody THEN bound[k] ELSE NoScope
Allowed(scope) == CASE scope = System -> Tenants [] scope = NoScope -> {} [] OTHER -> {scope}
(* The policy: tenants whose rows a transaction with these settings sees.  *)
Policy(setting) == CASE setting = System -> Tenants [] setting = Clean -> {} [] OTHER -> {setting}

(* wanted_settings.                                                        *)
Wanted(k) == LET c == conn[k] IN
    CASE ctx[k] = NoScope /\ info[c] # Nobody -> info[c]
      [] ctx[k] = NoScope /\ info[c] = Nobody -> Clean
      [] OTHER -> ctx[k]

(* _before_cursor_execute, of any statement but one about savepoints.      *)
Hook(k) == LET c == conn[k] IN
    IF rls /\ note[c] # Wanted(k)
    THEN guc' = [guc EXCEPT ![c] = Wanted(k)] /\ note' = [note EXCEPT ![c] = Wanted(k)]
    ELSE UNCHANGED <<guc, note>>
Behind(k) == IF rls THEN Policy(guc'[conn[k]]) ELSE Tenants
Reached(k, rows) == strayed' = (strayed \/ ~(rows \subseteq Allowed(Effective(k))))

(***************************************************************************)
(* Scopes, sessions and transactions.                                      *)
(***************************************************************************)
(* tenant_scope, system_scope, and their ends.                             *)
Scope(k, c) ==
    /\ Bounded /\ c # ctx[k] /\ ctx' = [ctx EXCEPT ![k] = c]
    /\ UNCHANGED <<rls, bound, conn, guc, saved, note, info, pending, dirty, strayed>>

(* The session's first statement takes a connection; begin, _after_begin.  *)
Begin(k, c) ==
    /\ conn[k] = NoConn /\ \A j \in Tasks : conn[j] # c
    /\ conn' = [conn EXCEPT ![k] = c] /\ guc' = [guc EXCEPT ![c] = Clean]
    /\ saved' = [saved EXCEPT ![c] = <<>>] /\ note' = [note EXCEPT ![c] = Clean]
    /\ info' = [info EXCEPT ![c] = bound[k]]
    /\ UNCHANGED <<rls, ctx, bound, pending, dirty, strayed, steps>>

(* commit or rollback, _transaction_boundary; then check-in, _pool_clear.  *)
Ended(k) == LET c == conn[k] IN
    /\ conn' = [conn EXCEPT ![k] = NoConn] /\ guc' = [guc EXCEPT ![c] = Clean]
    /\ saved' = [saved EXCEPT ![c] = <<>>] /\ note' = [note EXCEPT ![c] = Clean]
    /\ info' = [info EXCEPT ![c] = Nobody]
End(k) ==
    /\ conn[k] # NoConn /\ Ended(k)
    /\ pending' = [pending EXCEPT ![k] = Nothing] /\ dirty' = [dirty EXCEPT ![k] = Nobody]
    /\ UNCHANGED <<rls, ctx, bound, strayed, steps>>

(* SAVEPOINT: the hook lets it pass without sending settings.              *)
Savepoint(k) ==
    /\ Bounded /\ conn[k] # NoConn /\ saved[conn[k]] = <<>>
    /\ saved' = [saved EXCEPT ![conn[k]] = <<guc[conn[k]]>>]
    /\ UNCHANGED <<rls, ctx, bound, conn, guc, note, info, pending, dirty, strayed>>
Release(k) ==
    /\ conn[k] # NoConn /\ saved[conn[k]] # <<>> /\ saved' = [saved EXCEPT ![conn[k]] = Tail(@)]
    /\ UNCHANGED <<rls, ctx, bound, conn, guc, note, info, pending, dirty, strayed, steps>>
(* ROLLBACK TO SAVEPOINT, _savepoint_rollback.                             *)
(* Mutant: the note is kept.                                               *)
Noted_Kept(c) == UNCHANGED note
Noted(c) == note' = [note EXCEPT ![c] = Unknown]
RollbackTo(k) ==
    /\ conn[k] # NoConn /\ saved[conn[k]] # <<>>
    /\ guc' = [guc EXCEPT ![conn[k]] = Head(saved[conn[k]])]
    /\ saved' = [saved EXCEPT ![conn[k]] = Tail(@)] /\ Noted(conn[k])
    /\ UNCHANGED <<rls, ctx, bound, conn, info, pending, dirty, strayed, steps>>

(***************************************************************************)
(* Statements.                                                             *)
(***************************************************************************)
(* text() and Core statements: only row-level security confines them.      *)
Raw(k) ==
    /\ Bounded /\ rls /\ conn[k] # NoConn /\ Hook(k) /\ Reached(k, Behind(k))
    /\ UNCHANGED <<rls, ctx, bound, conn, saved, info, pending, dirty>>

(* _on_orm_execute: refused without a scope, else filtered.                *)
Orm(k) ==
    /\ Bounded /\ conn[k] # NoConn /\ Effective(k) # NoScope /\ Hook(k)
    /\ Reached(k, Behind(k) \cap Allowed(Effective(k)))
    /\ UNCHANGED <<rls, ctx, bound, conn, saved, info, pending, dirty>>

(* A loaded object of tenant t is changed; in system scope any was loaded. *)
Change(k, t) ==
    /\ Bounded /\ dirty[k] = Nobody /\ t \in Allowed(Effective(k)) /\ dirty' = [dirty EXCEPT ![k] = t]
    /\ UNCHANGED <<rls, ctx, bound, conn, guc, saved, note, info, pending, strayed>>

(* session.add, _on_pending: a new object gets the tenant of the scope; in *)
(* system scope the code gives it one, or does not.                        *)
(* Mutant: it gets it when it is flushed.                                  *)
Stamp_Late(scope, given) == IF scope = System THEN given ELSE Nobody
Stamp(scope, given) == IF scope \in Tenants THEN scope ELSE given
MadeFor(scope, given) == IF scope \in Tenants THEN {scope} ELSE IF given # Nobody THEN {given} ELSE Tenants
Add(k, given) ==
    /\ Bounded /\ pending[k] = Nothing /\ (given # Nobody => Effective(k) = System)
    /\ pending' = [pending EXCEPT ![k] = [tenant |-> Stamp(Effective(k), given), made |-> MadeFor(Effective(k), given)]]
    /\ UNCHANGED <<rls, ctx, bound, conn, guc, saved, note, info, dirty, strayed>>

(* _before_flush: what it lets through.                                    *)
NewOK(k) == LET e == Effective(k) t == pending[k].tenant IN
    \/ pending[k] = Nothing
    \/ e = System /\ t # Nobody
    \/ e \in Tenants /\ t \in {Nobody, e}
ChangedOK(k) == dirty[k] = Nobody \/ Effective(k) = System \/ dirty[k] = Effective(k)
Unflushed(k) == conn[k] # NoConn /\ (pending[k] # Nothing \/ dirty[k] # Nobody)
Flushed(k) == pending' = [pending EXCEPT ![k] = Nothing] /\ dirty' = [dirty EXCEPT ![k] = Nobody]
Owner(k) == IF pending[k].tenant = Nobody THEN Effective(k) ELSE pending[k].tenant

(* The rows are written where row-level security lets them.                *)
Flush(k) ==
    /\ Unflushed(k) /\ NewOK(k) /\ ChangedOK(k) /\ Hook(k) /\ Flushed(k)
    /\ strayed' = \/ strayed
                  \/ pending[k] # Nothing /\ Owner(k) \in Behind(k) \ pending[k].made
                  \/ dirty[k] \in Behind(k) \ Allowed(Effective(k))
    /\ UNCHANGED <<rls, ctx, bound, conn, saved, info, steps>>

(* TenantContextError: the transaction is rolled back.                     *)
FlushRefused(k) ==
    /\ Unflushed(k) /\ ~(NewOK(k) /\ ChangedOK(k)) /\ Ended(k) /\ Flushed(k)
    /\ UNCHANGED <<rls, ctx, bound, strayed, steps>>

ScopesInit ==
    /\ rls \in BOOLEAN /\ bound \in [Tasks -> Bindings]
    /\ ctx = [k \in Tasks |-> NoScope] /\ conn = [k \in Tasks |-> NoConn]
    /\ guc = [c \in Conns |-> Clean] /\ saved = [c \in Conns |-> <<>>]
    /\ note = [c \in Conns |-> Clean] /\ info = [c \in Conns |-> Nobody]
    /\ pending = [k \in Tasks |-> Nothing] /\ dirty = [k \in Tasks |-> Nobody]
    /\ strayed = FALSE /\ steps = 0

(* The bound is reached and every transaction has ended.                   *)
Rest == steps = MaxSteps /\ (\A k \in Tasks : conn[k] = NoConn) /\ UNCHANGED scopesVars

ScopesNext ==
    \/ \E k \in Tasks :
         \/ \E c \in Tenants \cup {System, NoScope} : Scope(k, c)
         \/ \E c \in Conns : Begin(k, c)
         \/ \E t \in Tenants : Change(k, t)
         \/ \E t \in Tenants \cup {Nobody} : Add(k, t)
         \/ End(k) \/ Savepoint(k) \/ Release(k) \/ RollbackTo(k)
         \/ Raw(k) \/ Orm(k) \/ Flush(k) \/ FlushRefused(k)
    \/ Rest

ScopesSpec == ScopesInit /\ [][ScopesNext]_scopesVars

-----------------------------------------------------------------------------
Settings == Tenants \cup {Clean, System}
(* Every variable has its type.                                            *)
ScopesTypeOK ==
    /\ rls \in BOOLEAN /\ ctx \in [Tasks -> Tenants \cup {System, NoScope}]
    /\ bound \in [Tasks -> Tenants \cup {Nobody}] /\ conn \in [Tasks -> Conns \cup {NoConn}]
    /\ guc \in [Conns -> Settings] /\ note \in [Conns -> Settings \cup {Unknown}]
    /\ saved \in [Conns -> Seq(Settings)] /\ \A c \in Conns : Len(saved[c]) <= 1
    /\ info \in [Conns -> Tenants \cup {Nobody}] /\ steps \in 0 .. MaxSteps
    /\ dirty \in [Tasks -> Tenants \cup {Nobody}]
    /\ pending \in [Tasks -> [tenant : Tenants \cup {Nobody}, made : SUBSET Tenants]]

(* A statement reaches rows of the tenant it acts for and of no other:     *)
(* whichever connection it got, whatever ran on it before, and wherever    *)
(* scopes, savepoints and their rollbacks fell; an object added for one    *)
(* tenant is never written for another.                                    *)
ScopesHold == ~strayed

(* The hook's note of a connection is what the server has, or says that it *)
(* does not know.                                                          *)
NoteTrue == \A c \in Conns : note[c] \in {guc[c], Unknown}

-----------------------------------------------------------------------------
(***************************************************************************)
(* Reads of tenant tables in ClickHouse (services/clickhouse_client.py).   *)
(* A tenant read must name the predicate as often as it names tables, is   *)
(* sent with server-side filters when they are enabled, and goes through a *)
(* restricted user when there is one.  Each process provisions the user of *)
(* its own configuration, statement by statement, and checks it before it  *)
(* reads through it; while an installation moves from one user to another  *)
(* two configurations run side by side.                                    *)
(***************************************************************************)
CONSTANTS
    Procs,
    Accounts,       \* restricted users a configuration may name
    Main,           \* the user of CLICKHOUSE_URL
    Tables,         \* TENANT_TABLES, as numbers in their order
    Apart,          \* two users are not provisioned at the same time
    Filters,        \* NODEGLOW_CLICKHOUSE_TABLE_FILTERS
    MaxFaults       \* bound: failed statements, restarts

VARIABLES
    auto,           \* PROVISION_TENANT_USER; otherwise users are made by hand
    dsn,            \* process -> the user of CLICKHOUSE_TENANT_URL, or Unset
    grants,         \* user -> the tables it may read
    confined,       \* table -> the user both policies name, or Unset
    step,           \* process -> provisioning: tables left, or where it stands
    client,         \* process -> the user its tenant client reads as, or Unset
    leaked,         \* a tenant read through a restricted user returned rows of another tenant
    exposed,        \* users whose REVOKE failed, or left between GRANT and its policies
    faults

readsVars == <<auto, dsn, grants, confined, step, client, leaked, exposed, faults>>
Unset == "unset"
Users == Accounts \cup {Main}

(* The restricted users are not the one of CLICKHOUSE_URL.                 *)
ReadsAssumption ==
    /\ Main \notin Accounts /\ Unset \notin Users /\ MaxFaults \in Nat
    /\ Tables # {} /\ Tables \subseteq Nat
Fault == faults < MaxFaults /\ faults' = faults + 1
Set(p, phase, left) == step' = [step EXCEPT ![p] = [phase |-> phase, left |-> left]]

(* The rows of table t that user u sees when the setting names a tenant:   *)
(* nodeglow_unrestricted is for everybody but the confined user.           *)
SeesAll(u, t) == t \in grants[u] /\ confined[t] # u

(***************************************************************************)
(* provision_tenant_user, from get_client when a process first connects.   *)
(***************************************************************************)
(* The users the policies were made for before lose their grants; a REVOKE *)
(* that fails is logged.                                                   *)
(* Mutant: the policies are re-targeted and the grants stay.               *)
Revoked_Kept(p, failed) == UNCHANGED <<grants, exposed>>
Revoked(p, failed) ==
    LET old == {confined[t] : t \in Tables} \ {Unset, dsn[p]} IN
    /\ grants' = [u \in Users |-> IF u \in old /\ u \notin failed THEN {} ELSE grants[u]]
    /\ exposed' = exposed \cup (old \cap failed)
Provision(p, failed) ==
    /\ step[p].phase = "start" /\ dsn[p] \in Accounts /\ auto
    /\ Apart => \A q \in Procs : step[q].phase \in {"grant", "policies"} => dsn[q] = dsn[p]
    /\ IF failed = {} THEN UNCHANGED faults ELSE Fault
    /\ Revoked(p, failed) /\ Set(p, "grant", Tables) /\ UNCHANGED <<auto, dsn, confined, client, leaked>>

(* Table by table, GRANT SELECT and then the two policies.                 *)
Least(S) == CHOOSE t \in S : \A x \in S : t <= x
Current(p) == Least(step[p].left)
Grant(p) ==
    /\ step[p].phase = "grant" /\ grants' = [grants EXCEPT ![dsn[p]] = @ \cup {Current(p)}]
    /\ Set(p, "policies", step[p].left)
    /\ UNCHANGED <<auto, dsn, confined, client, leaked, exposed, faults>>
Policies(p) == LET rest == step[p].left \ {Current(p)} IN
    /\ step[p].phase = "policies" /\ confined' = [confined EXCEPT ![Current(p)] = dsn[p]]
    /\ Set(p, IF rest = {} THEN "ready" ELSE "grant", rest)
    /\ UNCHANGED <<auto, dsn, grants, client, leaked, exposed, faults>>

Open(p) == IF step[p].phase = "policies" THEN {dsn[p]} ELSE {}

(* A statement fails: the connection is there, the user half provisioned.  *)
ProvisionFails(p) ==
    /\ Fault /\ step[p].phase \in {"start", "grant", "policies"} /\ dsn[p] # Unset /\ Set(p, "ready", {})
    /\ exposed' = exposed \cup Open(p) /\ UNCHANGED <<auto, dsn, grants, confined, client, leaked>>
NoProvision(p) ==
    /\ step[p].phase = "start" /\ (dsn[p] \in {Unset, Main} \/ ~auto) /\ Set(p, "ready", {})
    /\ UNCHANGED <<auto, dsn, grants, confined, client, leaked, exposed, faults>>

(***************************************************************************)
(* get_tenant_client, verify_restricted.                                   *)
(***************************************************************************)
(* On every table a read without the setting fails and one with it works.  *)
(* Mutant: only the second is tried.                                       *)
Verified_Reads(u) == u # Main /\ \A t \in Tables : t \in grants[u]
Verified(u) == u # Main /\ \A t \in Tables : t \in grants[u] /\ confined[t] = u

Connect(p) ==
    /\ step[p].phase = "ready" /\ client[p] = Unset /\ dsn[p] # Unset /\ Verified(dsn[p])
    /\ client' = [client EXCEPT ![p] = dsn[p]]
    /\ UNCHANGED <<auto, dsn, grants, confined, step, leaked, exposed, faults>>

(* TenantIsolationError: the read is refused, and the check tried again a  *)
(* minute later.                                                           *)
Refused(p) == step[p].phase = "ready" /\ client[p] = Unset /\ dsn[p] # Unset /\ ~Verified(dsn[p]) /\ UNCHANGED readsVars

(* query in a tenant scope.  A statement with fewer predicates than tables *)
(* is refused; one may have two for one table and none for another.        *)
Query(p, t, sql) ==
    /\ step[p].phase = "ready" /\ sql # "bare" /\ (dsn[p] # Unset => client[p] # Unset)
    /\ leaked' = (leaked \/ (/\ sql = "miscounted" /\ ~Filters /\ dsn[p] # Unset
                             /\ client[p] \notin exposed \cup UNION {Open(q) : q \in Procs} /\ SeesAll(client[p], t)))
    /\ UNCHANGED <<auto, dsn, grants, confined, step, client, exposed, faults>>

(* The process starts, with the same or another configuration.             *)
Restart(p, u) ==
    /\ Fault /\ dsn' = [dsn EXCEPT ![p] = u] /\ Set(p, "start", {}) /\ client' = [client EXCEPT ![p] = Unset]
    /\ exposed' = exposed \cup Open(p) /\ UNCHANGED <<auto, grants, confined, leaked>>

ReadsInit ==
    /\ dsn \in [Procs -> Accounts \cup {Unset, Main}]
    /\ auto \in BOOLEAN
    /\ grants = [u \in Users |-> IF u = Main \/ ~auto THEN Tables ELSE {}]
    /\ confined = [t \in Tables |-> Unset] /\ step = [p \in Procs |-> [phase |-> "start", left |-> {}]]
    /\ client = [p \in Procs |-> Unset] /\ leaked = FALSE /\ exposed = {} /\ faults = 0

ReadsNext ==
    \E p \in Procs :
        \/ \E failed \in SUBSET Accounts : Provision(p, failed)
        \/ \E t \in Tables, sql \in {"exact", "miscounted", "bare"} : Query(p, t, sql)
        \/ Grant(p) \/ Policies(p) \/ ProvisionFails(p) \/ NoProvision(p) \/ Connect(p) \/ Refused(p)
        \/ \E u \in Accounts \cup {Unset, Main} : Restart(p, u)

ReadsSpec == ReadsInit /\ [][ReadsNext]_readsVars

-----------------------------------------------------------------------------
(* Every variable has its type.                                            *)
ReadsTypeOK ==
    /\ auto \in BOOLEAN /\ dsn \in [Procs -> Users \cup {Unset}] /\ client \in [Procs -> Users \cup {Unset}]
    /\ grants \in [Users -> SUBSET Tables] /\ confined \in [Tables -> Accounts \cup {Unset}]
    /\ \A p \in Procs : step[p].phase \in {"start", "grant", "policies", "ready"} /\ step[p].left \subseteq Tables
    /\ leaked \in BOOLEAN /\ exposed \subseteq Accounts /\ faults \in 0 .. MaxFaults

(* A tenant read through a restricted user sees one tenant's rows, or      *)
(* fails: on every table, although the user may since have been replaced   *)
(* by another process; unless its grants could not be taken away, or are   *)
(* given again and the policies have not followed.                         *)
ReadsConfined == ~leaked
=============================================================================
