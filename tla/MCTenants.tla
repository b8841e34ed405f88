----------------------------- MODULE MCTenants -----------------------------
(* Instance of the tenancy components for TLC: a tenant's deletion, its    *)
(* data keys, support access to it, the jobs that run per tenant, the      *)
(* slots they share, the confinement of statements and reads to a tenant,  *)
(* and the requests and open streams of its users. They share no variable, *)
(* so each behaviour moves one of them.                                    *)
EXTENDS Naturals, TenantJobs

CONSTANTS
    Deletions, Overlap, MaxRequests, MaxFailures, Writers, Operators, QuietStart, MaxKey, MaxWrite,
    Procs, MaxGrants, MaxFlips, Customers, ScopeTasks, Conns, Bindings, MaxStatements, ReadUsers,
    Main, Apart, Filters, MaxReadFaults, Streams, Multi, Period, QueueMax, MaxTime,
    MaxAccessChanges, MaxStreamFaults

VARIABLES
    part,  \* the component this behaviour is about
    status, after, life_started, shred, keys, rows, job, req, life_pc, cancelled, requests, failures,
    key, secret, oldBackend, tx, last, writes, latest, shredded, moved,
    support_grants, audited, open, cache, loading, told, support_late, used, flips,
    rls, ctx, bound, scopes_conn, guc, saved, note, info, pending, dirty, strayed, steps,
    auto, dsn, reads_grants, confined, step, client, leaked, exposed, reads_faults,
    now, member, session, streams_conn, cast, off, streams_late, streams_changes, streams_faults

C == INSTANCE TenantLifecycle WITH
    Requests <- Deletions, Quiet <- QuietStart, started <- life_started, pc <- life_pc
S == INSTANCE SupportAccess WITH
    grants <- support_grants, late <- support_late
TS == INSTANCE TenantScopes WITH
    Tenants <- Customers, Tasks <- ScopeTasks, MaxSteps <- MaxStatements, Accounts <- ReadUsers,
    Tables <- Customers, MaxFaults <- MaxReadFaults, conn <- scopes_conn, grants <- reads_grants,
    faults <- reads_faults
LS == INSTANCE LiveStreams WITH
    Tenants <- Customers, Conns <- Streams, MaxChanges <- MaxAccessChanges, MaxFaults <-
    MaxStreamFaults, conn <- streams_conn, late <- streams_late, changes <- streams_changes, faults
    <- streams_faults
ASSUME C!KeysAssumption
ASSUME S!SupportAssumption
ASSUME JobsAssumption
ASSUME LimiterAssumption
ASSUME TS!ScopesAssumption
ASSUME TS!ReadsAssumption
ASSUME LS!StreamsAssumption

lifeVars ==
    <<status, after, life_started, shred, keys, rows, job, req, life_pc, cancelled, requests,
      failures>>
keysVars ==
    <<key, secret, oldBackend, tx, last, writes, latest, shredded, moved>>
supportVars ==
    <<support_grants, audited, open, cache, loading, told, support_late, used, flips>>
scopesVars ==
    <<rls, ctx, bound, scopes_conn, guc, saved, note, info, pending, dirty, strayed, steps>>
readsVars ==
    <<auto, dsn, reads_grants, confined, step, client, leaked, exposed, reads_faults>>
streamsVars ==
    <<now, member, session, streams_conn, cast, off, streams_late, streams_changes, streams_faults>>
vars == <<part, lifeVars, keysVars, supportVars, jobsVars, slotsVars, scopesVars, readsVars, streamsVars>>

Init ==
    /\ part \in {"life", "keys", "support", "jobs", "slots", "scopes", "reads", "streams"}
    /\ C!LifeInit
    /\ C!KeysInit
    /\ S!Init
    /\ JobsInit /\ (part # "jobs" => kind = "fleet")
    /\ SlotsInit
    /\ TS!ScopesInit /\ (part # "scopes" => rls /\ bound = [k \in ScopeTasks |-> 0])
    /\ TS!ReadsInit /\ (part # "reads" => auto /\ dsn = [p \in Procs |-> Main])
    /\ LS!Init /\ (part # "streams" => session.active = 1)

(* A step of one component leaves the others alone.                        *)
lifeOnly ==
    part = "life" /\ UNCHANGED <<part, keysVars, supportVars, jobsVars, slotsVars, scopesVars, readsVars, streamsVars>>
keysOnly ==
    part = "keys" /\ UNCHANGED <<part, lifeVars, supportVars, jobsVars, slotsVars, scopesVars, readsVars, streamsVars>>
supportOnly ==
    part = "support" /\ UNCHANGED <<part, lifeVars, keysVars, jobsVars, slotsVars, scopesVars, readsVars, streamsVars>>
jobsOnly ==
    part = "jobs" /\ UNCHANGED <<part, lifeVars, keysVars, supportVars, slotsVars, scopesVars, readsVars, streamsVars>>
slotsOnly ==
    part = "slots" /\ UNCHANGED <<part, lifeVars, keysVars, supportVars, jobsVars, scopesVars, readsVars, streamsVars>>
scopesOnly ==
    part = "scopes" /\ UNCHANGED <<part, lifeVars, keysVars, supportVars, jobsVars, slotsVars, readsVars, streamsVars>>
readsOnly ==
    part = "reads" /\ UNCHANGED <<part, lifeVars, keysVars, supportVars, jobsVars, slotsVars, scopesVars, streamsVars>>
streamsOnly ==
    part = "streams" /\ UNCHANGED <<part, lifeVars, keysVars, supportVars, jobsVars, slotsVars, scopesVars, readsVars>>
Next ==
    \/ lifeOnly /\ C!LifeNext
    \/ keysOnly /\ C!KeysNext
    \/ supportOnly /\ S!Next
    \/ jobsOnly /\ JobsNext
    \/ slotsOnly /\ SlotsNext
    \/ scopesOnly /\ TS!ScopesNext
    \/ readsOnly /\ TS!ReadsNext
    \/ streamsOnly /\ LS!Next

(* The fairness of each component.  One component moves in a behaviour, so *)
(* fairness of a disjunction of actions of different components is         *)
(* fairness of each of them.                                               *)
Fairness ==
    /\ WF_vars(\/ lifeOnly /\ C!Purge
               \/ jobsOnly /\ Job)
    /\ WF_vars(lifeOnly /\ C!JobWrites)
    /\ WF_vars(lifeOnly /\ C!GraceOver)
    /\ \A r \in Deletions : WF_lifeVars(part = "life" /\ C!Respond(r))
    /\ \A g \in S!Grants : WF_supportVars(part = "support" /\ S!ExpireGrants(g))
    /\ \A t \in Tenants : WF_jobsVars(part = "jobs" /\ Enter(t)) /\ WF_jobsVars(part = "jobs" /\ Elapse(t) /\ t \notin elapsed)
    /\ \A t \in Tenants \ Stuck : WF_jobsVars(part = "jobs" /\ End(t))
Spec == Init /\ [][Next]_vars /\ Fairness

-----------------------------------------------------------------------------
(* Every component's variables have their types.                           *)
TypesOK ==
    /\ part = "life" => C!LifeTypeOK
    /\ part = "keys" => C!KeysTypeOK
    /\ part = "support" => S!TypeOK
    /\ part = "jobs" => JobsTypeOK
    /\ part = "slots" => SlotsTypeOK
    /\ part = "scopes" => TS!ScopesTypeOK
    /\ part = "reads" => TS!ReadsTypeOK
    /\ part = "streams" => LS!TypeOK

(* A process that has answered that a grant is over lets nobody in with    *)
(* it, unless it was just loading the list; an expired grant never lets    *)
(* anybody in, whatever is cached; and every grant that runs out is        *)
(* audited.                                                                *)
SupportEnds == S!OverAtOnce /\ S!ExpiryIsExact /\ S!EndAudited

(* A statement reaches the rows of the tenant it acts for and of no other, *)
(* whatever ran before on its connection and wherever scopes, savepoints   *)
(* and rollbacks fell; the hook that tells PostgreSQL the tenant knows     *)
(* what it has told; and a read through the restricted user of ClickHouse  *)
(* is confined although users are replaced meanwhile; an open stream       *)
(* carries its own tenant's events, and none once its user's access has    *)
(* been another one for longer than the time between two looks, unless the *)
(* task that looks has died; and a request is made in the name of a user   *)
(* or of a key, never of both.                                             *)
Isolated ==
    /\ part = "scopes" => (TS!ScopesHold /\ TS!NoteTrue)
    /\ part = "reads" => TS!ReadsConfined
    /\ part = "streams" => (LS!StreamsFollow /\ LS!RequestsOwned)

(* A deletion the operator was told is cancelled destroys nothing; the     *)
(* keys are destroyed before any row goes, in every order of failures; and *)
(* when the tenant's row is gone nothing of it is left in any store; a     *)
(* stored secret opens with the keys that are stored, whichever            *)
(* transactions rotated, rolled back or created keys in between; once the  *)
(* keys are destroyed no secret opens and none can be encrypted again;     *)
(* after a startup pass that began once the previous backend was gone no   *)
(* value is under the installation key.                                    *)
TenantDataSafe ==
    /\ part = "life" => (C!CancelledIsKept /\ C!ShredFirst /\ C!NothingLeft)
    /\ part = "keys" => (C!SecretsOpen /\ C!Shredded /\ C!LegacyGone)

(* A due deletion is carried out, though runs fail on the way; and a       *)
(* tenant that stays active is served by the jobs again and again, though  *)
(* others are stuck for ever; a slot is free only while every waiting      *)
(* tenant is at its cap, and no waiting tenant in reach of a slot is       *)
(* passed twice by another.                                                *)
Served ==
    /\ C!Purged
    /\ part = "jobs" => JobsServed
    /\ []WorkConserving
    /\ RoundRobin

=============================================================================
