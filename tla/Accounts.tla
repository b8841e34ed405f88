----------------------------- MODULE Accounts ------------------------------
(***************************************************************************)
(* Accounts, their memberships in tenants and their sessions (routers/     *)
(* users.py, routers/auth.py, services/memberships.py, models/settings.py).*)
(* Accounts are global; a tenant's admins change their role, password and  *)
(* membership, and users sign in and out meanwhile.  A request checks,     *)
(* then decides what goes, then commits: others may commit in between.     *)
(*                                                                         *)
(* A password is a number; a session has the number it was opened with.    *)
(***************************************************************************)
EXTENDS Naturals, FiniteSets, FiniteSetsExt

CONSTANTS
    Users,
    Tenants, Default,   \* DEFAULT_TENANT_ID
    Directory,          \* users that sign in through LDAP
    Requests,           \* under way at once
    MaxChanges          \* bound: changes

AccountsAssumption == Users # {} /\ Default \in Tenants

VARIABLES
    role,               \* user -> tenant -> "admin", "reader" or "none"
    accounts,
    operator,           \* users.is_operator
    password,
    sessions,           \* records [user, opened, own]
    req,
    raced,              \* tenants in which two changes were under way at once, or the directory demoted the last admin
    strays,             \* members elsewhere who were removed from the default tenant
    changes

accountVars == <<role, accounts, operator, password, sessions, req, raced, strays, changes>>
Idle == [op |-> "idle", actor |-> CHOOSE u \in Users : TRUE, user |-> CHOOSE u \in Users : TRUE, tenant |-> Default,
         opened |-> 0, gone |-> FALSE, late |-> FALSE]
MemberOps == {"demote", "promote", "remove"}
Change == changes < MaxChanges /\ changes' = changes + 1

Member(u, t) == role[u][t] # "none"
IsAdmin(u, t) == role[u][t] = "admin"
(* admin_count, _is_last_admin.                                            *)
(* Mutant: the last admin may be demoted.                                  *)
LastAdmin_Never(u, t) == FALSE
LastAdmin(u, t) == IsAdmin(u, t) /\ Cardinality({v \in Users : IsAdmin(v, t)}) <= 1
(* _reach: where else the account has access.                              *)
Reach(u, t) == u \in operator \/ \E s \in Tenants \ {t} : Member(u, s)
(* _may_set_credentials.                                                   *)
MaySetCredentials(actor, u, t) == actor = u \/ actor \in operator \/ ~Reach(u, t)
Underway(t) == {q \in Requests : req[q].op \in MemberOps \cup {"commit"} /\ req[q].tenant = t}

(* update_role, update_user_api, delete_user: the checks.                  *)
Begin(q, op, actor, u, t) ==
    /\ req[q].op = "idle" /\ Change /\ IsAdmin(actor, t) /\ Member(u, t)
    /\ op = "remove" => actor # u
    /\ op \in {"demote", "remove"} => ~LastAdmin(u, t)
    /\ op = "reset" => MaySetCredentials(actor, u, t)
    /\ req' = [req EXCEPT ![q] = [Idle EXCEPT !.op = op, !.actor = actor, !.user = u, !.tenant = t]]
    /\ raced' = IF op \in MemberOps /\ Underway(t) # {} THEN raced \cup {t} ELSE raced
    /\ UNCHANGED <<role, accounts, operator, password, sessions, strays>>

(* _mirror_role.                                                           *)
Mirror(u, t, r) == IF t # Default THEN operator ELSE IF r = "admin" THEN operator \cup {u} ELSE operator \ {u}
(* grant.                                                                  *)
SetRole(q) ==
    LET u == req[q].user
        t == req[q].tenant
        r == IF req[q].op = "promote" THEN "admin" ELSE "reader"
    IN /\ req[q].op \in {"promote", "demote"} /\ req' = [req EXCEPT ![q] = Idle]
       /\ u \in accounts
       /\ role' = [role EXCEPT ![u][t] = r] /\ operator' = Mirror(u, t, r)
       /\ strays' = IF t = Default THEN strays \ {u} ELSE strays
       /\ UNCHANGED <<accounts, password, sessions, raced, changes>>
(* _remove_from_tenant: is a membership left, does the account stay ...    *)
Decide(q) ==
    LET u == req[q].user
        t == req[q].tenant
    IN /\ req[q].op = "remove"
       /\ req' = [req EXCEPT ![q].op = "commit",
                             ![q].gone = (\A s \in Tenants \ {t} : ~Member(u, s)) /\ (u \notin operator \/ req[q].actor \in operator)]
       /\ UNCHANGED <<role, accounts, operator, password, sessions, raced, strays, changes>>
(* ... and the commit.  An account that is gone loses its sessions.        *)
(* Mutant: it keeps them.                                                  *)
Closed_Kept(u) == sessions
Closed(u) == {s \in sessions : s.user # u}
Revoke(q) ==
    LET u == req[q].user
        t == req[q].tenant
    IN /\ req[q].op = "commit" /\ req' = [req EXCEPT ![q] = Idle]
       /\ role' = [role EXCEPT ![u] = [s \in Tenants |-> IF s = t \/ req[q].gone THEN "none" ELSE @[s]]]
       /\ IF req[q].gone
            THEN accounts' = accounts \ {u} /\ sessions' = Closed(u) /\ operator' = operator \ {u} /\ strays' = strays \ {u}
            ELSE /\ UNCHANGED <<accounts, sessions, operator>>
                 /\ strays' = IF t = Default THEN strays \cup {u} ELSE strays
       /\ UNCHANGED <<password, raced, changes>>
(* The account or the membership is gone meanwhile: nothing is written.    *)
Abort(q) ==
    /\ req[q].op \in {"promote", "demote", "reset", "session"} /\ req[q].user \notin accounts
    /\ req' = [req EXCEPT ![q] = Idle]
    /\ UNCHANGED <<role, accounts, operator, password, sessions, raced, strays, changes>>

(* A sign-in that was verified before a password change is late.           *)
Late(u) == [q \in Requests |-> IF req[q].op = "session" /\ req[q].user = u THEN [req[q] EXCEPT !.late = TRUE] ELSE req[q]]
(* reset_password, update_user_api: every session of the user ends.        *)
Reset(q) ==
    LET u == req[q].user
    IN /\ req[q].op = "reset" /\ u \in accounts
       /\ password' = [password EXCEPT ![u] = @ + 1] /\ sessions' = Closed(u)
       /\ req' = [Late(u) EXCEPT ![q] = Idle]
       /\ UNCHANGED <<role, accounts, operator, raced, strays, changes>>
(* change_own_password: every other session ends.                          *)
ChangeOwn(s) ==
    /\ Change /\ password' = [password EXCEPT ![s.user] = @ + 1]
    /\ sessions' = Closed(s.user) \cup {[s EXCEPT !.own = TRUE]}
    /\ req' = Late(s.user)
    /\ UNCHANGED <<role, accounts, operator, raced, strays>>

(* login: the password is verified, the access resolved, then a session    *)
(* is written.                                                             *)
Verify(q, u) ==
    /\ req[q].op = "idle" /\ u \in accounts /\ \E t \in Tenants : Member(u, t)
    /\ req' = [req EXCEPT ![q] = [Idle EXCEPT !.op = "session", !.user = u, !.opened = password[u]]]
    /\ UNCHANGED <<role, accounts, operator, password, sessions, raced, strays, changes>>
SignIn(q) ==
    LET u == req[q].user
    IN /\ req[q].op = "session" /\ u \in accounts
       /\ sessions' = sessions \cup {[user |-> u, opened |-> req[q].opened, own |-> req[q].late]}
       /\ req' = [req EXCEPT ![q] = Idle]
       /\ UNCHANGED <<role, accounts, operator, password, raced, strays, changes>>
(* _try_ldap_login: the groups of the directory decide the role in the     *)
(* default tenant, and a first sign-in creates the account.                *)
LdapLogin(u, r) ==
    /\ Change /\ u \in Directory /\ \A q \in Requests : req[q].op = "idle" \/ req[q].user # u
    /\ accounts' = accounts \cup {u} /\ role' = [role EXCEPT ![u][Default] = r] /\ operator' = Mirror(u, Default, r)
    /\ raced' = IF (LastAdmin(u, Default) /\ r # "admin") \/ Underway(Default) # {} THEN raced \cup {Default} ELSE raced
    /\ strays' = strays \ {u}
    /\ sessions' = sessions \cup {[user |-> u, opened |-> password[u], own |-> FALSE]}
    /\ UNCHANGED <<password, req>>
(* logout; a session expires.                                              *)
Logout(s) ==
    /\ sessions' = sessions \ {s}
    /\ UNCHANGED <<role, accounts, operator, password, req, raced, strays, changes>>
(* create_user_api, add_user: a new account, with a new id.                *)
Create(u, t) ==
    /\ Change /\ u \notin accounts /\ \A q \in Requests : req[q].op = "idle" \/ req[q].user # u
    /\ accounts' = accounts \cup {u} /\ role' = [role EXCEPT ![u][t] = "reader"]
    /\ password' = [password EXCEPT ![u] = @ + 1]
    /\ UNCHANGED <<operator, sessions, req, raced, strays>>

AccountInit ==
    /\ accounts = Users /\ sessions = {} /\ req = [q \in Requests |-> Idle]
    /\ role \in [Users -> [Tenants -> {"admin", "reader", "none"}]]
    /\ \A t \in Tenants : \E u \in Users : IsAdmin(u, t)
    /\ \A u \in Users : \E t \in Tenants : Member(u, t)
    /\ operator = {u \in Users : IsAdmin(u, Default)} /\ password = [u \in Users |-> 0]
    /\ raced = {} /\ strays = {} /\ changes = 0
AccountNext ==
    \/ \E q \in Requests :
         \/ \E op \in MemberOps \cup {"reset"}, actor \in Users, u \in Users, t \in Tenants : Begin(q, op, actor, u, t)
         \/ SetRole(q) \/ Decide(q) \/ Revoke(q) \/ Abort(q) \/ Reset(q) \/ SignIn(q)
         \/ \E u \in Users : Verify(q, u)
    \/ \E s \in sessions : ChangeOwn(s) \/ Logout(s)
    \/ \E u \in Users : (\E t \in Tenants : Create(u, t)) \/ \E r \in {"admin", "reader"} : LdapLogin(u, r)
AccountSpec == AccountInit /\ [][AccountNext]_accountVars

-----------------------------------------------------------------------------
(* Properties.                                                             *)

AccountTypeOK ==
    /\ role \in [Users -> [Tenants -> {"admin", "reader", "none"}]] /\ accounts \subseteq Users /\ operator \subseteq Users
    /\ \A s \in sessions : s.user \in Users /\ s.opened \in Nat

(* A tenant always has an admin, however requests in different tenants     *)
(* and on shared accounts mix, unless two changes to its own members were  *)
(* under way at once or the directory took the last one.                   *)
AdminLeft == \A t \in Tenants \ raced : \E u \in accounts : IsAdmin(u, t)

(* The operator flag is that of the admins of the default tenant, except   *)
(* for one who was removed there and is still a member elsewhere.          *)
OperatorMirrors == \A u \in Users \ strays : u \in operator <=> IsAdmin(u, Default)

(* A session belongs to an account, and was opened with its present        *)
(* password, or is the one that changed it, or its sign-in was under way   *)
(* then.                                                                   *)
SessionsFresh == \A s \in sessions : s.user \in accounts /\ (s.own \/ s.opened = password[s.user])

-----------------------------------------------------------------------------
(***************************************************************************)
(* The limits on requests and sign-ins (ratelimit.py, services/            *)
(* shared_state.py, the soft lock of routers/auth.py).  Each of them looks *)
(* at a count and records the attempt afterwards:                          *)
(*   memory  a list of times in this process, in one go;                   *)
(*   redis   a counter of the present bucket, with two requests, and the   *)
(*           list in memory for one that Redis does not answer;            *)
(*   lock    failed sign-ins in a setting: read, and later read again,     *)
(*           extended and written.                                         *)
(*                                                                         *)
(* A counter is named by its window, in ticks of time; a count by age      *)
(* stands for its list of times.  The windows divide the longest one.  Of  *)
(* the two windows of the soft lock the short one is modelled.             *)
(***************************************************************************)
CONSTANTS
    Kinds,
    Windows,        \* window_seconds of the counters
    Limit,          \* max_requests, _LOCKOUT_ATTEMPTS
    Callers,
    Apart,          \* sign-ins to the same account do not overlap
    Cleanup,        \* ticks from a clean-up of the lists to the next
    MaxFaults       \* bound: requests Redis does not answer

VARIABLES
    limiter,        \* member of Kinds
    hits,           \* counter -> age -> entries of its list
    bucket,         \* counter -> entries of the present bucket in Redis
    clock,
    cleaned,        \* ticks since _last_cleanup
    caller,         \* what a caller is doing; read is the list the lock has read
    granted,        \* counter -> age -> attempts let through
    outages

limitVars == <<limiter, hits, bucket, clock, cleaned, caller, granted, outages>>
Top == Max(Windows)
Ages == 0..(Top - 1)
Empty == [a \in Ages |-> 0]
Unlimited == [pc |-> "idle", w |-> Top, read |-> Empty]
Within(h, w) == MapThenSumSet(LAMBDA a : h[a], 0..(w - 1))
Plus(h) == [h EXCEPT ![0] = @ + 1]
Grant(w) == granted' = [granted EXCEPT ![w] = Plus(@)]
Fails(yes) == IF yes THEN limiter = "redis" /\ outages < MaxFaults /\ outages' = outages + 1 ELSE outages' = outages

(* _mem_incr: now and then the lists without a recent entry are dropped -  *)
(* recent by the window of the caller.                                     *)
(* Mutant: by its window alone.                                            *)
Stale_Once(v, w) == \A a \in Ages : hits[v][a] > 0 => a > w
Stale(v, w) == \A a \in Ages : hits[v][a] > 0 => a > 2 * w
Swept(w) == IF cleaned > Cleanup THEN [v \in Windows |-> IF Stale(v, w) THEN Empty ELSE hits[v]] ELSE hits
MemIncr(w) ==
    /\ hits' = [Swept(w) EXCEPT ![w] = Plus(@)]
    /\ cleaned' = IF cleaned > Cleanup THEN 0 ELSE cleaned
(* window_count, _redis_count, _mem_count.                                 *)
Count(w, down) == IF limiter = "redis" /\ ~down THEN bucket[w] ELSE Within(hits[w], w)
(* incr_window: Redis, else the list.                                      *)
Incr(w, down) ==
    IF limiter = "redis" /\ ~down
      THEN bucket' = [bucket EXCEPT ![w] = @ + 1] /\ UNCHANGED <<hits, cleaned>>
      ELSE MemIncr(w) /\ UNCHANGED bucket

(* is_limited, rate_limit without Redis: nothing comes between.            *)
Limited(w, down) == Count(w, down) >= Limit
Request(w) ==
    /\ limiter = "memory"
    /\ IF Limited(w, FALSE) THEN UNCHANGED <<hits, bucket, cleaned, granted>>
       ELSE Incr(w, FALSE) /\ Grant(w)
    /\ UNCHANGED <<limiter, clock, caller, outages>>
(* The same with Redis: the count ...                                      *)
Look(c, w, down) ==
    /\ limiter = "redis" /\ caller[c].pc = "idle" /\ Fails(down)
    /\ caller' = IF Limited(w, down) THEN caller ELSE [caller EXCEPT ![c] = [Unlimited EXCEPT !.pc = "record", !.w = w]]
    /\ UNCHANGED <<limiter, hits, bucket, clock, cleaned, granted>>
(* ... then the entry.                                                     *)
Record(c, down) ==
    /\ limiter = "redis" /\ caller[c].pc = "record" /\ Fails(down)
    /\ Incr(caller[c].w, down) /\ Grant(caller[c].w)
    /\ caller' = [caller EXCEPT ![c] = Unlimited]
    /\ UNCHANGED <<limiter, clock>>

(* login: _lock_remaining, then the password is checked.                   *)
Locked(w) == Within(hits[w], w) >= Limit
TrySignIn(c, w, right) ==
    /\ limiter = "lock" /\ caller[c].pc = "idle" /\ ~Locked(w)
    /\ Apart => \A d \in Callers : caller[d].pc = "idle"
    /\ caller' = [caller EXCEPT ![c] = [Unlimited EXCEPT !.pc = IF right THEN "clear" ELSE "failed", !.w = w]]
    /\ IF right THEN UNCHANGED granted ELSE Grant(w)
    /\ UNCHANGED <<limiter, hits, bucket, clock, cleaned, outages>>
(* _record_failed_attempt.                                                 *)
ReadFailures(c) ==
    /\ caller[c].pc = "failed"
    /\ caller' = [caller EXCEPT ![c].pc = "write", ![c].read = hits[caller[c].w]]
    /\ UNCHANGED <<limiter, hits, bucket, clock, cleaned, granted, outages>>
WriteFailures(c) ==
    /\ caller[c].pc = "write"
    /\ hits' = [hits EXCEPT ![caller[c].w] = Plus(caller[c].read)]
    /\ caller' = [caller EXCEPT ![c] = Unlimited]
    /\ UNCHANGED <<limiter, bucket, clock, cleaned, granted, outages>>
(* _clear_failed_attempts, by a sign-in that found no lock.                *)
Clear(c) ==
    /\ caller[c].pc = "clear"
    /\ hits' = [hits EXCEPT ![caller[c].w] = Empty] /\ granted' = [granted EXCEPT ![caller[c].w] = Empty]
    /\ caller' = [caller EXCEPT ![c] = Unlimited]
    /\ UNCHANGED <<limiter, bucket, clock, cleaned, outages>>

(* Time passes; a request is over within a tick.                           *)
Aged(h) == [a \in Ages |-> IF a = 0 THEN 0 ELSE h[a - 1]]
Tick ==
    /\ \A c \in Callers : caller[c].pc = "idle"
    /\ clock' = (clock + 1) % Top
    /\ hits' = [w \in Windows |-> Aged(hits[w])] /\ granted' = [w \in Windows |-> Aged(granted[w])]
    /\ bucket' = [w \in Windows |-> IF clock' % w = 0 THEN 0 ELSE bucket[w]]
    /\ cleaned' = IF cleaned > Cleanup THEN cleaned ELSE cleaned + 1
    /\ UNCHANGED <<limiter, caller, outages>>

LimitInit ==
    /\ limiter \in Kinds /\ clock = 0 /\ cleaned = 0 /\ outages = 0
    /\ hits = [w \in Windows |-> Empty] /\ granted = [w \in Windows |-> Empty]
    /\ bucket = [w \in Windows |-> 0] /\ caller = [c \in Callers |-> Unlimited]
LimitNext ==
    \/ \E w \in Windows :
         \/ Request(w)
         \/ \E c \in Callers : \/ \E down \in BOOLEAN : Look(c, w, down)
                               \/ \E right \in BOOLEAN : TrySignIn(c, w, right)
    \/ \E c \in Callers : ReadFailures(c) \/ WriteFailures(c) \/ Clear(c) \/ \E down \in BOOLEAN : Record(c, down)
    \/ Tick
LimitSpec == LimitInit /\ [][LimitNext]_limitVars

-----------------------------------------------------------------------------
(* Properties.                                                             *)

LimitTypeOK ==
    /\ limiter \in Kinds /\ clock \in Nat /\ cleaned \in 0..(Cleanup + 1)
    /\ \A w \in Windows : bucket[w] \in Nat /\ DOMAIN hits[w] = Ages
    /\ \A c \in Callers : caller[c].pc \in {"idle", "record", "failed", "write", "clear"}

(* What one counter lets through within its window: in memory exactly the  *)
(* limit, although the lists of other windows are cleaned up meanwhile;    *)
(* with Redis the limit in each of the two buckets a window meets, one     *)
(* more for every other caller and for every answer Redis did not give;    *)
(* and wrong passwords up to the limit.                                    *)
Others == Cardinality(Callers) - 1
Bound == IF limiter = "redis" THEN 2 * (Limit + Others) + outages ELSE Limit
WithinLimit == \A w \in Windows : Within(granted[w], w) <= Bound
=============================================================================
