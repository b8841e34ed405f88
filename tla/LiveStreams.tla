------------------------------ MODULE LiveStreams ------------------------------
(***************************************************************************)
(* What a signed-in user may do and see, request by request and on         *)
(* connections that stay open (inject_globals and ws_live of main.py, the  *)
(* WebSocket hub, the live tail of routers/syslog.py, resolve_access and   *)
(* revalidate_access of services/tenancy.py).  An open connection was let  *)
(* in once; it looks again every Period whether its user still has the     *)
(* same access.  The WebSocket does so in a task of its own, the live tail *)
(* between two messages.  The multi-tenant backend remembers what it found *)
(* on the connection.                                                      *)
(***************************************************************************)
EXTENDS Integers, FiniteSets

CONSTANTS
    Tenants,
    Conns,          \* connections, each used once
    Multi,          \* the multi-tenant backend is installed
    Period,         \* STREAM_REVALIDATE_SECONDS
    QueueMax,       \* maxsize of a subscriber's queue
    MaxTime, MaxChanges, MaxFaults

VARIABLES
    now,
    member,         \* tenant -> role of the user there; "none" also while it is suspended
    session,        \* whether it lives, and its active tenant
    conn,
    cast,           \* the broadcast under way: its tenant, and the clients it has not come to
    off,            \* connection -> since when its user's access is another one
    late,           \* connections that were sent something they should not have been
    changes, faults

vars == <<now, member, session, conn, cast, off, late, changes, faults>>
StreamsAssumption ==
    Period \in Nat /\ QueueMax \in Nat /\ MaxTime \in Nat \ {0} /\ MaxChanges \in Nat /\ MaxFaults \in Nat
Unset == 0
Roles == {"readonly", "editor", "admin"}
Members == [Tenants -> Roles \cup {"none"}]
NoAccess == [tenant |-> Unset, role |-> "none"]
Quiet == [tenant |-> Unset, todo |-> {}]
New == [at |-> "new", kind |-> "ws", asked |-> Unset, access |-> NoAccess, cache |-> [t \in Tenants |-> "none"],
        checked |-> 0, woke |-> 0, queue |-> 0, blind |-> FALSE]
Gone == [New EXCEPT !.at = "gone"]

Init ==
    /\ now = 1 /\ conn = [c \in Conns |-> New] /\ cast = Quiet
    /\ member = [t \in Tenants |-> "editor"]
    /\ session \in [alive : {TRUE}, active : Tenants]
    /\ off = [c \in Conns |-> Unset] /\ late = {} /\ changes = 0 /\ faults = 0

(* resolve_access: the tenant asked for, else that of the session, else    *)
(* the only one; it must be one of the user's.                             *)
Wanted(asked, active, known) ==
    LET own == {t \in Tenants : known[t] # "none"} IN
    IF asked # Unset THEN asked ELSE IF active # Unset THEN active
    ELSE IF Cardinality(own) = 1 THEN CHOOSE t \in own : TRUE ELSE Unset
Resolved(asked, s, known) == LET t == Wanted(asked, s.active, known) IN
    IF s.alive /\ t # Unset /\ known[t] # "none" THEN [tenant |-> t, role |-> known[t]] ELSE NoAccess
(* revalidate_access: what _user_memberships kept is dropped first; what   *)
(* MultiTenancy._accesses kept is not.                                     *)
Known_Kept(c) == conn[c].cache
Known(c) == IF Multi THEN conn[c].cache ELSE member
Revalidated(c) == LET a == Resolved(conn[c].asked, session, Known(c)) IN
    IF a.tenant = conn[c].access.tenant THEN a ELSE NoAccess
Same(c) == Revalidated(c) = conn[c].access

(* A connection that is let in, and put on the list a moment later.        *)
Open(c, kind, asked) == LET a == Resolved(asked, session, member) IN
    /\ conn[c].at = "new" /\ a # NoAccess
    /\ conn' = [conn EXCEPT ![c] = [New EXCEPT !.at = "accept", !.kind = kind, !.asked = asked, !.access = a, !.cache = member]]
    /\ UNCHANGED <<now, member, session, cast, off, late, changes, faults>>
Register(c) ==
    /\ conn[c].at = "accept"
    /\ conn' = [conn EXCEPT ![c].at = "open", ![c].checked = now, ![c].woke = now]
    /\ UNCHANGED <<now, member, session, cast, off, late, changes, faults>>
Disconnect(c) ==
    /\ conn[c].at \notin {"new", "gone"}
    /\ conn' = [conn EXCEPT ![c] = Gone]
    /\ UNCHANGED <<now, member, session, cast, off, late, changes, faults>>
-----------------------------------------------------------------------------
(* broadcast: to a copy of the list, one client after the other.           *)
Listening == {c \in Conns : conn[c].at = "open" /\ conn[c].kind = "ws"}
CastBegin(t) ==
    /\ cast = Quiet
    /\ cast' = IF Listening = {} THEN Quiet ELSE [tenant |-> t, todo |-> Listening]
    /\ UNCHANGED <<now, member, session, conn, off, late, changes, faults>>
Overdue(c, t) == LET bound == IF conn[c].kind = "ws" THEN Period ELSE 2 * Period IN
    \/ t # conn[c].access.tenant
    \/ off[c] # Unset /\ now - off[c] > bound /\ ~conn[c].blind
Concerns_Everybody(c) == conn[c].at = "open"
Concerns(c) == conn[c].at = "open" /\ conn[c].access.tenant = cast.tenant
CastSend(c) ==
    /\ c \in cast.todo
    /\ late' = IF Concerns(c) /\ Overdue(c, cast.tenant) THEN late \cup {c} ELSE late
    /\ cast' = IF cast.todo = {c} THEN Quiet ELSE [cast EXCEPT !.todo = @ \ {c}]
    /\ UNCHANGED <<now, member, session, conn, off, changes, faults>>
(* _revalidate: the task beside a WebSocket.                               *)
WsCheck(c) ==
    /\ c \in Listening /\ ~conn[c].blind /\ now - conn[c].checked >= Period
    /\ conn' = [conn EXCEPT ![c] = IF Same(c) THEN [@ EXCEPT !.checked = now] ELSE Gone]
    /\ UNCHANGED <<now, member, session, cast, off, late, changes, faults>>
(* It fails with an error: nobody looks any more, and the stream goes on.  *)
WsCheckFails(c) ==
    /\ c \in Listening /\ ~conn[c].blind /\ now - conn[c].checked >= Period
    /\ faults < MaxFaults /\ faults' = faults + 1
    /\ conn' = [conn EXCEPT ![c].blind = TRUE]
    /\ UNCHANGED <<now, member, session, cast, off, late, changes>>
-----------------------------------------------------------------------------
(* A syslog line goes into the queues of its tenant's live tails.          *)
Tails(at) == {c \in Conns : conn[c].at \in at /\ conn[c].kind = "tail"}
Line(t) ==
    /\ conn' = [c \in Conns |-> IF c \in Tails({"open", "top"}) /\ conn[c].access.tenant = t /\ conn[c].queue < QueueMax
                                THEN [conn[c] EXCEPT !.queue = @ + 1] ELSE conn[c]]
    /\ UNCHANGED <<now, member, session, cast, off, late, changes, faults>>
(* event_generator: a line or the timeout ends the wait ...                *)
TailWakes(c) ==
    /\ c \in Tails({"open"})
    /\ \/ /\ conn[c].queue > 0
          /\ conn' = [conn EXCEPT ![c].queue = @ - 1, ![c].at = "top"]
          /\ late' = IF Overdue(c, conn[c].access.tenant) THEN late \cup {c} ELSE late
       \/ /\ conn[c].queue = 0 /\ now - conn[c].woke >= Period
          /\ conn' = [conn EXCEPT ![c].at = "top"] /\ UNCHANGED late
    /\ UNCHANGED <<now, member, session, cast, off, changes, faults>>
(* ... and before the next one the access is looked at again when it is    *)
(* time; an error ends the stream.                                         *)
TailDue_Waited(c) == now - conn[c].woke >= Period
TailDue(c) == now - conn[c].checked >= Period
TailTop(c) ==
    /\ c \in Tails({"top"})
    /\ conn' = [conn EXCEPT ![c] = IF ~TailDue(c) THEN [@ EXCEPT !.at = "open", !.woke = now]
                                   ELSE IF Same(c) THEN [@ EXCEPT !.at = "open", !.woke = now, !.checked = now] ELSE Gone]
    /\ UNCHANGED <<now, member, session, cast, off, late, changes, faults>>
TailTopFails(c) ==
    /\ c \in Tails({"top"}) /\ TailDue(c)
    /\ faults < MaxFaults /\ faults' = faults + 1
    /\ conn' = [conn EXCEPT ![c] = Gone]
    /\ UNCHANGED <<now, member, session, cast, off, late, changes>>
-----------------------------------------------------------------------------
(* The user's access changes: roles and suspensions, a switch to another   *)
(* tenant, the end of the session.                                         *)
OffNow(s, known) == [c \in Conns |->
    IF conn[c].at \in {"new", "gone"} \/ Resolved(conn[c].asked, s, known) = conn[c].access THEN Unset
    ELSE IF off[c] # Unset THEN off[c] ELSE now]
Counted == changes < MaxChanges /\ changes' = changes + 1
SetRole(t, r) ==
    /\ Counted /\ r # member[t] /\ member' = [member EXCEPT ![t] = r]
    /\ off' = OffNow(session, member')
    /\ UNCHANGED <<now, session, conn, cast, late, faults>>
Switch(t) ==
    /\ Counted /\ session.alive /\ session.active # t /\ member[t] # "none"
    /\ session' = [session EXCEPT !.active = t]
    /\ off' = OffNow(session', member)
    /\ UNCHANGED <<now, member, conn, cast, late, faults>>
Logout ==
    /\ Counted /\ session.alive /\ session' = [alive |-> FALSE, active |-> Unset]
    /\ off' = OffNow(session', member)
    /\ UNCHANGED <<now, member, conn, cast, late, faults>>
(* Time passes when the event loop has nothing left to do.                 *)
Urgent(c) ==
    \/ conn[c].at \in {"accept", "top"} \/ c \in cast.todo
    \/ c \in Listening /\ ~conn[c].blind /\ now - conn[c].checked >= Period
    \/ c \in Tails({"open"}) /\ (conn[c].queue > 0 \/ now - conn[c].woke >= Period)
Tick ==
    /\ now < MaxTime /\ now' = now + 1 /\ \A c \in Conns : ~Urgent(c)
    /\ UNCHANGED <<member, session, conn, cast, off, late, changes, faults>>

Next ==
    \/ \E c \in Conns :
         \/ \E kind \in {"ws", "tail"}, asked \in Tenants \cup {Unset} : Open(c, kind, asked)
         \/ Register(c) \/ Disconnect(c) \/ CastSend(c) \/ WsCheck(c) \/ WsCheckFails(c)
         \/ TailWakes(c) \/ TailTop(c) \/ TailTopFails(c)
    \/ \E t \in Tenants : CastBegin(t) \/ Line(t) \/ Switch(t) \/ \E r \in Roles \cup {"none"} : SetRole(t, r)
    \/ Logout \/ Tick
Spec == Init /\ [][Next]_vars
-----------------------------------------------------------------------------
(* inject_globals: what becomes of a request, in the order of its checks.  *)
Paths == {"skip", "setup", "login", "page", "password", "api", "users", "v1"}
Requests == [path : Paths, mutates : BOOLEAN, key : BOOLEAN, cookie : BOOLEAN, token : BOOLEAN]
NeedsToken_NotV1(q) == q.mutates /\ ~q.key /\ q.path # "v1"
NeedsToken(q) == q.mutates /\ ~q.key /\ (q.path # "v1" \/ q.cookie)
Stranger(q) == q.key \/ ~q.cookie \/ ~session.alive
Turned(q) == IF q.path = "v1" /\ q.key THEN "by key" ELSE IF q.path \in {"api", "users", "v1"} THEN "refused" ELSE "login page"
Forbidden(q, role) == q.mutates /\ ((q.path = "users" /\ role # "admin") \/ (q.path # "password" /\ role = "readonly"))
Answer(q) == LET a == Resolved(Unset, session, member) IN
    IF q.path = "skip" THEN "passed"
    ELSE IF NeedsToken(q) /\ ~q.token THEN "forged"
    ELSE IF q.path = "setup" THEN "passed"
    ELSE IF Stranger(q) THEN Turned(q)
    ELSE IF a = NoAccess THEN "not found"
    ELSE IF Forbidden(q, a.role) THEN "forbidden" ELSE "as user"
-----------------------------------------------------------------------------
TypeOK ==
    /\ now \in 1..MaxTime /\ member \in Members
    /\ session \in [alive : BOOLEAN, active : Tenants \cup {Unset}]
    /\ \A c \in Conns : /\ conn[c].at \in {"new", "accept", "open", "top", "gone"} /\ conn[c].kind \in {"ws", "tail"}
                        /\ conn[c].cache \in Members /\ conn[c].queue \in 0..QueueMax /\ conn[c].checked \in 0..MaxTime
    /\ cast.todo \subseteq Conns /\ off \in [Conns -> 0..MaxTime] /\ late \subseteq Conns
    /\ changes \in 0..MaxChanges /\ faults \in 0..MaxFaults

(* "A revoked membership, a changed role, a tenant switch or a logout ends *)
(* the stream": a connection is sent what is its tenant's only, and        *)
(* nothing once the access it was let in with has been another one for     *)
(* longer than the time between two looks (twice that for the live tail,   *)
(* whose wait for a line may begin just before one), unless the WebSocket  *)
(* task has died of an error.                                              *)
StreamsFollow == late = {}
(* A request with an API key is answered the same with and without the     *)
(* user's cookie, and what changes something in the user's name carried    *)
(* the token that another site cannot know.                                *)
RequestsOwned == \A q \in Requests :
    /\ q.key => Answer(q) = Answer([q EXCEPT !.cookie = ~@])
    /\ Answer(q) = "as user" /\ q.mutates => q.token /\ session.alive
=============================================================================
