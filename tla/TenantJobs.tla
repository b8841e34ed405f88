---------------------------- MODULE TenantJobs -----------------------------
(***************************************************************************)
(* One scheduled job that works for every tenant (services/tenant_jobs.py):*)
(* per_tenant_job runs the tenants one after another, fleet_job runs the   *)
(* due ones side by side behind a gate.  A tenant's iteration that outlives*)
(* its budget goes on in the background, and the tenant is skipped until   *)
(* it is done.                                                             *)
(*                                                                         *)
(* The job itself never overlaps itself (max_instances=1).  Time is        *)
(* abstract: a budget may run out at any time, a tenant's interval elapses *)
(* by an action of its own.  Statistics, errors of an iteration (logged,   *)
(* the first one raised at the end) and cancellation at shutdown are left  *)
(* out.                                                                    *)
(***************************************************************************)
EXTENDS Naturals, Sequences, FiniteSets

CONSTANTS
    Tenants,        \* tenant ids: 1..n
    Kinds,          \* kinds of job: "per_tenant", "fleet"
    Parallel,       \* tenants a fleet job runs at a time
    First,          \* the tenants that are active at the start
    MinActive,      \* tenants that stay active once there are as many
    Stuck,          \* tenants whose iterations may never end
    MaxChanges      \* bound: tenants suspended, created or resumed

\* What the constants are assumed to be
JobsAssumption ==
    /\ Tenants \subseteq Nat /\ IsFiniteSet(Tenants) /\ First \subseteq Tenants
    /\ Kinds \subseteq {"per_tenant", "fleet"}
    /\ MinActive \in Nat /\ MinActive >= 2

VARIABLES
    kind,           \* the kind of this job
    active,         \* tenants of status active
    elapsed,        \* tenants whose interval has elapsed since they were marked
    offset,         \* _rotation
    pc,             \* of the job: idle, loop, wait
    todo,           \* tenants of this run still to be started
    started,        \* tenants this run waits for
    gate,           \* the gate of this run; 0 is none
    tasks,          \* iterations: tenant, gate, and whether it runs or queues
    inflight,       \* _inflight
    changes

jobsVars == <<kind, active, elapsed, offset, pc, todo, started, gate, tasks, inflight, changes>>

Gates == 1..(Cardinality(Tenants) + 1)
Running(t) == {k \in tasks : k.tenant = t /\ k.runs}
(* No iteration of a run is in gate g any more.                            *)
Fresh(g) == \A k \in tasks : k.gate # g

-----------------------------------------------------------------------------
(* A run of the job.                                                       *)

InOrder(s) == \A i, j \in DOMAIN s : i < j => s[i] < s[j]
Sorted(S) == CHOOSE s \in [1..Cardinality(S) -> S] : InOrder(s)
(* rotated: each run starts one tenant later.                              *)
Rotated(S) ==
    LET s == Sorted(S)
        k == offset % Len(s)
    IN SubSeq(s, k + 1, Len(s)) \o SubSeq(s, 1, k)
(* Mutant: the offset is not reduced.                                      *)
NextOffset_Unreduced(S) == offset + 1
NextOffset(S) == IF Cardinality(S) < 2 THEN offset ELSE (offset % Cardinality(S)) + 1

(* One active tenant: the plain call, without task, budget or the check    *)
(* for an iteration left in the background.                                *)
RunSingle(t) ==
    /\ pc = "idle" /\ active = {t}
    /\ pc' = "wait" /\ started' = {t} /\ gate' = 0
    /\ tasks' = tasks \cup {[tenant |-> t, gate |-> 0, runs |-> TRUE]}
    /\ elapsed' = elapsed \ {t}
    /\ UNCHANGED <<kind, active, offset, todo, inflight, changes>>

(* fleet_job with several tenants: the due ones are marked, and those that *)
(* are not in the background get a task each, in one go.                   *)
(* Mutant: a tenant in the background is not skipped.                      *)
NewTasks(S) == {[tenant |-> t, gate |-> gate', runs |-> FALSE] : t \in S}
RunFleet_All ==
    LET due == active \cap elapsed IN
    /\ pc = "idle" /\ kind = "fleet" /\ Cardinality(active) > 1 /\ due # {}
    /\ elapsed' = elapsed \ due /\ offset' = NextOffset(due)
    /\ started' = due
    /\ gate' = (CHOOSE g \in Gates : Fresh(g)) /\ pc' = "wait"
    /\ tasks' = tasks \cup NewTasks(started')
    /\ UNCHANGED <<kind, active, todo, inflight, changes>>
RunFleet ==
    LET due == active \cap elapsed IN
    /\ pc = "idle" /\ kind = "fleet" /\ Cardinality(active) > 1 /\ due # {}
    /\ elapsed' = elapsed \ due /\ offset' = NextOffset(due)
    /\ started' = due \ inflight
    /\ IF started' = {} THEN UNCHANGED <<gate, pc>>
       ELSE gate' = (CHOOSE g \in Gates : Fresh(g)) /\ pc' = "wait"
    /\ tasks' = tasks \cup NewTasks(started')
    /\ UNCHANGED <<kind, active, todo, inflight, changes>>

(* per_tenant_job with several tenants: one after another.                 *)
RunForTenants ==
    /\ pc = "idle" /\ kind = "per_tenant" /\ Cardinality(active) > 1
    /\ todo' = Rotated(active) /\ offset' = NextOffset(active)
    /\ gate' = 1 /\ pc' = "loop"
    /\ UNCHANGED <<kind, active, elapsed, started, tasks, inflight, changes>>
Finish ==
    IF todo' = <<>> THEN pc' = "idle" /\ gate' = 0 ELSE pc' = "loop" /\ UNCHANGED gate
Skip ==
    /\ pc = "loop" /\ Head(todo) \in inflight
    /\ todo' = Tail(todo) /\ Finish
    /\ UNCHANGED <<kind, active, elapsed, offset, started, tasks, inflight, changes>>
StartTask ==
    /\ pc = "loop" /\ Head(todo) \notin inflight
    /\ todo' = Tail(todo)
    /\ tasks' = tasks \cup {[tenant |-> Head(todo), gate |-> gate, runs |-> TRUE]}
    /\ started' = {Head(todo)}
    /\ pc' = "wait"
    /\ UNCHANGED <<kind, active, elapsed, offset, gate, inflight, changes>>

(* What the run waits for is done, or its budget is used and what is       *)
(* pending is left in the background.                                      *)
Pending == {t \in started : \E k \in tasks : k.tenant = t /\ k.gate = gate}
(* Mutant: there is no budget.                                             *)
WaitEnds_NoBudget ==
    /\ pc = "wait" /\ Pending = {}
    /\ started' = {}
    /\ UNCHANGED todo /\ Finish
    /\ UNCHANGED <<kind, active, elapsed, offset, tasks, inflight, changes>>
WaitEnds ==
    /\ pc = "wait" /\ (gate = 0 => Pending = {})
    /\ inflight' = inflight \cup Pending
    /\ started' = {}
    /\ UNCHANGED todo /\ Finish
    /\ UNCHANGED <<kind, active, elapsed, offset, tasks, changes>>

-----------------------------------------------------------------------------
(* The iterations and the world.                                           *)

(* A queued iteration passes its run's gate.                               *)
Enter(t) ==
    /\ \E k \in tasks :
        /\ k.tenant = t /\ ~k.runs
        /\ Cardinality({x \in tasks : x.gate = k.gate /\ x.runs}) < Parallel
        /\ tasks' = (tasks \ {k}) \cup {[k EXCEPT !.runs = TRUE]}
    /\ UNCHANGED <<kind, active, elapsed, offset, pc, todo, started, gate, inflight, changes>>

(* It ends; the callback of one in the background forgets it.              *)
(* Mutant: there is no callback.                                           *)
End_Remembered(t) ==
    /\ \E k \in Running(t) : tasks' = tasks \ {k}
    /\ UNCHANGED <<kind, active, elapsed, offset, pc, todo, started, gate, inflight, changes>>
End(t) ==
    /\ \E k \in Running(t) :
        /\ tasks' = tasks \ {k}
        /\ inflight' = IF k.gate = 0 THEN inflight ELSE inflight \ {t}
    /\ UNCHANGED <<kind, active, elapsed, offset, pc, todo, started, gate, changes>>

Elapse(t) ==
    /\ kind = "fleet" /\ elapsed' = elapsed \cup {t}
    /\ UNCHANGED <<kind, active, offset, pc, todo, started, gate, tasks, inflight, changes>>

(* A tenant is suspended, or created or resumed.                           *)
Suspended(t) ==
    /\ t \in active /\ Cardinality(active) > MinActive
    /\ changes < MaxChanges /\ changes' = changes + 1
    /\ active' = active \ {t}
    /\ UNCHANGED <<kind, elapsed, offset, pc, todo, started, gate, tasks, inflight>>
Activated(t) ==
    /\ t \notin active
    /\ changes < MaxChanges /\ changes' = changes + 1
    /\ active' = active \cup {t}
    /\ UNCHANGED <<kind, elapsed, offset, pc, todo, started, gate, tasks, inflight>>

JobsInit ==
    /\ kind \in Kinds /\ active = First /\ elapsed = Tenants /\ offset = 0
    /\ pc = "idle" /\ todo = <<>> /\ started = {} /\ gate = 0
    /\ tasks = {} /\ inflight = {} /\ changes = 0

Job ==
    \/ \E t \in Tenants : RunSingle(t)
    \/ RunFleet \/ RunForTenants \/ Skip \/ StartTask \/ WaitEnds
JobsNext ==
    \/ Job
    \/ \E t \in Tenants : Enter(t) \/ End(t) \/ Elapse(t) \/ Suspended(t) \/ Activated(t)

JobsSpec == JobsInit /\ [][JobsNext]_jobsVars
(* The job is triggered again and again and budgets run out; intervals     *)
(* elapse; iterations end, but for those of Stuck.                         *)
JobsFairness ==
    /\ WF_jobsVars(Job)
    /\ \A t \in Tenants : WF_jobsVars(Enter(t)) /\ WF_jobsVars(Elapse(t) /\ t \notin elapsed)
    /\ \A t \in Tenants \ Stuck : WF_jobsVars(End(t))
JobsFairSpec == JobsSpec /\ JobsFairness

-----------------------------------------------------------------------------
(* Properties.                                                             *)

Task == [tenant : Tenants, gate : Gates \cup {0}, runs : BOOLEAN]
JobsTypeOK ==
    /\ kind \in Kinds /\ active \subseteq Tenants /\ elapsed \subseteq Tenants
    /\ offset \in 0..Cardinality(Tenants)
    /\ pc \in {"idle", "loop", "wait"} /\ started \subseteq Tenants
    /\ todo \in Seq(Tenants)
    /\ gate \in Gates \cup {0} /\ tasks \subseteq Task /\ inflight \subseteq Tenants

(* Two iterations of the job never work for the same tenant at once,       *)
(* however budgets run out ("that tenant is skipped until it has").        *)
NoOverlap == \A t \in Tenants : Cardinality({k \in tasks : k.tenant = t}) <= 1

(* The tenants left in the background are those whose iteration is not     *)
(* done: a tenant is never skipped for one that has ended.                 *)
InflightIsPending == \A t \in inflight : \E k \in tasks : k.tenant = t

(* Both: iterations of a job stay apart, and a tenant is skipped for as    *)
(* long as one of it is under way, no longer.                              *)
JobsApart == NoOverlap /\ InflightIsPending

(* A tenant that stays active is served again and again, though others are *)
(* stuck for ever ("a stuck tenant no longer holds the job ... for         *)
(* everybody else").                                                       *)
JobsServed == \A t \in Tenants \ Stuck : []<>(t \notin active \/ Running(t) # {})

-----------------------------------------------------------------------------
(***************************************************************************)
(* FairShareLimiter (services/tenant_jobs.py): a semaphore whose free      *)
(* slots go round-robin to the tenants that wait.  Every call runs on one  *)
(* event loop without awaiting inside; acquire and release end in          *)
(* _dispatch, whose inner for loop is the step Dispatch.  A task may be    *)
(* cancelled while it waits and after its future was granted.              *)
(***************************************************************************)
CONSTANTS
    Total,          \* slots
    TenantCap,      \* NODEGLOW_TENANT_CONCURRENCY_CAP; 0 is none
    MaxQueue        \* bound: futures in a tenant's queue

\* What the constants are assumed to be
LimiterAssumption ==
    /\ IsFiniteSet(Tenants)
    /\ Total \in Nat \ {0} /\ TenantCap \in Nat /\ MaxQueue \in Nat

VARIABLES
    inUse, held,    \* _in_use, _held
    waiters,        \* _waiters: per tenant, its futures; TRUE when cancelled
    order,          \* _order
    tries,          \* turns left of _dispatch's for loop, 0 outside of it
    holders,          \* per tenant, tasks that own a slot or whose future is granted
    passed          \* per tenant, the tenants served since it began to wait in reach of a slot

slotsVars == <<inUse, held, waiters, order, tries, holders, passed>>

Cap == IF TenantCap \in 1..Total THEN TenantCap ELSE Total
Live(t) == \E i \in DOMAIN waiters[t] : ~waiters[t][i]
Waits(t) == Live(t) /\ held[t] < Cap

(* The while loop of _dispatch begins a turn over _order.                  *)
Dispatch0(use, ord) == tries' = IF use < Total THEN Len(ord) ELSE 0

Acquire(t) ==
    /\ tries = 0 /\ Len(waiters[t]) < MaxQueue
    /\ waiters' = [waiters EXCEPT ![t] = Append(@, FALSE)]
    /\ order' = IF waiters[t] = <<>> THEN Append(order, t) ELSE order
    /\ Dispatch0(inUse, order')
    /\ UNCHANGED <<inUse, held, holders, passed>>

(* Mutant: the slot is given back, the tenant's count is not.              *)
Release_KeepsHeld(t) ==
    /\ tries = 0 /\ holders[t] > 0
    /\ holders' = [holders EXCEPT ![t] = @ - 1]
    /\ inUse' = inUse - 1
    /\ Dispatch0(inUse', order)
    /\ UNCHANGED <<held, waiters, order, passed>>
(* Mutant: nobody is served.                                               *)
Release_NoDispatch(t) ==
    /\ tries = 0 /\ holders[t] > 0
    /\ holders' = [holders EXCEPT ![t] = @ - 1]
    /\ inUse' = inUse - 1 /\ held' = [held EXCEPT ![t] = @ - 1]
    /\ UNCHANGED <<tries, waiters, order, passed>>
(* A task is done with its slot, or cancelled before it knew it had one.   *)
Release(t) ==
    /\ tries = 0 /\ holders[t] > 0
    /\ holders' = [holders EXCEPT ![t] = @ - 1]
    /\ inUse' = inUse - 1 /\ held' = [held EXCEPT ![t] = @ - 1]
    /\ Dispatch0(inUse', order)
    /\ UNCHANGED <<waiters, order, passed>>

(* A waiting task is cancelled: its future stays in the queue.             *)
CancelWaiter(t, i) ==
    /\ tries = 0 /\ i \in DOMAIN waiters[t] /\ ~waiters[t][i]
    /\ waiters' = [waiters EXCEPT ![t][i] = TRUE]
    /\ passed' = [u \in Tenants |-> IF u = t /\ ~Live(t)' THEN {} ELSE passed[u]]
    /\ UNCHANGED <<inUse, held, order, tries, holders>>

(* The queue without the cancelled futures at its head.                    *)
Pruned(q) ==
    LET first == CHOOSE i \in 1..(Len(q) + 1) :
                    /\ \A j \in 1..(i - 1) : q[j]
                    /\ i <= Len(q) => ~q[i]
    IN SubSeq(q, first, Len(q))

(* Where the served tenant goes.  Mutant: it stays in front.               *)
Requeued_InFront(t, rest) == IF rest = <<>> THEN Tail(order) ELSE order
Requeued(t, rest) == IF rest = <<>> THEN Tail(order) ELSE Append(Tail(order), t)
(* Mutant: one slot more than its cap.                                     *)
AtCap_OneMore(t) == held[t] > Cap
AtCap(t) == held[t] >= Cap

(* One turn of the for loop: the tenant in front has nobody, is at its     *)
(* cap, or gets the slot and goes to the back.                             *)
Dispatch ==
    LET t == Head(order)
        q == Pruned(waiters[t]) IN
    /\ tries > 0
    /\ \/ /\ q = <<>>
          /\ order' = Tail(order) /\ waiters' = [waiters EXCEPT ![t] = <<>>]
          /\ tries' = tries - 1
          /\ UNCHANGED <<inUse, held, holders, passed>>
       \/ /\ q # <<>> /\ AtCap(t)
          /\ order' = Append(Tail(order), t) /\ waiters' = [waiters EXCEPT ![t] = q]
          /\ tries' = tries - 1
          /\ UNCHANGED <<inUse, held, holders, passed>>
       \/ /\ q # <<>> /\ ~AtCap(t)
          /\ inUse' = inUse + 1 /\ held' = [held EXCEPT ![t] = @ + 1]
          /\ holders' = [holders EXCEPT ![t] = @ + 1]
          /\ waiters' = [waiters EXCEPT ![t] = Tail(q)]
          /\ order' = Requeued(t, Tail(q))
          /\ passed' = [u \in Tenants |-> IF u = t \/ ~Waits(u) THEN {} ELSE passed[u] \cup {t}]
          /\ Dispatch0(inUse', order')

SlotsInit ==
    /\ inUse = 0 /\ tries = 0 /\ order = <<>>
    /\ held = [t \in Tenants |-> 0] /\ holders = held
    /\ waiters = [t \in Tenants |-> <<>>] /\ passed = [t \in Tenants |-> {}]
SlotsNext ==
    \/ Dispatch
    \/ \E t \in Tenants : Acquire(t) \/ Release(t) \/ \E i \in 1..MaxQueue : CancelWaiter(t, i)
SlotsSpec == SlotsInit /\ [][SlotsNext]_slotsVars

-----------------------------------------------------------------------------
(* Properties.                                                             *)

SlotsTypeOK ==
    /\ inUse \in 0..Total /\ tries \in 0..Len(order)
    /\ held \in [Tenants -> 0..Cap] /\ holders \in [Tenants -> Nat]
    /\ waiters \in [Tenants -> Seq(BOOLEAN)] /\ order \in Seq(Tenants)
    /\ passed \in [Tenants -> SUBSET Tenants]

(* Slots are never lost or handed out twice: what is booked, per tenant    *)
(* and in all, is what the tasks hold, cancelled ones included.            *)
Slots == {s \in Tenants \X (1..Total) : s[2] <= holders[s[1]]}
SlotsExact == held = holders /\ inUse = Cardinality(Slots)

(* A slot is free only while every waiting tenant is at its cap, and the   *)
(* tenants that wait are in line, once each.                               *)
WorkConserving ==
    /\ tries = 0 /\ inUse < Total => \A t \in Tenants : ~Waits(t)
    /\ \A t \in Tenants : Live(t) => \E i \in DOMAIN order : order[i] = t
    /\ \A i, j \in DOMAIN order : order[i] = order[j] => i = j

(* Round-robin: while a tenant below its cap waits, no other tenant is     *)
(* served twice ("free slots go round-robin to the tenants that are        *)
(* waiting").                                                              *)
RoundRobin ==
    [][\A t, u \in Tenants : held'[t] > held[t] /\ t # u /\ Waits(u) => t \notin passed[u]]_slotsVars
=============================================================================
