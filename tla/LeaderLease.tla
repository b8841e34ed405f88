------------------------------ MODULE LeaderLease ------------------------------
(***************************************************************************)
(* Scheduler leader election between backend instances (enterprise), from  *)
(* ee/backend/nodeglow_ee/ha/coordinator.py and leader_lock.py.  Every     *)
(* instance runs one loop: ask Redis to acquire or renew the lease, resume *)
(* or pause the local scheduler by the answer, sleep, ask again.  An ask   *)
(* that raises leaves the scheduler as it is.  Redis drops the lease when  *)
(* its time to live has run out; nobody releases it.                       *)
(*                                                                         *)
(* Time is discrete: Tick is one unit for Redis and for every instance.    *)
(* The code's 30 s lease and 10 s sleep are TTL = 3 and Renew = 1.         *)
(***************************************************************************)
EXTENDS Integers

CONSTANTS
  Instances,   \* the backend processes, each with an instance_id of its own
  None,        \* no value stored under the lock's key
  TTL,         \* LEADER_TTL_SECONDS
  Renew,       \* LEADER_RENEW_SECONDS
  MaxLatency,  \* environment: an ask is over within this time
  MaxMisses,   \* environment: consecutive asks of one instance that may raise
  MaxStops     \* bound: stops and crashes in a behaviour

ASSUME LeaseAssumption ==
  /\ None \notin Instances
  /\ TTL \in Nat \ {0} /\ Renew \in Nat \ {0}
  /\ MaxLatency \in Nat /\ MaxMisses \in Nat /\ MaxStops \in Nat

VARIABLES
  holder,    \* the value under SCHEDULER_LEADER_LOCK, or None
  ttl,       \* the time to live Redis still gives the key
  phase,     \* where each instance is in _loop
  age,       \* how long it has been in the ask, or asleep
  answer,    \* what Redis answered to the ask under way
  isLeader,  \* self.is_leader; the scheduler runs jobs exactly when it is set
  misses,    \* consecutive asks that raised
  stops,     \* stops and crashes so far
  idle       \* history: time that nobody has led with an instance up

vars == <<holder, ttl, phase, age, answer, isLeader, misses, stops, idle>>

Up(i) == phase[i] # "down"

Leaders == {i \in Instances : isLeader[i]}

TypeOK ==
  /\ holder \in Instances \cup {None}
  /\ ttl \in 0..TTL /\ (holder = None <=> ttl = 0)
  /\ phase \in [Instances -> {"down", "asking", "answered", "sleeping"}]
  /\ age \in [Instances -> Nat]
  /\ \A i \in Instances : age[i] <= (IF phase[i] = "sleeping" THEN Renew ELSE MaxLatency)
  /\ answer \in [Instances -> BOOLEAN]
  /\ isLeader \in [Instances -> BOOLEAN]
  /\ misses \in [Instances -> 0..MaxMisses]
  /\ stops \in 0..MaxStops
  /\ idle \in Nat

--------------------------------------------------------------------------------

Init ==
  /\ holder = None /\ ttl = 0
  /\ phase = [i \in Instances |-> "down"]
  /\ age = [i \in Instances |-> 0]
  /\ answer = [i \in Instances |-> FALSE]
  /\ isLeader = [i \in Instances |-> FALSE]
  /\ misses = [i \in Instances |-> 0]
  /\ stops = 0 /\ idle = 0

(* start(): the scheduler starts paused and the loop asks at once. *)
Start(i) ==
  /\ phase[i] = "down"
  /\ phase' = [phase EXCEPT ![i] = "asking"]
  /\ age' = [age EXCEPT ![i] = 0]
  /\ misses' = [misses EXCEPT ![i] = 0]
  /\ isLeader' = [isLeader EXCEPT ![i] = FALSE]
  /\ UNCHANGED <<holder, ttl, answer, stops, idle>>

(* Mutant: a renewal does not set the time to live anew. *)
Acquire_KeepsExpiry(i) ==
  IF holder \in {None, i}
  THEN holder' = i /\ ttl' = (IF holder = i THEN ttl ELSE TTL) /\ answer' = [answer EXCEPT ![i] = TRUE]
  ELSE answer' = [answer EXCEPT ![i] = FALSE] /\ UNCHANGED <<holder, ttl>>

(* Mutant: the key is stored without PX. *)
Acquire_NoExpiry(i) ==
  IF holder \in {None, i}
  THEN holder' = i /\ answer' = [answer EXCEPT ![i] = TRUE] /\ UNCHANGED ttl
  ELSE answer' = [answer EXCEPT ![i] = FALSE] /\ UNCHANGED <<holder, ttl>>

(* _ACQUIRE_LUA: acquire if free or expired, renew if mine. *)
Acquire(i) ==
  IF holder \in {None, i}
  THEN holder' = i /\ ttl' = TTL /\ answer' = [answer EXCEPT ![i] = TRUE]
  ELSE answer' = [answer EXCEPT ![i] = FALSE] /\ UNCHANGED <<holder, ttl>>

(* Redis executes the script of i's ask; the answer is on its way. *)
Eval(i) ==
  /\ phase[i] = "asking"
  /\ Acquire(i)
  /\ phase' = [phase EXCEPT ![i] = "answered"]
  /\ UNCHANGED <<age, isLeader, misses, stops, idle>>

Sleep(i) ==
  /\ phase' = [phase EXCEPT ![i] = "sleeping"]
  /\ age' = [age EXCEPT ![i] = 0]

(* apply_leadership(leader): resume or pause on a transition. *)
ApplyLeadership(i) == isLeader' = [isLeader EXCEPT ![i] = answer[i]]

(* The answer arrives. *)
Answer(i) ==
  /\ phase[i] = "answered"
  /\ ApplyLeadership(i)
  /\ misses' = [misses EXCEPT ![i] = 0]
  /\ Sleep(i)
  /\ UNCHANGED <<holder, ttl, answer, stops, idle>>

(* The ask raises, before Redis executed the script or after: the state of   *)
(* leadership is kept, whatever it is.                                       *)
Miss(i) ==
  /\ phase[i] \in {"asking", "answered"}
  /\ misses[i] < MaxMisses
  /\ misses' = [misses EXCEPT ![i] = @ + 1]
  /\ Sleep(i)
  /\ UNCHANGED <<holder, ttl, answer, isLeader, stops, idle>>

(* The sleep is over: the loop asks again. *)
Wake(i) ==
  /\ phase[i] = "sleeping" /\ age[i] = Renew
  /\ phase' = [phase EXCEPT ![i] = "asking"]
  /\ age' = [age EXCEPT ![i] = 0]
  /\ UNCHANGED <<holder, ttl, answer, isLeader, misses, stops, idle>>

(* stop(), or a crash: the jobs end, the lease is left to expire. *)
Stop(i) ==
  /\ Up(i) /\ stops < MaxStops
  /\ stops' = stops + 1
  /\ phase' = [phase EXCEPT ![i] = "down"]
  /\ age' = [age EXCEPT ![i] = 0]
  /\ isLeader' = [isLeader EXCEPT ![i] = FALSE]
  /\ idle' = 0
  /\ UNCHANGED <<holder, ttl, answer, misses>>

(* Mutant: a lease is only ever overwritten by its holder. *)
Expire_Never == UNCHANGED <<holder, ttl>>

(* PX: Redis drops a key whose time to live has run out. *)
Expire ==
  /\ ttl' = IF ttl = 0 THEN 0 ELSE ttl - 1
  /\ holder' = IF ttl <= 1 THEN None ELSE holder

(* A unit of time passes: no loop oversleeps, no ask outlasts MaxLatency. *)
Tick ==
  /\ \A i \in Instances :
       Up(i) => age[i] < (IF phase[i] = "sleeping" THEN Renew ELSE MaxLatency)
  /\ \E i \in Instances : Up(i)
  /\ age' = [i \in Instances |-> IF Up(i) THEN age[i] + 1 ELSE 0]
  /\ Expire
  /\ idle' = IF Leaders = {} THEN idle + 1 ELSE 0
  /\ UNCHANGED <<phase, answer, isLeader, misses, stops>>

Next ==
  \/ \E i \in Instances :
       Start(i) \/ Eval(i) \/ Answer(i) \/ Miss(i) \/ Wake(i) \/ Stop(i)
  \/ Tick

Spec == Init /\ [][Next]_vars

--------------------------------------------------------------------------------

(* The longest time between two scripts Redis executes for one instance: it  *)
(* is answered, sleeps, and MaxMisses asks raise before the next one lands.  *)
Period == (MaxMisses + 1) * (Renew + MaxLatency) + MaxLatency

(* The configuration in which the lease outlives every such gap. *)
InTime == Period < TTL

(* "Only the holder runs jobs" (coordinator.py): a scheduler that is resumed *)
(* belongs to the instance whose id is under the key in Redis.               *)
OnlyHolderRuns == \A i \in Leaders : holder = i

(* No split brain: never two resumed schedulers, whatever raises. *)
OneLeader == \A i, j \in Leaders : i = j

(* A leader that is gone is replaced ("hands leadership to a standby",        *)
(* coordinator.py): with an instance up, nobody leads for less than the       *)
(* lease the last holder left, the gap until a standby's ask must land, and,  *)
(* when another standby's ask lands just before that, the time its answers    *)
(* may take and get lost.                                                     *)
HandOver == idle < TTL + Period + MaxLatency + MaxMisses * (Renew + MaxLatency)

================================================================================
