--------------------------- MODULE SupportAccess ---------------------------
(***************************************************************************)
(* Support access of an operator to a tenant (ee tenancy/support.py, the   *)
(* routes in api.py, MultiTenancy): a grant that is given, revoked or runs *)
(* out, worker processes that reuse the list of active grants for          *)
(* GRANT_CACHE_SECONDS, and requests that are decided by it.  Loading the  *)
(* list awaits the database: its reading and its storing are two steps.    *)
(*                                                                         *)
(* One tenant, one operator without a membership, and one grant at a time, *)
(* numbered; roles, reasons and the audit of requests are left out.        *)
(***************************************************************************)
EXTENDS Naturals, FiniteSets

CONSTANTS
    Procs,          \* worker processes
    MaxGrants,      \* bound: grants given
    MaxFlips        \* bound: status changes of the tenant

VARIABLES
    grants,         \* status of each grant: none, active, revoked, expired
    audited,        \* grants whose end is in the audit log, and how often
    open,           \* the tenant is active
    cache,          \* per process: _active_cache
    loading,        \* per process: a load under way
    told,           \* per process: grants it answered to be over while it was loading no list
    late,           \* ... and while it was
    used,           \* grant the last request was let in with, and by which process; 0 is none
    flips

vars == <<grants, audited, open, cache, loading, told, late, used, flips>>

SupportAssumption == MaxGrants \in Nat
Grants == 1..MaxGrants
NoList == [here |-> FALSE, list |-> {}]
NoUse == [proc |-> CHOOSE p \in Procs : TRUE, grant |-> 0]
Active == {g \in Grants : grants[g] = "active"}
Listed == IF open THEN Active ELSE {}

(* Process p has answered that the grants G are over.                      *)
Over(p, G) ==
    IF loading[p].here
      THEN late' = [late EXCEPT ![p] = @ \cup G] /\ told' = told
      ELSE told' = [told EXCEPT ![p] = @ \cup G] /\ late' = late
(* The tenant is back: its grants count again, whoever suspended it.       *)
Back ==
    /\ told' = [p \in Procs |-> told[p] \ Active]
    /\ late' = [p \in Procs |-> late[p] \ Active]

(* invalidate_grants, in the process that made the change.                 *)
(* Mutant: nothing is invalidated.                                         *)
Invalidated_Never(p) == cache
Invalidated(p) == [cache EXCEPT ![p] = NoList]

(* The tenant's admin gives support access.                                *)
Grant(p, g) ==
    /\ open /\ grants[g] = "none" /\ \A h \in Grants : h < g => grants[h] # "none"
    /\ grants' = [grants EXCEPT ![g] = "active"]
    /\ cache' = Invalidated(p)
    /\ UNCHANGED <<audited, open, loading, told, late, used, flips>>
(* ... and ends it; the end is audited there and then.                     *)
Revoke(p, g) ==
    /\ open /\ grants[g] = "active"
    /\ grants' = [grants EXCEPT ![g] = "revoked"]
    /\ audited' = [audited EXCEPT ![g] = @ + 1]
    /\ cache' = Invalidated(p)
    /\ Over(p, {g})
    /\ UNCHANGED <<open, loading, used, flips>>
(* expires_at passes: checked on every use, cached or not.                 *)
Expire(g) ==
    /\ grants[g] = "active"
    /\ grants' = [grants EXCEPT ![g] = "expired"]
    /\ UNCHANGED <<audited, open, cache, loading, told, late, used, flips>>
(* expire_grants, by the job: those not audited yet.                       *)
(* Mutant: again and again.                                                *)
ExpireGrants_Again(g) ==
    /\ grants[g] = "expired" /\ audited[g] < 2
    /\ audited' = [audited EXCEPT ![g] = @ + 1]
    /\ UNCHANGED <<grants, open, cache, loading, told, late, used, flips>>
(* Mutant: not while the tenant is suspended.                              *)
ExpireGrants_OpenOnly(g) ==
    /\ grants[g] = "expired" /\ audited[g] = 0 /\ open
    /\ audited' = [audited EXCEPT ![g] = 1]
    /\ UNCHANGED <<grants, open, cache, loading, told, late, used, flips>>
ExpireGrants(g) ==
    /\ grants[g] = "expired" /\ audited[g] = 0
    /\ audited' = [audited EXCEPT ![g] = 1]
    /\ UNCHANGED <<grants, open, cache, loading, told, late, used, flips>>

(* The tenant is suspended or resumed.                                     *)
Flip(p) ==
    /\ flips < MaxFlips /\ flips' = flips + 1
    /\ open' = ~open
    /\ cache' = Invalidated(p)
    /\ IF open THEN Over(p, Active) ELSE Back
    /\ UNCHANGED <<grants, audited, loading, used>>

(* _active_grants: the list is read ...                                    *)
Load(p) ==
    /\ ~cache[p].here /\ ~loading[p].here
    /\ loading' = [loading EXCEPT ![p] = [here |-> TRUE, list |-> Listed]]
    /\ UNCHANGED <<grants, audited, open, cache, told, late, used, flips>>
(* ... and kept.                                                           *)
Store(p) ==
    /\ loading[p].here
    /\ cache' = [cache EXCEPT ![p] = loading[p]]
    /\ loading' = [loading EXCEPT ![p] = NoList]
    /\ UNCHANGED <<grants, audited, open, told, late, used, flips>>
(* GRANT_CACHE_SECONDS later it is not used any more.                      *)
CacheEnds(p) ==
    /\ cache[p].here
    /\ cache' = [cache EXCEPT ![p] = NoList]
    /\ UNCHANGED <<grants, audited, open, loading, told, late, used, flips>>

(* resolve_access: the newest listed grant that has not run out.           *)
(* Mutant: expires_at is not looked at.                                    *)
Usable_Listed(p) == cache[p].list
Usable(p) == {g \in cache[p].list : grants[g] # "expired"}
Access(p) ==
    /\ cache[p].here
    /\ used' = [proc |-> p,
                grant |-> IF Usable(p) = {} THEN 0 ELSE CHOOSE g \in Usable(p) : \A h \in Usable(p) : h <= g]
    /\ UNCHANGED <<grants, audited, open, cache, loading, told, late, flips>>

Init ==
    /\ grants = [g \in Grants |-> "none"] /\ audited = [g \in Grants |-> 0] /\ open = TRUE
    /\ cache = [p \in Procs |-> NoList] /\ loading = cache /\ told = [p \in Procs |-> {}] /\ late = told
    /\ used = NoUse /\ flips = 0
Next ==
    \/ \E p \in Procs :
         \/ Flip(p) \/ Load(p) \/ Store(p) \/ CacheEnds(p) \/ Access(p)
         \/ \E g \in Grants : Grant(p, g) \/ Revoke(p, g)
    \/ \E g \in Grants : Expire(g) \/ ExpireGrants(g)
Spec == Init /\ [][Next]_vars
Fairness == \A g \in Grants : WF_vars(ExpireGrants(g))
FairSpec == Spec /\ Fairness

-----------------------------------------------------------------------------
(* Properties.                                                             *)

TypeOK ==
    /\ grants \in [Grants -> {"none", "active", "revoked", "expired"}]
    /\ audited \in [Grants -> 0..1] /\ open \in BOOLEAN
    /\ \A p \in Procs : cache[p].list \subseteq Grants /\ loading[p].list \subseteq Grants

(* A process that has answered that a grant is over, or the tenant         *)
(* suspended, lets nobody in with it any more, unless it was just loading  *)
(* the list when it answered.                                              *)
OverAtOnce == [][used' # used => used'.grant \notin told[used'.proc]]_vars

(* What the comment on GRANT_CACHE_SECONDS says: "Grants, revocations and  *)
(* tenant status changes made in this process invalidate it at once".      *)
AtOnceWhileLoading == [][used' # used => used'.grant \notin late[used'.proc]]_vars

(* An expired grant never lets anybody in, whatever is cached.             *)
ExpiryIsExact == [][used' # used /\ used'.grant # 0 => grants[used'.grant] # "expired"]_vars

(* Every grant that runs out is audited, although access had ended before. *)
EndAudited == \A g \in Grants : grants[g] = "expired" ~> audited[g] = 1
=============================================================================
