--------------------------- MODULE Tenants_proofs ---------------------------
(***************************************************************************)
(* What holds of the tenancy components for every number of tenants,       *)
(* slots, workers, requests, transactions, keys, processes, tasks,         *)
(* connections and tables: the fair-share limiter and the job wrappers     *)
(* (SlotsExact, WorkConserving, RoundRobin, JobsApart), the purge of a     *)
(* tenant and its data keys (TenantDataSafe), support access (the safety  *)
(* part of SupportEnds), statements, reads and streams (Isolated), and the *)
(* types of all of them (TypesOK).  Each component has its inductive       *)
(* invariant; the specification of MCTenants moves one of them at a time,  *)
(* so the invariants hold together.                                        *)
(***************************************************************************)
EXTENDS MCTenants, Integers, FiniteSetTheorems, WellFoundedInduction, TLAPS

-----------------------------------------------------------------------------
(***************************************************************************)
(* The limiter and the job wrappers.  The limiter's counters are exact, no *)
(* slot stays free while a tenant in reach of one waits, and nobody is     *)
(* passed twice by the same tenant.  Where the gate admits at least two    *)
(* workers, no two iterations of one job for one tenant overlap, and the   *)
(* runs in flight are the ones the wrapper knows.                          *)
(***************************************************************************)

(* The tenants with futures are the ones in line, once each.               *)
InLine ==
    \A t \in Tenants : waiters[t] # <<>> <=> \E i \in DOMAIN order : order[i] = t
OnceInLine == \A i, j \in DOMAIN order : order[i] = order[j] => i = j

(* The for loop turns only while a slot is free, and a tenant that waits   *)
(* in reach of one has its turn among those that are left.                 *)
Looping == tries > 0 => inUse < Total
InReach ==
    inUse < Total => \A t \in Tenants : Waits(t) => \E i \in 1..tries : order[i] = t

(* Whoever was served before a waiting tenant is behind it in line.        *)
Behind ==
    \A u \in Tenants :
        /\ passed[u] # {} => Waits(u)
        /\ \A t \in passed[u] :
              t # u /\ \A i, j \in DOMAIN order : order[i] = u /\ order[j] = t => i < j

LineInv == InLine /\ OnceInLine /\ InReach

-----------------------------------------------------------------------------
(* Sequences.                                                              *)

(* A set of numbers has a least.                                           *)
LEMMA LeastNat ==
    ASSUME NEW T \in SUBSET Nat, T # {}
    PROVE  \E m \in T : \A k \in T : m <= k
<1>1. PICK x \in T : \A y \in T : ~(<<y, x>> \in OpToRel(<, Nat))
  BY NatLessThanWellFounded, WFMin, Zenon
<1>2. \A y \in T : ~(y < x)
  BY <1>1 DEF OpToRel
<1> QED
  BY <1>2

(* The tenant in front leaves the line.                                    *)
LEMMA TailFacts ==
    ASSUME NEW V, NEW s \in Seq(V), s # <<>>
    PROVE  /\ Tail(s) \in Seq(V) /\ Len(Tail(s)) = Len(s) - 1 /\ Len(s) \in Nat \ {0}
           /\ \A i \in 1..(Len(s) - 1) : Tail(s)[i] = s[i + 1]
           /\ Head(s) = s[1] /\ Head(s) \in V
OBVIOUS

(* The places in a line are numbers.                                       *)
LEMMA PlacesAreNumbers ==
    ASSUME NEW V, NEW s \in Seq(V)
    PROVE  DOMAIN s \subseteq Nat
OBVIOUS

(* A tenant joins the end of the rotation ...                              *)
LEMMA AppendFacts ==
    ASSUME NEW V, NEW s \in Seq(V), NEW x \in V
    PROVE  /\ Append(s, x) \in Seq(V) /\ Len(Append(s, x)) = Len(s) + 1 /\ Len(s) \in Nat
           /\ \A i \in 1..Len(s) : Append(s, x)[i] = s[i]
           /\ Append(s, x)[Len(s) + 1] = x
OBVIOUS

(* ... or goes to its end.                                                 *)
LEMMA RotateFacts ==
    ASSUME NEW V, NEW s \in Seq(V), s # <<>>
    PROVE  LET r == Append(Tail(s), Head(s)) IN
           /\ r \in Seq(V) /\ Len(r) = Len(s)
           /\ \A i \in 1..(Len(s) - 1) : r[i] = s[i + 1]
           /\ r[Len(s)] = s[1]
<1>1. /\ Tail(s) \in Seq(V) /\ Len(Tail(s)) = Len(s) - 1 /\ Len(s) \in Nat \ {0}
      /\ \A i \in 1..(Len(s) - 1) : Tail(s)[i] = s[i + 1]
      /\ Head(s) = s[1] /\ Head(s) \in V
  BY TailFacts
<1> QED
  BY <1>1, AppendFacts

(* The loop that drops cancelled futures ends at the first one that is     *)
(* not.                                                                    *)
LEMMA PrunedFirst ==
    ASSUME NEW q \in Seq(BOOLEAN)
    PROVE  \E n \in 1..(Len(q) + 1) :
              /\ Pruned(q) = SubSeq(q, n, Len(q))
              /\ \A j \in 1..(n - 1) : q[j]
              /\ n <= Len(q) => ~q[n]
<1> DEFINE Leads(i) == (\A j \in 1..(i - 1) : q[j]) /\ (i <= Len(q) => ~q[i])
           T == {i \in 1..Len(q) : ~q[i]}
<1>1. \E i \in 1..(Len(q) + 1) : Leads(i)
  <2>1. CASE T = {}
    <3>1. Leads(Len(q) + 1)
      BY <2>1
    <3> QED
      BY <3>1
  <2>2. CASE T # {}
    <3>1. T \in SUBSET Nat
      OBVIOUS
    <3>2. PICK m \in T : \A k \in T : m <= k
      BY <2>2, <3>1, LeastNat
    <3>3. Leads(m)
      BY <3>2
    <3> QED
      BY <3>3
  <2> QED
    BY <2>1, <2>2
<1>2. PICK n : n = CHOOSE i \in 1..(Len(q) + 1) : Leads(i)
  OBVIOUS
<1>3. n \in 1..(Len(q) + 1) /\ Leads(n)
  BY <1>1, <1>2
<1>4. Pruned(q) = SubSeq(q, n, Len(q))
  BY <1>2 DEF Pruned
<1> QED
  BY <1>3, <1>4

(* Dropping cancelled waiters from the front loses no live one.            *)
LEMMA PrunedFacts ==
    ASSUME NEW q \in Seq(BOOLEAN)
    PROVE  /\ Pruned(q) \in Seq(BOOLEAN)
           /\ Pruned(q) # <<>> => Len(q) > 0 /\ ~Pruned(q)[1]
           /\ (\E i \in DOMAIN q : ~q[i]) <=> (\E i \in DOMAIN Pruned(q) : ~Pruned(q)[i])
           /\ Pruned(q) = <<>> => \A i \in DOMAIN q : q[i]
<1>1. PICK n \in 1..(Len(q) + 1) :
              /\ Pruned(q) = SubSeq(q, n, Len(q))
              /\ \A j \in 1..(n - 1) : q[j]
              /\ n <= Len(q) => ~q[n]
  BY PrunedFirst
<1>2. /\ Pruned(q) \in Seq(BOOLEAN) /\ Len(Pruned(q)) = Len(q) - n + 1
      /\ \A i \in 1..(Len(q) - n + 1) : Pruned(q)[i] = q[n + i - 1]
  BY <1>1
<1> DEFINE p == Pruned(q)
<1>3. \A i \in DOMAIN q : ~q[i] => i >= n /\ i - n + 1 \in DOMAIN p /\ ~p[i - n + 1]
  <2> SUFFICES ASSUME NEW i \in 1..Len(q), ~q[i]
               PROVE  i >= n /\ i - n + 1 \in DOMAIN p /\ ~p[i - n + 1]
    OBVIOUS
  <2>1. i >= n
    BY <1>1
  <2>2. i - n + 1 \in 1..Len(p)
    BY <1>2, <2>1
  <2>3. p[i - n + 1] = q[n + (i - n + 1) - 1]
    BY <1>2, <2>2
  <2> QED
    BY <1>2, <2>1, <2>2, <2>3
<1>4. \A i \in DOMAIN p : n + i - 1 \in DOMAIN q /\ p[i] = q[n + i - 1]
  BY <1>2
<1>5. p # <<>> => Len(q) > 0 /\ ~p[1]
  BY <1>1, <1>2
<1>6. p = <<>> => \A i \in DOMAIN q : q[i]
  BY <1>2, <1>3
<1> QED
  BY <1>2, <1>3, <1>4, <1>5, <1>6

(* A tenant may hold at least one slot, and not more than there are.       *)
LEMMA CapFacts == LimiterAssumption => Cap \in 1..Total /\ Total \in Nat \ {0}
BY DEF Cap, LimiterAssumption

-----------------------------------------------------------------------------
(* Dispatch, once the tenant in front and its queue have names.            *)
Gone(t) ==
    /\ order' = Tail(order) /\ waiters' = [waiters EXCEPT ![t] = <<>>]
    /\ tries' = tries - 1
    /\ UNCHANGED <<inUse, held, holders, passed>>
Kept(t, q) ==
    /\ order' = Append(Tail(order), t) /\ waiters' = [waiters EXCEPT ![t] = q]
    /\ tries' = tries - 1
    /\ UNCHANGED <<inUse, held, holders, passed>>
Granted(t, q) ==
    /\ inUse' = inUse + 1 /\ held' = [held EXCEPT ![t] = @ + 1]
    /\ holders' = [holders EXCEPT ![t] = @ + 1]
    /\ waiters' = [waiters EXCEPT ![t] = Tail(q)]
    /\ order' = Requeued(t, Tail(q))
    /\ passed' = [u \in Tenants |-> IF u = t \/ ~Waits(u) THEN {} ELSE passed[u] \cup {t}]
    /\ Dispatch0(inUse', order')
Turn(t, q) ==
    /\ order # <<>> /\ t = Head(order) /\ t = order[1] /\ q = Pruned(waiters[t])
    /\ tries \in 1..Len(order)
    /\ \/ q = <<>> /\ Gone(t)
       \/ q # <<>> /\ AtCap(t) /\ Kept(t, q)
       \/ q # <<>> /\ ~AtCap(t) /\ Granted(t, q)

(* A step of the dispatcher is a turn of the first tenant.                 *)
LEMMA DispatchTurns ==
    ASSUME SlotsTypeOK, Dispatch
    PROVE  \E t \in Tenants, q \in Seq(BOOLEAN) : Turn(t, q)
<1> DEFINE t == Head(order)
           q == Pruned(waiters[t])
<1>1. order # <<>> /\ tries \in 1..Len(order)
  BY DEF SlotsTypeOK, Dispatch
<1>2. t \in Tenants /\ t = order[1]
  BY <1>1, TailFacts DEF SlotsTypeOK
<1>3. q \in Seq(BOOLEAN)
  BY <1>2, PrunedFacts DEF SlotsTypeOK
<1>4. \/ q = <<>> /\ Gone(t)
      \/ q # <<>> /\ AtCap(t) /\ Kept(t, q)
      \/ q # <<>> /\ ~AtCap(t) /\ Granted(t, q)
  BY DEF Dispatch, Gone, Kept, Granted
<1>5. Turn(t, q)
  BY <1>1, <1>2, <1>4 DEF Turn
<1> QED
  BY <1>2, <1>3, <1>5

(* After its turn a tenant with waiters goes to the end.                   *)
LEMMA RequeuedFacts ==
    ASSUME SlotsTypeOK, order # <<>>, NEW rest
    PROVE  LET t == Head(order)
               r == Requeued(t, rest)
           IN  /\ r \in Seq(Tenants)
               /\ Len(r) = IF rest = <<>> THEN Len(order) - 1 ELSE Len(order)
               /\ \A i \in 1..(Len(order) - 1) : r[i] = order[i + 1]
               /\ rest # <<>> => r[Len(order)] = t
<1>1. CASE rest = <<>>
  BY <1>1, TailFacts DEF Requeued, SlotsTypeOK
<1>2. CASE rest # <<>>
  BY <1>2, RotateFacts, TailFacts DEF Requeued, SlotsTypeOK
<1> QED
  BY <1>1, <1>2

-----------------------------------------------------------------------------
(* The counters.                                                           *)

(* There are finitely many slots.                                          *)
LEMMA SlotsFinite ==
    ASSUME LimiterAssumption
    PROVE  IsFiniteSet(Slots) /\ Cardinality(Slots) \in Nat
<1>1. IsFiniteSet(Tenants) /\ IsFiniteSet(1..Total)
  BY FS_Interval DEF LimiterAssumption
<1>2. IsFiniteSet(Tenants \X (1..Total))
  BY <1>1, FS_Product
<1>3. Slots \subseteq Tenants \X (1..Total)
  BY DEF Slots
<1> QED
  BY <1>2, <1>3, FS_Subset, FS_CardinalityType

(* A slot given back is the last of its tenant's ...                       *)
LEMMA SlotGone ==
    ASSUME LimiterAssumption, SlotsTypeOK, SlotsExact, NEW t \in Tenants, holders[t] > 0,
           holders' = [holders EXCEPT ![t] = @ - 1]
    PROVE  Cardinality(Slots') = Cardinality(Slots) - 1 /\ Cardinality(Slots) > 0
<1> DEFINE s == <<t, holders[t]>>
<1>1. holders[t] \in 1..Total
  BY CapFacts DEF SlotsTypeOK, SlotsExact
<1>2. s \in Slots
  BY <1>1 DEF Slots
<1>3. Slots' = Slots \ {s}
  <2>1. \A u \in Tenants, n \in 1..Total :
          n <= holders'[u] <=> n <= holders[u] /\ <<u, n>> # s
    BY <1>1 DEF SlotsTypeOK
  <2> QED
    BY <2>1 DEF Slots
<1>4. Cardinality(Slots \ {s}) = Cardinality(Slots) - 1
  BY <1>2, SlotsFinite, FS_RemoveElement
<1>5. Cardinality(Slots) # 0
  BY <1>2, SlotsFinite, FS_EmptySet
<1> QED
  BY <1>3, <1>4, <1>5, SlotsFinite

(* ... and a slot handed out is its next one.                              *)
LEMMA SlotTaken ==
    ASSUME LimiterAssumption, SlotsTypeOK, SlotsExact, NEW t \in Tenants, ~AtCap(t),
           holders' = [holders EXCEPT ![t] = @ + 1]
    PROVE  Cardinality(Slots') = Cardinality(Slots) + 1
<1> DEFINE s == <<t, holders[t] + 1>>
<1>1. holders[t] \in Nat /\ holders[t] + 1 \in 1..Total
  BY CapFacts DEF SlotsTypeOK, SlotsExact, AtCap
<1>2. s \notin Slots
  BY <1>1 DEF Slots
<1>3. Slots' = Slots \cup {s}
  <2>1. \A u \in Tenants, n \in 1..Total :
          n <= holders'[u] <=> n <= holders[u] \/ <<u, n>> = s
    BY <1>1 DEF SlotsTypeOK
  <2> QED
    BY <1>1, <2>1 DEF Slots
<1> QED
  BY <1>2, <1>3, SlotsFinite, FS_AddElement

CountsInv == SlotsTypeOK /\ Looping /\ SlotsExact

(* Nothing is held at the start.                                           *)
LEMMA CountsInit == LimiterAssumption /\ SlotsInit => CountsInv
<1> SUFFICES ASSUME LimiterAssumption, SlotsInit PROVE CountsInv
  OBVIOUS
<1>1. SlotsTypeOK /\ Looping
  BY CapFacts DEF SlotsInit, SlotsTypeOK, Looping
<1>2. Slots = {}
  BY DEF SlotsInit, Slots
<1>3. SlotsExact
  BY <1>2, FS_EmptySet DEF SlotsInit, SlotsExact
<1> QED
  BY <1>1, <1>3 DEF CountsInv

(* Every step counts what it takes and gives back.                         *)
LEMMA CountsStep == LimiterAssumption /\ CountsInv /\ [SlotsNext]_slotsVars => CountsInv'
<1> SUFFICES ASSUME LimiterAssumption, CountsInv, [SlotsNext]_slotsVars PROVE CountsInv'
  OBVIOUS
<1>0. Cap \in 1..Total /\ Total \in Nat \ {0} /\ SlotsTypeOK /\ Looping /\ SlotsExact
  BY CapFacts DEF CountsInv
<1>1. ASSUME NEW t \in Tenants, Acquire(t) PROVE CountsInv'
  <2>1. waiters' \in [Tenants -> Seq(BOOLEAN)]
    BY <1>0, <1>1 DEF Acquire, SlotsTypeOK
  <2>2. order' \in Seq(Tenants)
    BY <1>0, <1>1, AppendFacts DEF Acquire, SlotsTypeOK
  <2>3. tries' \in 0..Len(order') /\ Looping'
    BY <1>1, <2>2 DEF Acquire, Dispatch0, Looping
  <2>4. SlotsTypeOK'
    BY <1>0, <1>1, <2>1, <2>2, <2>3 DEF Acquire, SlotsTypeOK
  <2> QED
    BY <1>0, <1>1, <2>3, <2>4 DEF Acquire, SlotsExact, Slots, CountsInv
<1>2. ASSUME NEW t \in Tenants, Release(t) PROVE CountsInv'
  <2>1. Cardinality(Slots') = Cardinality(Slots) - 1 /\ Cardinality(Slots) > 0
    BY <1>0, <1>2, SlotGone DEF Release
  <2>2. SlotsExact'
    BY <1>0, <1>2, <2>1 DEF Release, SlotsExact
  <2>3. inUse' \in 0..Total /\ inUse' < Total
    BY <1>0, <1>2, <2>1 DEF Release, SlotsExact, SlotsTypeOK
  <2>4. tries' = Len(order') /\ Looping'
    BY <1>0, <1>2, <2>3 DEF Release, Dispatch0, Looping
  <2>5. holders[t] \in Nat /\ holders[t] > 0 /\ held = holders /\ held[t] \in 0..Cap
    BY <1>0, <1>2 DEF Release, SlotsTypeOK, SlotsExact
  <2>6. held' \in [Tenants -> 0..Cap] /\ holders' \in [Tenants -> Nat]
    BY <1>0, <1>2, <2>5 DEF Release, SlotsTypeOK
  <2>7. SlotsTypeOK'
    BY <1>0, <1>2, <2>3, <2>4, <2>6 DEF Release, SlotsTypeOK
  <2> QED
    BY <2>2, <2>4, <2>7 DEF CountsInv
<1>3. ASSUME NEW t \in Tenants, NEW i \in 1..MaxQueue, CancelWaiter(t, i) PROVE CountsInv'
  <2>1. [waiters[t] EXCEPT ![i] = TRUE] \in Seq(BOOLEAN)
    BY <1>0, <1>3 DEF CancelWaiter, SlotsTypeOK
  <2>2. waiters' \in [Tenants -> Seq(BOOLEAN)]
    BY <1>0, <1>3, <2>1 DEF CancelWaiter, SlotsTypeOK
  <2>3. passed' \in [Tenants -> SUBSET Tenants]
    BY <1>0, <1>3 DEF CancelWaiter, SlotsTypeOK
  <2>4. SlotsTypeOK'
    BY <1>0, <1>3, <2>2, <2>3 DEF CancelWaiter, SlotsTypeOK
  <2> QED
    BY <1>0, <1>3, <2>4 DEF CancelWaiter, CountsInv, Looping, SlotsExact, Slots
<1>4. CASE Dispatch
  <2>1. PICK t \in Tenants, q \in Seq(BOOLEAN) : Turn(t, q)
    BY <1>0, <1>4, DispatchTurns
  <2>2. CASE q = <<>> /\ Gone(t)
    <3>1. SlotsTypeOK'
      BY <1>0, <2>1, <2>2, TailFacts, SMTT(30) DEF SlotsTypeOK, Turn, Gone
    <3> QED
      BY <1>0, <2>1, <2>2, <3>1 DEF Turn, Gone, CountsInv, Looping, SlotsExact, Slots
  <2>3. CASE q # <<>> /\ Kept(t, q)
    <3>0. /\ order \in Seq(Tenants) /\ order # <<>> /\ t = Head(order)
          /\ tries \in 1..Len(order) /\ order' = Append(Tail(order), Head(order)) /\ tries' = tries - 1
          /\ waiters \in [Tenants -> Seq(BOOLEAN)] /\ waiters' = [waiters EXCEPT ![t] = q]
      BY <1>0, <2>1, <2>3 DEF SlotsTypeOK, Turn, Kept
    <3>1. order' \in Seq(Tenants) /\ Len(order') = Len(order) /\ Len(order) \in Nat
      BY <3>0, RotateFacts, TailFacts
    <3>2. tries' \in 0..Len(order') /\ waiters' \in [Tenants -> Seq(BOOLEAN)]
      BY <3>0, <3>1
    <3>3. SlotsTypeOK'
      BY <1>0, <2>3, <3>1, <3>2 DEF SlotsTypeOK, Kept
    <3> QED
      BY <1>0, <2>1, <2>3, <3>3 DEF Turn, Kept, CountsInv, Looping, SlotsExact, Slots
  <2>4. CASE q # <<>> /\ ~AtCap(t) /\ Granted(t, q)
    <3>1. order' \in Seq(Tenants)
      BY <1>0, <2>1, <2>4, RequeuedFacts DEF Turn, Granted
    <3>2. waiters' \in [Tenants -> Seq(BOOLEAN)]
      BY <1>0, <2>4, TailFacts DEF SlotsTypeOK, Granted
    <3>3. held[t] + 1 \in 0..Cap /\ holders[t] + 1 \in Nat
      BY <1>0, <2>4 DEF SlotsTypeOK, AtCap
    <3>4. held' \in [Tenants -> 0..Cap] /\ holders' \in [Tenants -> Nat]
      BY <1>0, <2>4, <3>3 DEF SlotsTypeOK, Granted
    <3>5. inUse' \in 0..Total
      BY <1>0, <2>1, <2>4 DEF SlotsTypeOK, Looping, Turn, Granted
    <3>6. passed' \in [Tenants -> SUBSET Tenants]
      BY <1>0, <2>4 DEF SlotsTypeOK, Granted
    <3>7. tries' \in 0..Len(order') /\ Looping'
      BY <2>4, <3>1 DEF Dispatch0, Granted, Looping
    <3>8. SlotsTypeOK'
      BY <3>1, <3>2, <3>4, <3>5, <3>6, <3>7 DEF SlotsTypeOK
    <3>9. Cardinality(Slots') = Cardinality(Slots) + 1
      BY <1>0, <2>4, SlotTaken DEF Granted
    <3>10. SlotsExact'
      BY <1>0, <2>4, <3>9 DEF Granted, SlotsExact
    <3> QED
      BY <3>7, <3>8, <3>10 DEF CountsInv
  <2> QED
    BY <2>1, <2>2, <2>3, <2>4 DEF Turn
<1>5. CASE UNCHANGED slotsVars
  BY <1>5 DEF slotsVars, CountsInv, SlotsTypeOK, Cap, Looping, SlotsExact, Slots
<1> QED
  BY <1>1, <1>2, <1>3, <1>4, <1>5 DEF SlotsNext

-----------------------------------------------------------------------------
(* The line.                                                               *)

(* Nobody waits at the start.                                              *)
LEMMA LineInit == SlotsInit => LineInv
<1> SUFFICES ASSUME SlotsInit PROVE LineInv
  OBVIOUS
<1>1. \A t \in Tenants : waiters[t] = <<>>
  BY DEF SlotsInit
<1>2. InLine /\ OnceInLine
  BY <1>1 DEF SlotsInit, InLine, OnceInLine
<1>3. InReach
  BY <1>1 DEF SlotsInit, InReach, Waits, Live
<1> QED
  BY <1>2, <1>3 DEF LineInv

(* Who cannot have a slot joins the line.                                  *)
LEMMA AcquireLine ==
    ASSUME CountsInv, CountsInv', LineInv, NEW t \in Tenants, Acquire(t)
    PROVE  LineInv'
<1>1. order \in Seq(Tenants) /\ order' \in Seq(Tenants) /\ waiters \in [Tenants -> Seq(BOOLEAN)]
  BY DEF CountsInv, SlotsTypeOK
<1>2. waiters'[t] # <<>>
  <2>1. waiters'[t] = Append(waiters[t], FALSE)
    BY <1>1 DEF Acquire
  <2>2. Len(waiters'[t]) = Len(waiters[t]) + 1 /\ Len(waiters[t]) \in Nat
    BY <1>1, <2>1, AppendFacts
  <2> QED
    BY <2>2
<1>3. \A u \in Tenants : u # t => waiters'[u] = waiters[u]
  BY <1>1 DEF Acquire
<1>4. InLine' /\ OnceInLine'
  <2>1. CASE waiters[t] = <<>>
    <3>1. \A i \in DOMAIN order : order[i] # t
      BY <2>1 DEF LineInv, InLine
    <3>2. /\ Len(order') = Len(order) + 1 /\ Len(order) \in Nat
          /\ \A i \in 1..Len(order) : order'[i] = order[i]
          /\ order'[Len(order) + 1] = t
      BY <1>1, <2>1, AppendFacts DEF Acquire
    <3>3. DOMAIN order = 1..Len(order) /\ DOMAIN order' = 1..(Len(order) + 1)
      BY <1>1, <3>2
    <3>4. OnceInLine'
      <4> SUFFICES ASSUME NEW i \in DOMAIN order', NEW j \in DOMAIN order', order'[i] = order'[j]
                   PROVE  i = j
        BY DEF OnceInLine
      <4>1. \A k \in 1..Len(order) : order'[k] = order[k] /\ order[k] # t
        BY <3>1, <3>2, <3>3
      <4>2. CASE i \in 1..Len(order) /\ j \in 1..Len(order)
        BY <3>3, <4>1, <4>2 DEF LineInv, OnceInLine
      <4>3. CASE i = Len(order) + 1 \/ j = Len(order) + 1
        BY <3>2, <3>3, <4>1, <4>3
      <4> QED
        BY <3>2, <3>3, <4>2, <4>3
    <3>5. \A u \in Tenants :
            (\E i \in DOMAIN order' : order'[i] = u) <=> u = t \/ \E i \in DOMAIN order : order[i] = u
      <4>1. \A i \in DOMAIN order' : order'[i] = t \/ (i \in DOMAIN order /\ order'[i] = order[i])
        BY <3>2, <3>3
      <4>2. \A i \in DOMAIN order : i \in DOMAIN order' /\ order'[i] = order[i]
        BY <3>2, <3>3
      <4>3. Len(order) + 1 \in DOMAIN order'
        BY <3>2, <3>3
      <4> QED
        BY <3>2, <4>1, <4>2, <4>3
    <3>6. InLine'
      BY <1>2, <1>3, <3>5 DEF LineInv, InLine
    <3> QED
      BY <3>4, <3>6
  <2>2. CASE waiters[t] # <<>>
    <3>1. order' = order
      BY <2>2 DEF Acquire
    <3> QED
      BY <1>2, <1>3, <2>2, <3>1 DEF LineInv, InLine, OnceInLine
  <2> QED
    BY <2>1, <2>2
<1>5. InReach'
  <2>1. inUse' < Total => tries' = Len(order')
    BY DEF Acquire, Dispatch0
  <2>2. \A u \in Tenants : Waits(u)' => waiters'[u] # <<>>
    BY DEF Waits, Live
  <2> QED
    BY <1>1, <1>4, <2>1, <2>2 DEF InReach, InLine
<1> QED
  BY <1>4, <1>5 DEF LineInv

(* A release starts a round over the whole line.                           *)
LEMMA ReleaseLine ==
    ASSUME CountsInv, CountsInv', LineInv, NEW t \in Tenants, Release(t)
    PROVE  LineInv'
<1>1. order \in Seq(Tenants) /\ order' = order /\ waiters' = waiters
  BY DEF CountsInv, SlotsTypeOK, Release
<1>2. InLine' /\ OnceInLine'
  BY <1>1 DEF LineInv, InLine, OnceInLine
<1>3. inUse' < Total => tries' = Len(order')
  BY <1>1 DEF Release, Dispatch0
<1>4. \A u \in Tenants : Waits(u)' => waiters'[u] # <<>>
  BY DEF Waits, Live
<1>5. InReach'
  BY <1>1, <1>2, <1>3, <1>4 DEF InReach, InLine
<1> QED
  BY <1>2, <1>5 DEF LineInv

(* A cancelled future stays in its queue, so the line stays as it is.      *)
LEMMA CancelLive ==
    ASSUME CountsInv, NEW t \in Tenants, NEW i, CancelWaiter(t, i)
    PROVE  /\ \A u \in Tenants : DOMAIN waiters'[u] = DOMAIN waiters[u]
           /\ \A u \in Tenants : (waiters'[u] = <<>>) = (waiters[u] = <<>>)
           /\ \A u \in Tenants : Live(u)' => Live(u)
           /\ \A u \in Tenants : u # t => Live(u)' = Live(u)
<1>1. waiters \in [Tenants -> Seq(BOOLEAN)] /\ i \in DOMAIN waiters[t]
  BY DEF CountsInv, SlotsTypeOK, CancelWaiter
<1>2. waiters' = [waiters EXCEPT ![t] = [waiters[t] EXCEPT ![i] = TRUE]]
  BY DEF CancelWaiter
<1>3. \A u \in Tenants : u # t => waiters'[u] = waiters[u]
  BY <1>1, <1>2
<1>4. waiters'[t] = [waiters[t] EXCEPT ![i] = TRUE]
  BY <1>1, <1>2
<1>5. DOMAIN waiters'[t] = DOMAIN waiters[t] /\ waiters'[t] # <<>> /\ waiters[t] # <<>>
  BY <1>1, <1>4
<1>6. \A j \in DOMAIN waiters[t] : ~waiters'[t][j] => ~waiters[t][j]
  BY <1>1, <1>4
<1> QED
  BY <1>3, <1>5, <1>6 DEF Live

(* A cancelled waiter changes nobody's place.                              *)
LEMMA CancelLine ==
    ASSUME CountsInv, CountsInv', LineInv, NEW t \in Tenants, NEW i, CancelWaiter(t, i)
    PROVE  LineInv'
<1>1. order' = order /\ held' = held /\ inUse' = inUse /\ tries' = tries
  BY DEF CancelWaiter
<1>2. InLine' /\ OnceInLine'
  BY <1>1, CancelLive DEF LineInv, InLine, OnceInLine
<1>3. \A u \in Tenants : Waits(u)' => Waits(u)
  BY <1>1, CancelLive DEF Waits
<1>4. InReach'
  BY <1>1, <1>3 DEF LineInv, InReach
<1> QED
  BY <1>2, <1>4 DEF LineInv

(* A turn of the loop moves the line on by one; the tenant in front is     *)
(* gone, or at the end.  What it is, and whether it still has futures,     *)
(* goes together.                                                          *)
MovedOn(t, stays) ==
    /\ Len(order') = (IF stays THEN Len(order) ELSE Len(order) - 1)
    /\ DOMAIN order' = 1..Len(order') /\ DOMAIN order = 1..Len(order)
    /\ Len(order) \in Nat \ {0} /\ order[1] = t
    /\ \A i \in 1..(Len(order) - 1) : order'[i] = order[i + 1]
    /\ stays => order'[Len(order)] = t

(* A turn moves the first tenant to the end or out of the line.            *)
LEMMA TurnMoves ==
    ASSUME CountsInv, CountsInv', NEW t \in Tenants, NEW q \in Seq(BOOLEAN), Turn(t, q)
    PROVE  /\ waiters'[t] # <<>> => MovedOn(t, TRUE)
           /\ waiters'[t] = <<>> => MovedOn(t, FALSE)
           /\ \A u \in Tenants : u # t => waiters'[u] = waiters[u]
           /\ Live(t)' => Live(t)
           /\ q # <<>> => Live(t)
<1>1. /\ order \in Seq(Tenants) /\ order' \in Seq(Tenants) /\ order # <<>>
      /\ t = Head(order) /\ t = order[1]
      /\ waiters \in [Tenants -> Seq(BOOLEAN)] /\ waiters[t] \in Seq(BOOLEAN)
  BY DEF CountsInv, SlotsTypeOK, Turn
<1>2. DOMAIN order = 1..Len(order) /\ DOMAIN order' = 1..Len(order') /\ Len(order) \in Nat \ {0}
  BY <1>1
<1>3. /\ q # <<>> => ~q[1]
      /\ Live(t) <=> \E i \in DOMAIN q : ~q[i]
  BY <1>1, PrunedFacts DEF Turn, Live
<1>4. q # <<>> => Live(t)
  BY <1>3
<1>5. CASE q = <<>> /\ Gone(t)
  <2>1. waiters'[t] = <<>> /\ \A u \in Tenants : u # t => waiters'[u] = waiters[u]
    BY <1>1, <1>5 DEF Gone
  <2>2. MovedOn(t, FALSE)
    BY <1>1, <1>2, <1>5, TailFacts DEF Gone, MovedOn
  <2>3. ~Live(t)'
    BY <2>1 DEF Live
  <2> QED
    BY <1>4, <2>1, <2>2, <2>3
<1>6. CASE q # <<>> /\ Kept(t, q)
  <2>1. waiters'[t] = q /\ \A u \in Tenants : u # t => waiters'[u] = waiters[u]
    BY <1>1, <1>6 DEF Kept
  <2>2. MovedOn(t, TRUE)
    BY <1>1, <1>2, <1>6, RotateFacts DEF Kept, MovedOn
  <2> QED
    BY <1>4, <1>6, <2>1, <2>2
<1>7. CASE q # <<>> /\ Granted(t, q)
  <2>1. waiters'[t] = Tail(q) /\ \A u \in Tenants : u # t => waiters'[u] = waiters[u]
    BY <1>1, <1>7 DEF Granted
  <2>2. /\ Len(order') = IF Tail(q) = <<>> THEN Len(order) - 1 ELSE Len(order)
        /\ \A i \in 1..(Len(order) - 1) : order'[i] = order[i + 1]
        /\ Tail(q) # <<>> => order'[Len(order)] = t
    BY <1>1, <1>7, RequeuedFacts DEF Granted, CountsInv
  <2>3. /\ waiters'[t] # <<>> => MovedOn(t, TRUE)
        /\ waiters'[t] = <<>> => MovedOn(t, FALSE)
    BY <1>1, <1>2, <2>1, <2>2 DEF MovedOn
  <2> QED
    BY <1>4, <1>7, <2>1, <2>3
<1> QED
  BY <1>5, <1>6, <1>7 DEF Turn

(* Where a tenant stands after the line has moved on.                      *)
LEMMA NewPlaces ==
    ASSUME NEW t \in Tenants, NEW stays \in BOOLEAN, MovedOn(t, stays), OnceInLine
    PROVE  /\ OnceInLine'
           /\ \A i \in DOMAIN order' :
                 \/ i < Len(order) /\ i + 1 \in DOMAIN order /\ order'[i] = order[i + 1] /\ order'[i] # t
                 \/ stays /\ i = Len(order) /\ order'[i] = t
           /\ \A i \in DOMAIN order : order[i] # t =>
                 i > 1 /\ i - 1 \in DOMAIN order' /\ order'[i - 1] = order[i]
           /\ stays => \E i \in DOMAIN order' : order'[i] = t
<1>0. PICK n \in Nat \ {0} :
         /\ n = Len(order) /\ DOMAIN order = 1..n /\ order[1] = t
         /\ DOMAIN order' = 1..(IF stays THEN n ELSE n - 1)
         /\ \A i \in 1..(n - 1) : order'[i] = order[i + 1]
         /\ stays => order'[n] = t
  BY DEF MovedOn
<1>1. \A i \in DOMAIN order' :
         \/ i < n /\ i + 1 \in DOMAIN order /\ order'[i] = order[i + 1] /\ order'[i] # t
         \/ stays /\ i = n /\ order'[i] = t
  <2>1. \A i \in 2..n : order[i] # t
    BY <1>0 DEF OnceInLine
  <2> QED
    BY <1>0, <2>1
<1>2. \A i \in DOMAIN order : order[i] # t =>
         i > 1 /\ i - 1 \in DOMAIN order' /\ order'[i - 1] = order[i]
  <2>1. \A i \in 2..n : i - 1 \in 1..(n - 1) /\ (i - 1) + 1 = i
    BY <1>0
  <2>2. \A i \in 2..n : i - 1 \in DOMAIN order' /\ order'[i - 1] = order[i]
    BY <1>0, <2>1
  <2> QED
    BY <1>0, <2>2
<1>3. stays => \E i \in DOMAIN order' : order'[i] = t
  BY <1>0
<1>4. OnceInLine'
  <2> SUFFICES ASSUME NEW i \in DOMAIN order', NEW j \in DOMAIN order', order'[i] = order'[j]
               PROVE  i = j
    BY DEF OnceInLine
  <2>1. i \in Nat /\ j \in Nat
    BY <1>0
  <2>2. CASE order'[i] = t
    BY <1>1, <2>2
  <2>3. CASE order'[i] # t
    <3>1. i + 1 \in DOMAIN order /\ j + 1 \in DOMAIN order /\ order[i + 1] = order[j + 1]
      BY <1>1, <2>3
    <3>2. i + 1 = j + 1
      BY <3>1 DEF OnceInLine
    <3> QED
      BY <2>1, <3>2
  <2> QED
    BY <2>2, <2>3
<1> QED
  BY <1>0, <1>1, <1>2, <1>3, <1>4

(* The dispatcher passes a tenant only if it has nothing to wait for, or   *)
(* is at its cap.                                                          *)
LEMMA DispatchLine ==
    ASSUME LimiterAssumption, CountsInv, CountsInv', LineInv, Dispatch
    PROVE  LineInv'
<1>1. PICK t \in Tenants, q \in Seq(BOOLEAN) : Turn(t, q)
  BY DispatchTurns DEF CountsInv
<1> DEFINE stays == waiters'[t] # <<>>
<1>2. MovedOn(t, stays) /\ stays \in BOOLEAN
  BY <1>1, TurnMoves
<1>3. \A u \in Tenants : u # t => waiters'[u] = waiters[u]
  BY <1>1, TurnMoves
<1>4. OnceInLine'
  BY <1>2, NewPlaces DEF LineInv
<1>5. /\ \A i \in DOMAIN order' :
            \/ i < Len(order) /\ i + 1 \in DOMAIN order /\ order'[i] = order[i + 1] /\ order'[i] # t
            \/ stays /\ i = Len(order) /\ order'[i] = t
      /\ \A i \in DOMAIN order : order[i] # t =>
            i > 1 /\ i - 1 \in DOMAIN order' /\ order'[i - 1] = order[i]
      /\ stays => \E i \in DOMAIN order' : order'[i] = t
  BY <1>2, NewPlaces, ZenonT(40) DEF LineInv
<1>6. InLine'
  <2> SUFFICES ASSUME NEW u \in Tenants
               PROVE  waiters'[u] # <<>> <=> \E i \in DOMAIN order' : order'[i] = u
    BY DEF InLine
  <2>1. CASE u = t
    BY <1>5, <2>1
  <2>2. CASE u # t
    <3>1. (\E i \in DOMAIN order' : order'[i] = u) <=> (\E i \in DOMAIN order : order[i] = u)
      BY <1>5, <2>2
    <3> QED
      BY <1>3, <2>2, <3>1 DEF LineInv, InLine
  <2> QED
    BY <2>1, <2>2
<1>7. InReach'
  <2>1. CASE q # <<>> /\ Granted(t, q)
    <3>1. inUse' < Total => tries' = Len(order')
      BY <2>1 DEF Granted, Dispatch0
    <3>2. \A u \in Tenants : Waits(u)' => waiters'[u] # <<>>
      BY DEF Waits, Live
    <3>3. order' \in Seq(Tenants)
      BY DEF CountsInv, SlotsTypeOK
    <3> QED
      BY <1>6, <3>1, <3>2, <3>3 DEF InReach, InLine
  <2>2. CASE \/ q = <<>> /\ Gone(t)
             \/ q # <<>> /\ AtCap(t) /\ Kept(t, q)
    <3>1. inUse' = inUse /\ held' = held /\ tries' = tries - 1 /\ tries \in Nat \ {0}
      BY <1>1, <2>2 DEF Gone, Kept, Turn
    <3>2. ~Waits(t)'
      <4>1. CASE q = <<>> /\ Gone(t)
        <5>1. waiters'[t] = <<>>
          BY <4>1 DEF Gone, CountsInv, SlotsTypeOK
        <5> QED
          BY <5>1 DEF Waits, Live
      <4>2. CASE AtCap(t)
        <5>1. held[t] \in Int /\ Cap \in Int
          BY CapFacts DEF CountsInv, SlotsTypeOK
        <5> QED
          BY <3>1, <4>2, <5>1 DEF AtCap, Waits
      <4> QED
        BY <2>2, <4>1, <4>2
    <3>3. \A u \in Tenants : Waits(u)' => u # t /\ Waits(u)
      BY <1>3, <3>1, <3>2 DEF Waits, Live
    <3> SUFFICES ASSUME inUse' < Total, NEW u \in Tenants, Waits(u)'
                 PROVE  \E i \in 1..tries' : order'[i] = u
      BY DEF InReach
    <3>4. PICK i \in 1..tries : order[i] = u
      BY <3>1, <3>3 DEF LineInv, InReach
    <3>5. i \in DOMAIN order
      BY <1>1, <3>4 DEF Turn, CountsInv, SlotsTypeOK
    <3>6. i > 1 /\ order'[i - 1] = u
      BY <1>5, <3>3, <3>4, <3>5
    <3> QED
      BY <3>1, <3>4, <3>6
  <2> QED
    BY <1>1, <2>1, <2>2 DEF Turn
<1> QED
  BY <1>4, <1>6, <1>7 DEF LineInv

(* Every step keeps the line in order.                                     *)
LEMMA LineStep ==
    LimiterAssumption /\ CountsInv /\ CountsInv' /\ LineInv /\ [SlotsNext]_slotsVars => LineInv'
<1> SUFFICES ASSUME LimiterAssumption, CountsInv, CountsInv', LineInv, [SlotsNext]_slotsVars PROVE LineInv'
  OBVIOUS
<1>1. CASE UNCHANGED slotsVars
  BY <1>1 DEF slotsVars, LineInv, InLine, OnceInLine, InReach, Waits, Live
<1> QED
  BY <1>1, AcquireLine, ReleaseLine, CancelLine, DispatchLine DEF SlotsNext

-----------------------------------------------------------------------------
(* Who was served before whom.                                             *)

(* Who was served while another waited is behind it.                       *)
LEMMA BehindStep ==
    /\ LimiterAssumption /\ CountsInv /\ CountsInv' /\ LineInv /\ LineInv'
    /\ Behind /\ [SlotsNext]_slotsVars
    => Behind'
<1> SUFFICES ASSUME LimiterAssumption, CountsInv, CountsInv', LineInv, LineInv', Behind,
                    [SlotsNext]_slotsVars, NEW u \in Tenants
             PROVE  /\ passed'[u] # {} => Waits(u)'
                    /\ \A t \in passed'[u] : t # u /\
                          \A i, j \in DOMAIN order' : order'[i] = u /\ order'[j] = t => i < j
  BY DEF Behind
<1> DEFINE Goal == /\ passed'[u] # {} => Waits(u)'
                   /\ \A t \in passed'[u] : t # u /\
                         \A i, j \in DOMAIN order' : order'[i] = u /\ order'[j] = t => i < j
<1>0. /\ held \in [Tenants -> 0..Cap] /\ order \in Seq(Tenants) /\ order' \in Seq(Tenants)
      /\ waiters \in [Tenants -> Seq(BOOLEAN)] /\ passed \in [Tenants -> SUBSET Tenants]
      /\ held' \in [Tenants -> 0..Cap]
  BY DEF CountsInv, SlotsTypeOK
<1>1. ASSUME NEW x \in Tenants, Acquire(x) PROVE Goal
  <2>1. held' = held /\ passed' = passed
    BY <1>1 DEF Acquire
  <2>2. Live(u) => Live(u)'
    <3>1. CASE u = x
      <4>1. waiters[u] \in Seq(BOOLEAN) /\ waiters'[u] = Append(waiters[u], FALSE)
        BY <1>0, <1>1, <3>1 DEF Acquire
      <4>2. /\ waiters'[u] \in Seq(BOOLEAN) /\ Len(waiters'[u]) = Len(waiters[u]) + 1
            /\ Len(waiters[u]) \in Nat /\ waiters'[u][Len(waiters[u]) + 1] = FALSE
        BY <4>1, AppendFacts
      <4>3. Len(waiters[u]) + 1 \in DOMAIN waiters'[u]
        BY <4>2
      <4> QED
        BY <4>2, <4>3 DEF Live
    <3>2. CASE u # x
      <4>1. waiters'[u] = waiters[u]
        BY <1>0, <1>1, <3>2 DEF Acquire
      <4> QED
        BY <4>1 DEF Live
    <3> QED
      BY <3>1, <3>2
  <2>3. passed'[u] # {} => Waits(u) /\ Waits(u)'
    BY <2>1, <2>2 DEF Waits, Behind
  <2>4. ASSUME NEW t \in passed'[u], NEW i \in DOMAIN order', NEW j \in DOMAIN order',
               order'[i] = u, order'[j] = t
        PROVE  i < j
    <3>1. CASE waiters[x] # <<>>
      <4>1. order' = order
        BY <1>1, <3>1 DEF Acquire
      <4> QED
        BY <2>1, <2>4, <4>1 DEF Behind
    <3>2. CASE waiters[x] = <<>>
      <4>1. /\ Len(order') = Len(order) + 1 /\ Len(order) \in Nat
            /\ \A k \in 1..Len(order) : order'[k] = order[k]
            /\ order'[Len(order) + 1] = x
        BY <1>0, <1>1, <3>2, AppendFacts DEF Acquire
      <4>2. DOMAIN order = 1..Len(order) /\ DOMAIN order' = 1..(Len(order) + 1)
        BY <1>0, <4>1
      <4>3. u # x
        BY <2>3, <2>4, <3>2 DEF Waits, Live
      <4>4. i \in 1..Len(order) /\ order[i] = u
        BY <2>4, <4>1, <4>2, <4>3
      <4>5. CASE j = Len(order) + 1
        BY <4>1, <4>4, <4>5
      <4>6. CASE j \in 1..Len(order)
        BY <2>1, <2>4, <4>1, <4>2, <4>4, <4>6 DEF Behind
      <4> QED
        BY <4>1, <4>2, <4>5, <4>6
    <3> QED
      BY <3>1, <3>2
  <2> QED
    BY <2>1, <2>3, <2>4 DEF Behind
<1>2. ASSUME NEW x \in Tenants, Release(x) PROVE Goal
  <2>1. waiters' = waiters /\ order' = order /\ passed' = passed
    BY <1>2 DEF Release
  <2>2. held'[u] <= held[u]
    BY <1>0, <1>2 DEF Release
  <2>3. Waits(u) => Waits(u)'
    <3>1. held[u] \in Int /\ held'[u] \in Int /\ Cap \in Int
      BY <1>0, CapFacts DEF CountsInv, SlotsTypeOK
    <3> QED
      BY <2>1, <2>2, <3>1 DEF Waits, Live
  <2> QED
    BY <2>1, <2>3 DEF Behind
<1>3. ASSUME NEW x \in Tenants, NEW k, CancelWaiter(x, k) PROVE Goal
  <2>1. order' = order /\ held' = held
    BY <1>3 DEF CancelWaiter
  <2>2. passed'[u] = IF u = x /\ ~Live(x)' THEN {} ELSE passed[u]
    BY <1>3 DEF CancelWaiter
  <2>3. passed'[u] # {} /\ Live(u) => Live(u)'
    BY <1>3, <2>2, CancelLive
  <2> QED
    BY <2>1, <2>2, <2>3 DEF Behind, Waits
<1>4. CASE Dispatch
  <2>1. PICK x \in Tenants, q \in Seq(BOOLEAN) : Turn(x, q)
    BY <1>4, DispatchTurns DEF CountsInv
  <2> DEFINE stays == waiters'[x] # <<>>
  <2>2. MovedOn(x, stays) /\ stays \in BOOLEAN
    BY <2>1, TurnMoves
  <2>3. /\ \A i \in DOMAIN order' :
              \/ i < Len(order) /\ i + 1 \in DOMAIN order /\ order'[i] = order[i + 1] /\ order'[i] # x
              \/ stays /\ i = Len(order) /\ order'[i] = x
        /\ DOMAIN order' \subseteq Nat
    <3>1. order' \in Seq(Tenants)
      BY <1>0
    <3>2. DOMAIN order' \subseteq Nat
      BY <3>1, PlacesAreNumbers
    <3> QED
      BY <2>2, <3>2, NewPlaces, ZenonT(40) DEF LineInv
  <2>4. passed'[u] # {} => u # x /\ Waits(u) /\ passed'[u] \subseteq passed[u] \cup {x}
    <3>1. CASE \/ q = <<>> /\ Gone(x)
               \/ q # <<>> /\ AtCap(x) /\ Kept(x, q)
      <4>1. passed' = passed
        BY <3>1 DEF Gone, Kept
      <4>2. ~Waits(x)
        <5>1. CASE q = <<>>
          <6>1. \A i \in DOMAIN waiters[x] : waiters[x][i]
            BY <1>0, <2>1, <5>1, PrunedFacts DEF Turn
          <6> QED
            BY <6>1 DEF Waits, Live
        <5>2. CASE AtCap(x)
          <6>1. held[x] \in Int /\ Cap \in Int
            BY <1>0, CapFacts DEF CountsInv, SlotsTypeOK
          <6> QED
            BY <5>2, <6>1 DEF AtCap, Waits
        <5> QED
          BY <3>1, <5>1, <5>2
      <4> QED
        BY <4>1, <4>2 DEF Behind
    <3>2. CASE Granted(x, q)
      BY <3>2 DEF Granted
    <3> QED
      BY <2>1, <3>1, <3>2 DEF Turn
  <2>5. u # x => waiters'[u] = waiters[u] /\ held'[u] = held[u]
    <3>1. u # x => waiters'[u] = waiters[u]
      BY <2>1, TurnMoves
    <3>2. u # x => held'[u] = held[u]
      BY <1>0, <2>1 DEF Turn, Gone, Kept, Granted
    <3> QED
      BY <3>1, <3>2
  <2>6. passed'[u] # {} => Waits(u)'
    BY <2>4, <2>5 DEF Waits, Live
  <2>7. ASSUME NEW t \in passed'[u], NEW i \in DOMAIN order', NEW j \in DOMAIN order',
               order'[i] = u, order'[j] = t
        PROVE  i < j
    <3>1. i < Len(order) /\ i + 1 \in DOMAIN order /\ order[i + 1] = u
      BY <2>3, <2>4, <2>7
    <3>2. CASE j = Len(order)
      BY <3>1, <3>2
    <3>3. CASE j < Len(order) /\ j + 1 \in DOMAIN order /\ order'[j] = order[j + 1] /\ order'[j] # x
      <4>1. t \in passed[u]
        BY <2>4, <2>7, <3>3
      <4>2. i + 1 < j + 1
        BY <2>7, <3>1, <3>3, <4>1 DEF Behind
      <4> QED
        BY <2>3, <4>2
    <3> QED
      BY <2>3, <3>2, <3>3
  <2>8. \A t \in passed'[u] : t # u
    BY <2>4 DEF Behind
  <2> QED
    BY <2>6, <2>7, <2>8
<1>5. CASE UNCHANGED slotsVars
  BY <1>5 DEF slotsVars, Behind, Waits, Live
<1> QED
  BY <1>1, <1>2, <1>3, <1>4, <1>5 DEF SlotsNext

-----------------------------------------------------------------------------
(* The results.                                                            *)

LimiterInv == CountsInv /\ LineInv /\ Behind

(* The inductive invariant of the limiter.                                 *)
THEOREM Inductive == ASSUME LimiterAssumption PROVE SlotsSpec => []LimiterInv
<1>1. SlotsInit => LimiterInv
  <2>1. SlotsInit => Behind
    BY DEF SlotsInit, Behind
  <2> QED
    BY <2>1, CountsInit, LineInit DEF LimiterInv
<1>2. LimiterInv /\ [SlotsNext]_slotsVars => LimiterInv'
  BY CountsStep, LineStep, BehindStep DEF LimiterInv
<1> QED
  BY <1>1, <1>2, PTL DEF SlotsSpec

(* Counters, queues and the line of the limiter stay well formed.          *)
THEOREM TypeCorrect == ASSUME LimiterAssumption PROVE SlotsSpec => []SlotsTypeOK
<1>1. LimiterInv => SlotsTypeOK
  BY DEF LimiterInv, CountsInv
<1> QED
  BY <1>1, Inductive, PTL

(* No slot is lost or handed out twice, however tasks are cancelled: what  *)
(* _in_use and _held say is what the tasks hold.                           *)
THEOREM SlotsAreExact == ASSUME LimiterAssumption PROVE SlotsSpec => []SlotsExact
<1>1. LimiterInv => SlotsExact
  BY DEF LimiterInv, CountsInv
<1> QED
  BY <1>1, Inductive, PTL

(* When _dispatch has returned, a slot is free only if every tenant that   *)
(* waits is at its cap; and nobody who waits has dropped out of line.      *)
THEOREM NoIdleSlot == ASSUME LimiterAssumption PROVE SlotsSpec => []WorkConserving
<1>1. LimiterInv => WorkConserving
  <2> SUFFICES ASSUME LimiterInv PROVE WorkConserving
    OBVIOUS
  <2>1. tries = 0 /\ inUse < Total => \A t \in Tenants : ~Waits(t)
    BY DEF LimiterInv, LineInv, InReach
  <2>2. \A t \in Tenants : Live(t) => \E i \in DOMAIN order : order[i] = t
    BY DEF LimiterInv, LineInv, InLine, Live
  <2> QED
    BY <2>1, <2>2 DEF LimiterInv, LineInv, OnceInLine, WorkConserving
<1> QED
  BY <1>1, Inductive, PTL

(* While a tenant below its cap waits, no other tenant is served twice.    *)
THEOREM ServedInTurn == ASSUME LimiterAssumption PROVE SlotsSpec => RoundRobin
<1>1. LimiterInv /\ [SlotsNext]_slotsVars =>
        [\A t, u \in Tenants : held'[t] > held[t] /\ t # u /\ Waits(u) => t \notin passed[u]]_slotsVars
  <2> SUFFICES ASSUME LimiterInv, SlotsNext, NEW t \in Tenants, NEW u \in Tenants,
                      held'[t] > held[t], t # u, Waits(u), t \in passed[u]
               PROVE  FALSE
    OBVIOUS
  <2>0. held \in [Tenants -> 0..Cap] /\ SlotsTypeOK
    BY DEF LimiterInv, CountsInv, SlotsTypeOK
  <2>1. Dispatch
    <3>1. ASSUME NEW x \in Tenants, Acquire(x) \/ \E i \in 1..MaxQueue : CancelWaiter(x, i)
          PROVE  FALSE
      <4>1. held' = held
        BY <3>1, Zenon DEF Acquire, CancelWaiter
      <4>2. held[t] \in Int
        BY <2>0
      <4> QED
        BY <4>1, <4>2
    <3>2. ASSUME NEW x \in Tenants, Release(x) PROVE FALSE
      BY <2>0, <3>2 DEF Release
    <3> QED
      BY <3>1, <3>2 DEF SlotsNext
  <2>2. PICK x \in Tenants, q \in Seq(BOOLEAN) : Turn(x, q)
    BY <2>0, <2>1, DispatchTurns
  <2>3. x = t
    <3>1. x # t => held'[t] = held[t]
      BY <2>0, <2>2 DEF Turn, Gone, Kept, Granted
    <3>2. held[t] \in Int
      BY <2>0
    <3> QED
      BY <3>1, <3>2
  <2>4. 1 \in DOMAIN order /\ order[1] = t
    BY <2>0, <2>2, <2>3 DEF Turn, SlotsTypeOK
  <2>5. PICK i \in DOMAIN order : order[i] = u
    BY DEF LimiterInv, LineInv, InLine, Waits, Live
  <2>6. i < 1
    BY <2>4, <2>5 DEF LimiterInv, Behind
  <2> QED
    BY <2>0, <2>5, <2>6 DEF SlotsTypeOK
<1> QED
  BY <1>1, Inductive, PTL DEF SlotsSpec, RoundRobin

-----------------------------------------------------------------------------
(* per_tenant_job and fleet_job.                                           *)

(* A finite set of tenant ids can be put in order: were there one that     *)
(* cannot, take one with the fewest ids and put its least id in front of   *)
(* the order of the others.                                                *)
Orders(V) == {s \in [1..Cardinality(V) -> V] : InOrder(s)}
(* By induction over the number of ids, as a smallest counterexample.      *)
LEMMA Orderable ==
    ASSUME NEW V \in SUBSET Nat, IsFiniteSet(V)
    PROVE  Orders(V) # {}
<1> DEFINE Bad(n) == \E R \in SUBSET Nat : IsFiniteSet(R) /\ Cardinality(R) = n /\ Orders(R) = {}
           N == {n \in Nat : Bad(n)}
<1> SUFFICES ASSUME Orders(V) = {} PROVE FALSE
  OBVIOUS
<1>1. Cardinality(V) \in N
  BY FS_CardinalityType
<1>2. PICK n \in N : \A k \in N : n <= k
  <2>1. N \in SUBSET Nat /\ N # {}
    BY <1>1
  <2> HIDE DEF N
  <2> QED
    BY <2>1, LeastNat
<1>3. PICK R \in SUBSET Nat : IsFiniteSet(R) /\ Cardinality(R) = n /\ Orders(R) = {}
  BY <1>2
<1>4. n \in Nat /\ \A k \in Nat : k < n => k \notin N
  BY <1>2
<1>5. R # {}
  <2> SUFFICES ASSUME R = {} PROVE FALSE
    OBVIOUS
  <2>1. n = 0
    BY <1>3, FS_EmptySet
  <2> DEFINE e == [i \in 1..0 |-> 0]
  <2>2. e \in [1..n -> R] /\ InOrder(e)
    BY <2>1 DEF InOrder
  <2> QED
    BY <1>3, <2>2 DEF Orders
<1>6. PICK m \in R : \A k \in R : m <= k
  BY <1>5, LeastNat
<1> DEFINE Q == R \ {m}
<1>7. IsFiniteSet(Q) /\ Cardinality(Q) = n - 1 /\ Q \in SUBSET Nat
  BY <1>3, FS_RemoveElement
<1>8. n - 1 \in Nat
  BY <1>7, FS_CardinalityType
<1>9. Orders(Q) # {}
  <2>1. n - 1 \notin N
    BY <1>4, <1>8
  <2> QED
    BY <2>1, <1>7, <1>8
<1>10. PICK s \in [1..(n - 1) -> Q] : InOrder(s)
  BY <1>7, <1>9 DEF Orders
<1> DEFINE r == [i \in 1..n |-> IF i = 1 THEN m ELSE s[i - 1]]
<1>11. r \in [1..n -> R]
  BY <1>4, <1>6, <1>10
<1>12. InOrder(r)
  <2> SUFFICES ASSUME NEW i \in 1..n, NEW j \in 1..n, i < j PROVE r[i] < r[j]
    BY <1>11 DEF InOrder
  <2>1. j # 1 /\ j - 1 \in 1..(n - 1) /\ r[j] = s[j - 1] /\ s[j - 1] \in Q
    BY <1>4, <1>10
  <2>2. CASE i = 1
    <3>1. r[i] = m /\ m \in Nat /\ s[j - 1] \in Nat /\ s[j - 1] # m
      BY <1>3, <1>6, <2>1, <2>2
    <3>2. m <= s[j - 1]
      BY <1>6, <2>1
    <3> QED
      BY <2>1, <3>1, <3>2
  <2>3. CASE i # 1
    <3>1. i - 1 \in 1..(n - 1) /\ r[i] = s[i - 1] /\ i - 1 < j - 1
      BY <1>4, <2>3
    <3>2. DOMAIN s = 1..(n - 1)
      BY <1>10
    <3> QED
      BY <1>10, <2>1, <3>1, <3>2 DEF InOrder
  <2> QED
    BY <2>2, <2>3
<1> QED
  BY <1>3, <1>11, <1>12 DEF Orders

(* The order in which a run of per_tenant_job works.                       *)
LEMMA RotatedFacts ==
    ASSUME JobsAssumption, NEW V \in SUBSET Tenants, Cardinality(V) > 1, offset \in Nat
    PROVE  Rotated(V) \in Seq(Tenants) /\ Rotated(V) # <<>>
<1> DEFINE n == Cardinality(V)
           s == Sorted(V)
           k == offset % Len(s)
<1>1. IsFiniteSet(V) /\ V \in SUBSET Nat /\ n \in Nat /\ n > 1
  BY FS_Subset, FS_CardinalityType DEF JobsAssumption
<1>2. Orders(V) # {}
  BY <1>1, Orderable
<1>3. s \in [1..n -> V]
  BY <1>2 DEF Orders, Sorted
<1>4. s \in Seq(Tenants) /\ Len(s) = n
  <2>1. s \in [1..n -> Tenants]
    BY <1>3
  <2> HIDE DEF s, n
  <2> QED
    BY <1>1, <2>1
<1>5. k \in 0..(n - 1)
  BY <1>1, <1>4
<1> HIDE DEF s, k, n
<1>6. SubSeq(s, k + 1, Len(s)) \in Seq(Tenants) /\ Len(SubSeq(s, k + 1, Len(s))) = n - k
  BY <1>1, <1>4, <1>5
<1>7. SubSeq(s, 1, k) \in Seq(Tenants)
  BY <1>1, <1>4, <1>5
<1> DEFINE a == SubSeq(s, k + 1, Len(s))
           b == SubSeq(s, 1, k)
<1>8. Rotated(V) = a \o b
  BY DEF Rotated, s, k
<1>9. a \in Seq(Tenants) /\ b \in Seq(Tenants) /\ Len(a) > 0
  BY <1>1, <1>5, <1>6, <1>7
<1> HIDE DEF a, b
<1> QED
  BY <1>8, <1>9

(* A tenant has one iteration at most.                                     *)
OnePerTenant == \A k, l \in tasks : k.tenant = l.tenant => k = l
(* By the pigeon-hole principle there is a gate no iteration is in.        *)
LEMMA FreshGate ==
    ASSUME JobsAssumption, tasks \subseteq Task, OnePerTenant
    PROVE  (CHOOSE g \in Gates : Fresh(g)) \in Gates
<1> SUFFICES ASSUME \A g \in Gates : ~Fresh(g) PROVE FALSE
  OBVIOUS
<1> DEFINE f == [g \in Gates |-> (CHOOSE k \in tasks : k.gate = g).tenant]
<1>1. \A g \in Gates : (CHOOSE k \in tasks : k.gate = g) \in tasks /\ (CHOOSE k \in tasks : k.gate = g).gate = g
  BY DEF Fresh
<1>2. f \in [Gates -> Tenants]
  BY <1>1 DEF Task
<1>3. IsFiniteSet(Tenants) /\ Cardinality(Tenants) \in Nat
  BY FS_CardinalityType DEF JobsAssumption
<1>4. IsFiniteSet(Gates) /\ Cardinality(Gates) = Cardinality(Tenants) + 1
  BY <1>3, FS_Interval DEF Gates
<1>5. PICK x, y \in Gates : x # y /\ f[x] = f[y]
  <2> HIDE DEF f
  <2> QED
    BY <1>2, <1>3, <1>4, FS_PigeonHole
<1> QED
  BY <1>1, <1>5 DEF OnePerTenant

(* An iteration belongs to a tenant that is in the background, or to the   *)
(* run that waits for it; a tenant in the background has one; and while    *)
(* there has been one active tenant only, nothing is in the background.    *)
(* This last part is why the plain call of run_single may do without the   *)
(* check the others make.                                                  *)
Awaited(k) == pc = "wait" /\ k.tenant \in started /\ k.gate = gate
Background(k) == k.tenant \in inflight /\ k.gate # 0
RunsKnown ==
    /\ \A k \in tasks : Background(k) \/ Awaited(k)
    /\ \A t \in inflight : \E k \in tasks : k.tenant = t
    /\ started \cap inflight = {}
RunState ==
    /\ pc # "wait" => started = {}
    /\ pc = "idle" => gate = 0
    /\ gate = 0 => todo = <<>> /\ pc # "loop"
    /\ pc = "wait" /\ gate = 0 => inflight = {}
    /\ pc = "loop" => todo # <<>>
Alone == Cardinality(active) < 2 => inflight = {} /\ gate = 0
JobsInv == JobsTypeOK /\ OnePerTenant /\ RunsKnown /\ RunState /\ Alone

(* No iteration at the start.                                              *)
LEMMA JobsBegin == JobsAssumption /\ JobsInit => JobsInv
<1> SUFFICES ASSUME JobsAssumption, JobsInit PROVE JobsInv
  OBVIOUS
<1>1. Cardinality(Tenants) \in Nat
  BY FS_CardinalityType DEF JobsAssumption
<1>2. JobsTypeOK
  BY <1>1 DEF JobsAssumption, JobsInit, JobsTypeOK
<1> QED
  BY <1>2 DEF JobsInit, JobsInv, OnePerTenant, RunsKnown, RunState, Alone

(* Sets of tenants can be counted.                                         *)
LEMMA ActiveFinite ==
    ASSUME JobsAssumption, NEW V \in SUBSET Tenants
    PROVE  /\ IsFiniteSet(V) /\ Cardinality(V) \in Nat
           /\ Cardinality(V) <= Cardinality(Tenants) /\ Cardinality(Tenants) \in Nat
BY FS_Subset, FS_CardinalityType DEF JobsAssumption

(* The rotation of the start stays within the tenants.                     *)
LEMMA OffsetType ==
    ASSUME JobsAssumption, NEW V \in SUBSET Tenants, offset \in 0..Cardinality(Tenants)
    PROVE  NextOffset(V) \in 0..Cardinality(Tenants)
<1> DEFINE c == Cardinality(V)
           n == Cardinality(Tenants)
<1>1. c \in Nat /\ n \in Nat /\ c <= n
  BY ActiveFinite
<1>2. CASE c < 2
  BY <1>2 DEF NextOffset
<1>3. CASE c >= 2
  <2>1. offset % c \in 0..(c - 1)
    BY <1>1, <1>3
  <2>2. NextOffset(V) = (offset % c) + 1
    BY <1>1, <1>3 DEF NextOffset
  <2> HIDE DEF c, n
  <2>3. (offset % c) + 1 \in 0..n
    BY <1>1, <1>3, <2>1
  <2> QED
    BY <2>2, <2>3 DEF n
<1> QED
  BY <1>1, <1>2, <1>3

(* Every step of the wrapper keeps the iterations apart.                   *)
LEMMA JobsStep == JobsAssumption /\ JobsInv /\ [JobsNext]_jobsVars => JobsInv'
<1> SUFFICES ASSUME JobsAssumption, JobsInv, [JobsNext]_jobsVars PROVE JobsInv'
  OBVIOUS
<1> USE DEF JobsInv
<1>0. /\ kind \in Kinds /\ active \in SUBSET Tenants /\ elapsed \in SUBSET Tenants
      /\ offset \in 0..Cardinality(Tenants) /\ offset \in Nat
      /\ pc \in {"idle", "loop", "wait"} /\ started \in SUBSET Tenants /\ todo \in Seq(Tenants)
      /\ gate \in Gates \cup {0} /\ tasks \in SUBSET Task /\ inflight \in SUBSET Tenants
  BY ActiveFinite DEF JobsTypeOK
<1>00. 0 \notin Gates /\ 1 \in Gates /\ Cardinality(active) \in Nat
  BY <1>0, ActiveFinite DEF Gates
<1>1. ASSUME NEW t \in Tenants, RunSingle(t) PROVE JobsInv'
  <2>1. Cardinality(active) = 1 /\ pc = "idle"
    BY <1>1, FS_Singleton DEF RunSingle
  <2>2. tasks = {} /\ inflight = {} /\ todo = <<>>
    BY <2>1 DEF Alone, RunsKnown, RunState, Background, Awaited
  <2> DEFINE k == [tenant |-> t, gate |-> 0, runs |-> TRUE]
  <2>3. tasks' = {k} /\ k \in Task
    BY <1>1, <2>2 DEF RunSingle, Task
  <2>4. /\ started' = {t} /\ gate' = 0 /\ pc' = "wait" /\ inflight' = {} /\ todo' = <<>>
        /\ active' = active /\ kind' = kind /\ offset' = offset /\ elapsed' \in SUBSET Tenants
    BY <1>0, <1>1, <2>2 DEF RunSingle
  <2>5. JobsTypeOK'
    BY <1>0, <2>3, <2>4 DEF JobsTypeOK
  <2>6. OnePerTenant' /\ RunsKnown'
    BY <2>3, <2>4 DEF OnePerTenant, RunsKnown, Background, Awaited
  <2> QED
    BY <2>4, <2>5, <2>6 DEF RunState, Alone
<1>2. CASE RunFleet
  <2> DEFINE due == active \cap elapsed
  <2>1. /\ pc = "idle" /\ Cardinality(active) > 1 /\ started' = due \ inflight
        /\ kind' = kind /\ active' = active /\ todo' = todo /\ inflight' = inflight
        /\ elapsed' \in SUBSET Tenants /\ offset' = NextOffset(due)
        /\ tasks' = tasks \cup NewTasks(started')
    BY <1>0, <1>2 DEF RunFleet
  <2>2. offset' \in 0..Cardinality(Tenants)
    BY <1>0, <2>1, OffsetType
  <2>3. \A k \in tasks : Background(k)
    BY <2>1 DEF RunsKnown, Awaited
  <2>4. CASE started' = {}
    <3>1. tasks' = tasks /\ gate' = gate /\ pc' = pc
      BY <1>2, <2>1, <2>4 DEF RunFleet, NewTasks
    <3> QED
      BY <1>0, <2>1, <2>2, <2>3, <2>4, <3>1
         DEF JobsTypeOK, OnePerTenant, RunsKnown, RunState, Alone, Background, Awaited
  <2>5. CASE started' # {}
    <3>1. gate' = (CHOOSE g \in Gates : Fresh(g)) /\ pc' = "wait"
      BY <1>2, <2>5 DEF RunFleet
    <3>2. gate' \in Gates /\ gate' # 0
      BY <1>0, <1>00, <3>1, FreshGate
    <3>3. \A k \in tasks' : k \in tasks \/ (k.tenant \in started' /\ k.gate = gate' /\ k = [tenant |-> k.tenant, gate |-> gate', runs |-> FALSE])
      BY <2>1 DEF NewTasks
    <3>4. tasks' \in SUBSET Task
      <4>1. \A x \in started' : [tenant |-> x, gate |-> gate', runs |-> FALSE] \in Task
        BY <1>0, <2>1, <3>2 DEF Task
      <4> QED
        BY <1>0, <2>1, <4>1 DEF NewTasks
    <3>5. JobsTypeOK'
      BY <1>0, <2>1, <2>2, <3>1, <3>2, <3>4 DEF JobsTypeOK
    <3>6. OnePerTenant'
      <4> SUFFICES ASSUME NEW k \in tasks', NEW l \in tasks', k.tenant = l.tenant PROVE k = l
        BY DEF OnePerTenant
      <4>1. CASE k \in tasks
        BY <2>1, <2>3, <3>3, <4>1 DEF OnePerTenant, Background
      <4>2. CASE k \notin tasks
        BY <2>1, <2>3, <3>3, <4>2 DEF OnePerTenant, Background
      <4> QED
        BY <4>1, <4>2
    <3>7. RunsKnown'
      BY <2>1, <2>3, <3>1, <3>3 DEF RunsKnown, Background, Awaited
    <3> QED
      BY <1>00, <2>1, <3>1, <3>2, <3>5, <3>6, <3>7 DEF RunState, Alone
  <2> QED
    BY <2>4, <2>5
<1>3. CASE RunForTenants
  <2>1. /\ pc = "idle" /\ Cardinality(active) > 1 /\ pc' = "loop" /\ gate' = 1
        /\ todo' = Rotated(active) /\ offset' = NextOffset(active)
        /\ kind' = kind /\ active' = active /\ elapsed' = elapsed /\ started' = started
        /\ tasks' = tasks /\ inflight' = inflight
    BY <1>3 DEF RunForTenants
  <2>2. todo' \in Seq(Tenants) /\ todo' # <<>>
    BY <1>0, <2>1, RotatedFacts
  <2>3. offset' \in 0..Cardinality(Tenants)
    BY <1>0, <2>1, OffsetType
  <2>4. JobsTypeOK'
    BY <1>0, <1>00, <2>1, <2>2, <2>3 DEF JobsTypeOK
  <2> QED
    BY <1>00, <2>1, <2>2, <2>4
       DEF OnePerTenant, RunsKnown, RunState, Alone, Background, Awaited
<1>4. CASE Skip
  <2>1. /\ pc = "loop" /\ todo # <<>> /\ gate # 0
        /\ kind' = kind /\ active' = active /\ elapsed' = elapsed /\ started' = started
        /\ offset' = offset /\ tasks' = tasks /\ inflight' = inflight
        /\ todo' = Tail(todo) /\ Finish
    BY <1>4 DEF Skip, RunState
  <2>2. todo' \in Seq(Tenants)
    BY <1>0, <2>1
  <2>3. \/ todo' = <<>> /\ pc' = "idle" /\ gate' = 0
        \/ todo' # <<>> /\ pc' = "loop" /\ gate' = gate
    BY <2>1 DEF Finish
  <2> QED
    BY <1>0, <2>1, <2>2, <2>3
       DEF JobsTypeOK, OnePerTenant, RunsKnown, RunState, Alone, Background, Awaited
<1>5. CASE StartTask
  <2> DEFINE t == Head(todo)
             k == [tenant |-> t, gate |-> gate, runs |-> TRUE]
  <2>1. /\ pc = "loop" /\ todo # <<>> /\ gate # 0 /\ t \notin inflight
        /\ kind' = kind /\ active' = active /\ elapsed' = elapsed /\ started' = {t}
        /\ offset' = offset /\ tasks' = tasks \cup {k} /\ inflight' = inflight
        /\ todo' = Tail(todo) /\ gate' = gate /\ pc' = "wait"
    BY <1>5 DEF StartTask, RunState
  <2>2. todo' \in Seq(Tenants) /\ t \in Tenants
    BY <1>0, <2>1
  <2>3. k \in Task /\ k.tenant = t /\ k.gate = gate
    BY <1>0, <2>2 DEF Task
  <2>4. \A l \in tasks : Background(l)
    BY <2>1 DEF RunsKnown, Awaited
  <2> HIDE DEF t, k
  <2>5. JobsTypeOK'
    BY <1>0, <2>1, <2>2, <2>3 DEF JobsTypeOK
  <2>6. OnePerTenant' /\ RunsKnown'
    BY <2>1, <2>3, <2>4 DEF OnePerTenant, RunsKnown, Background, Awaited
  <2> QED
    BY <2>1, <2>5, <2>6 DEF RunState, Alone
<1>6. CASE WaitEnds
  <2>1. /\ pc = "wait" /\ (gate = 0 => Pending = {})
        /\ kind' = kind /\ active' = active /\ elapsed' = elapsed /\ started' = {}
        /\ offset' = offset /\ tasks' = tasks /\ inflight' = inflight \cup Pending
        /\ todo' = todo /\ Finish
    BY <1>6 DEF WaitEnds
  <2>2. \/ todo' = <<>> /\ pc' = "idle" /\ gate' = 0
        \/ todo' # <<>> /\ pc' = "loop" /\ gate' = gate
    BY <2>1 DEF Finish
  <2>3. Pending \subseteq started /\ \A t \in Pending : \E k \in tasks : k.tenant = t
    BY DEF Pending
  <2>4. JobsTypeOK'
    BY <1>0, <2>1, <2>2, <2>3 DEF JobsTypeOK
  <2>5. \A k \in tasks : k.tenant \in inflight' /\ k.gate # 0
    <3> SUFFICES ASSUME NEW k \in tasks PROVE k.tenant \in inflight' /\ k.gate # 0
      OBVIOUS
    <3>1. CASE Awaited(k)
      <4>1. k.tenant \in Pending
        BY <3>1 DEF Awaited, Pending
      <4> QED
        BY <2>1, <3>1, <4>1 DEF Awaited
    <3>2. CASE Background(k)
      BY <2>1, <3>2 DEF Background
    <3> QED
      BY <3>1, <3>2 DEF RunsKnown
  <2>6. RunsKnown' /\ OnePerTenant'
    BY <2>1, <2>3, <2>5 DEF RunsKnown, OnePerTenant, Background
  <2>7. Alone'
    BY <2>1, <2>2 DEF Alone
  <2> QED
    BY <2>1, <2>2, <2>4, <2>6, <2>7 DEF RunState
<1>7. ASSUME NEW t \in Tenants, Enter(t) PROVE JobsInv'
  <2>1. PICK k \in tasks : tasks' = (tasks \ {k}) \cup {[k EXCEPT !.runs = TRUE]}
    BY <1>7 DEF Enter
  <2> DEFINE l == [k EXCEPT !.runs = TRUE]
  <2>2. l \in Task /\ l.tenant = k.tenant /\ l.gate = k.gate
    BY <1>0 DEF Task
  <2>3. /\ kind' = kind /\ active' = active /\ elapsed' = elapsed /\ started' = started
        /\ offset' = offset /\ inflight' = inflight /\ todo' = todo /\ gate' = gate /\ pc' = pc
    BY <1>7 DEF Enter
  <2>4. tasks' = (tasks \ {k}) \cup {l}
    BY <2>1
  <2> HIDE DEF l
  <2>5. JobsTypeOK'
    BY <1>0, <2>2, <2>3, <2>4 DEF JobsTypeOK
  <2>6. OnePerTenant'
    BY <2>2, <2>4 DEF OnePerTenant
  <2>7. RunsKnown'
    BY <2>2, <2>3, <2>4 DEF RunsKnown, Background, Awaited
  <2> QED
    BY <2>3, <2>5, <2>6, <2>7 DEF RunState, Alone
<1>8. ASSUME NEW t \in Tenants, End(t) PROVE JobsInv'
  <2>1. PICK k \in tasks : /\ k.tenant = t /\ tasks' = tasks \ {k}
                           /\ inflight' = IF k.gate = 0 THEN inflight ELSE inflight \ {t}
    BY <1>8 DEF End, Running
  <2>2. /\ kind' = kind /\ active' = active /\ elapsed' = elapsed /\ started' = started
        /\ offset' = offset /\ todo' = todo /\ gate' = gate /\ pc' = pc
    BY <1>8 DEF End
  <2>3. k.gate = 0 => inflight = {}
    BY DEF RunsKnown, RunState, Background, Awaited
  <2>4. inflight' = inflight \ {t}
    BY <2>1, <2>3
  <2>5. JobsTypeOK'
    BY <1>0, <2>1, <2>2, <2>4 DEF JobsTypeOK
  <2>6. OnePerTenant'
    BY <2>1 DEF OnePerTenant
  <2>7. RunsKnown'
    BY <2>1, <2>2, <2>4 DEF RunsKnown, OnePerTenant, Background, Awaited
  <2> QED
    BY <2>2, <2>4, <2>5, <2>6, <2>7 DEF RunState, Alone
<1>9. ASSUME NEW t \in Tenants, Suspended(t) \/ Activated(t) PROVE JobsInv'
  <2>1. /\ kind' = kind /\ elapsed' = elapsed /\ started' = started /\ tasks' = tasks
        /\ offset' = offset /\ inflight' = inflight /\ todo' = todo /\ gate' = gate /\ pc' = pc
        /\ active' \in SUBSET Tenants
    BY <1>0, <1>9 DEF Suspended, Activated
  <2>2. Cardinality(active') < 2 => Cardinality(active) < 2
    <3>0. IsFiniteSet(active) /\ Cardinality(active) \in Nat /\ MinActive \in Nat /\ MinActive >= 2
      BY <1>0, ActiveFinite DEF JobsAssumption
    <3>1. CASE Suspended(t)
      <4>1. Cardinality(active') = Cardinality(active) - 1 /\ Cardinality(active) > MinActive
        BY <3>0, <3>1, FS_RemoveElement DEF Suspended
      <4> QED
        BY <3>0, <4>1
    <3>2. CASE Activated(t)
      <4>1. Cardinality(active') = Cardinality(active) + 1
        BY <3>0, <3>2, FS_AddElement DEF Activated
      <4> QED
        BY <3>0, <4>1
    <3> QED
      BY <1>9, <3>1, <3>2
  <2> QED
    BY <1>0, <2>1, <2>2
       DEF JobsTypeOK, OnePerTenant, RunsKnown, RunState, Alone, Background, Awaited
<1>10. ASSUME NEW t \in Tenants, Elapse(t) PROVE JobsInv'
  <2>1. /\ kind' = kind /\ active' = active /\ elapsed' \in SUBSET Tenants /\ started' = started
        /\ tasks' = tasks /\ offset' = offset /\ inflight' = inflight /\ todo' = todo
        /\ gate' = gate /\ pc' = pc
    BY <1>0, <1>10 DEF Elapse
  <2> QED
    BY <1>0, <2>1 DEF JobsTypeOK, OnePerTenant, RunsKnown, RunState, Alone, Background, Awaited
<1>11. CASE UNCHANGED jobsVars
  BY <1>11 DEF jobsVars, JobsTypeOK, OnePerTenant, RunsKnown, RunState, Alone, Background, Awaited
<1> QED
  BY <1>1, <1>2, <1>3, <1>4, <1>5, <1>6, <1>7, <1>8, <1>9, <1>10, <1>11 DEF JobsNext, Job

(* The job keeps its records well formed.                                  *)
THEOREM JobsTypeCorrect == ASSUME JobsAssumption PROVE JobsSpec => []JobsTypeOK
<1>1. JobsInv => JobsTypeOK
  BY DEF JobsInv
<1> QED
  BY <1>1, JobsBegin, JobsStep, PTL DEF JobsSpec

(* Iterations of a job stay apart, however many tenants there are, however *)
(* budgets run out and whenever tenants come and go.                       *)
THEOREM IterationsApart == ASSUME JobsAssumption PROVE JobsSpec => []JobsApart
<1>1. JobsInv => JobsApart
  <2> SUFFICES ASSUME JobsInv PROVE JobsApart
    OBVIOUS
  <2>1. ASSUME NEW t \in Tenants PROVE Cardinality({k \in tasks : k.tenant = t}) <= 1
    <3> DEFINE K == {k \in tasks : k.tenant = t}
    <3>1. CASE K = {}
      BY <3>1, FS_EmptySet
    <3>2. CASE K # {}
      <4>1. PICK k : K = {k}
        BY <3>2 DEF JobsInv, OnePerTenant
      <4> QED
        BY <4>1, FS_Singleton
    <3> QED
      BY <3>1, <3>2
  <2> QED
    BY <2>1 DEF JobsInv, RunsKnown, JobsApart, NoOverlap, InflightIsPending
<1> QED
  BY <1>1, JobsBegin, JobsStep, PTL DEF JobsSpec

-----------------------------------------------------------------------------
(* A set of numbers below a bound has a greatest one.                      *)
LEMMA GreatestBelow ==
    ASSUME NEW n \in Nat, NEW T \in SUBSET (1..n), T # {}
    PROVE  \E g \in T : \A h \in T : h <= g
<1> DEFINE far == {n - k : k \in T}
<1>1. far \in SUBSET Nat /\ far # {}
  <2>1. \A k \in T : n - k \in Nat
    OBVIOUS
  <2> QED BY <2>1
<1>2. PICK m \in far : \A k \in far : m <= k
  BY <1>1, LeastNat
<1>3. PICK j \in T : m = n - j
  BY <1>2
<1>4. \A i \in T : i <= j
  <2> TAKE i \in T
  <2>1. n - i \in far
    OBVIOUS
  <2>2. m <= n - i
    BY <1>2, <2>1
  <2>3. i \in 1..n /\ j \in 1..n
    BY <1>3
  <2> QED BY <1>3, <2>2, <2>3
<1> QED BY <1>3, <1>4

-----------------------------------------------------------------------------
(***************************************************************************)
(* The purge of a tenant.  A deletion that is due was committed with       *)
(* nobody at work on the tenant and stays so, as whoever comes later reads *)
(* "deleting" (DueAlone); a purge that has started can be cancelled by     *)
(* nobody (StartedInv); and what the purge has behind it is done           *)
(* (PurgeInv).                                                             *)
(***************************************************************************)
Asked == [action : C!Actions \cup {"none"}, status : {"active", "suspended", "deleting", "gone"}, started : BOOLEAN]
LifeTypes ==
    /\ C!LifeTypeOK /\ req \in [Deletions -> Asked]
    /\ \A r \in Deletions : req[r].action = "none" => req[r] = C!NoRequest

DueAlone ==
    status = "deleting" /\ after = "past" =>
        ~job /\ \A r \in Deletions : req[r] = C!NoRequest \/ req[r].status = "deleting"

StartedInv ==
    /\ ~life_started => /\ keys = "live" /\ {"postgres", "identities"} \subseteq rows
                        /\ ~shred /\ life_pc \in {"idle", "mark"} /\ status # "gone"
    /\ life_started => /\ status \in {"deleting", "gone"}
                       /\ status = "deleting" => after = "past"
                       /\ \A r \in Deletions : req[r] = C!NoRequest \/ (req[r].status = "deleting" /\ req[r].started)

PurgeInv ==
    /\ status \in {"deleting", "gone"} => ~cancelled
    /\ life_pc # "idle" => status = "deleting" /\ after = "past"
    /\ life_pc = "mark" => \A r \in Deletions : req[r] = C!NoRequest
    /\ shred \/ life_pc \in C!Stores \cup {"saved", "row"} => keys = "destroyed"
    /\ ~({"postgres", "identities"} \subseteq rows) => keys = "destroyed"
    /\ life_pc \in {"postgres", "identities", "row"} => "clickhouse" \notin rows
    /\ life_pc \in {"identities", "row"} => "postgres" \notin rows
    /\ life_pc = "row" => "identities" \notin rows
    /\ status = "gone" => rows = {} /\ keys = "destroyed" /\ ~job

LifeInv == LifeTypes /\ DueAlone /\ StartedInv /\ PurgeInv

(* The invariant of the purge holds at the start.                          *)
LEMMA LifeStart == ASSUME C!LifeInit PROVE LifeInv
  BY DEF C!LifeInit, LifeInv, LifeTypes, DueAlone, StartedInv, PurgeInv, C!LifeTypeOK, C!NoRequest, C!Stores, C!Actions, Asked

(* A route that commits: it may not, once the purge has started, or        *)
(* nothing has begun.                                                      *)
LEMMA RespondKeeps ==
    ASSUME LifeInv, NEW r \in Deletions, C!Respond(r) PROVE LifeInv'
<1> DEFINE q == req[r]
<1> USE DEF LifeInv, C!NoRequest, C!Actions, C!Stores, C!purge
<1>1. /\ q # C!NoRequest /\ q.action \in C!Actions
      /\ q.status \in {"active", "suspended", "deleting", "gone"} /\ q.started \in BOOLEAN
      /\ req' = [req EXCEPT ![r] = C!NoRequest]
      /\ UNCHANGED <<life_started, rows, job, requests, shred, keys, life_pc, failures>>
  BY DEF C!Respond, LifeTypes, Asked
<1>4. /\ req' \in [Deletions -> Asked]
      /\ \A s \in Deletions : req'[s].action \in C!Actions \cup {"none"}
      /\ \A s \in Deletions : req'[s].action = "none" => req'[s] = C!NoRequest
  <2>1. C!NoRequest \in Asked
    BY DEF Asked
  <2> QED BY <1>1, <2>1 DEF LifeTypes, C!LifeTypeOK
<1>2. CASE C!Allowed(q) /\ status # "gone"
  <2>1. ~life_started
    BY <1>1, <1>2 DEF C!Allowed, StartedInv
  <2>2. /\ status' = CASE q.action \in {"suspend", "cancel"} -> "suspended"
                       [] q.action = "resume" -> "active"
                       [] q.action = "delete" -> "deleting"
        /\ after' = CASE q.action = "delete" -> "future"
                      [] q.action = "cancel" -> "none"
                      [] OTHER -> after
        /\ cancelled' = CASE q.action = "cancel" -> TRUE
                          [] q.action = "delete" -> FALSE
                          [] OTHER -> cancelled
    BY <1>2 DEF C!Respond
  <2>3. life_pc = "idle" 
    BY <1>1, <1>2, <2>1 DEF StartedInv, PurgeInv
  <2>4. /\ status' \in {"active", "suspended", "deleting"}
        /\ status' = "deleting" => after' = "future" /\ ~cancelled'
        /\ after' \in {"none", "future", "past"} /\ cancelled' \in BOOLEAN
    BY <1>1, <2>2 DEF LifeTypes, C!LifeTypeOK
  <2>5. LifeTypes'
    BY <1>1, <1>4, <2>4 DEF LifeTypes, C!LifeTypeOK
  <2> QED BY <1>1, <2>1, <2>3, <2>4, <2>5 DEF DueAlone, StartedInv, PurgeInv
<1>3. CASE ~(C!Allowed(q) /\ status # "gone")
  <2>1. UNCHANGED <<status, after, cancelled>>
    BY <1>3 DEF C!Respond
  <2>2. LifeTypes'
    BY <1>1, <1>4, <2>1 DEF LifeTypes, C!LifeTypeOK
  <2> QED BY <1>1, <2>1, <2>2 DEF DueAlone, StartedInv, PurgeInv
<1> QED BY <1>2, <1>3

(* The invariant of the purge is kept, unless requests span its start.     *)
LEMMA LifeStep == ASSUME ~Overlap, LifeInv, C!LifeNext \/ UNCHANGED lifeVars PROVE LifeInv'
<1> USE DEF LifeInv, C!NoRequest, C!Actions, C!Stores, C!purge, C!tenant
<1>1. ASSUME NEW r \in Deletions, C!Respond(r) PROVE LifeInv'
  BY <1>1, RespondKeeps
<1>2. ASSUME NEW r \in Deletions, NEW a \in C!Actions, C!Request(r, a) PROVE LifeInv'
  <2> DEFINE asked == [action |-> a, status |-> status, started |-> life_started]
  <2>2. asked \in Asked /\ asked.action # "none" /\ asked.action \in C!Actions /\ req' = [req EXCEPT ![r] = asked]
    BY <1>2 DEF C!Request, Asked, LifeTypes, C!LifeTypeOK
  <2> HIDE DEF asked
  <2>3. /\ req' \in [Deletions -> Asked]
        /\ \A s \in Deletions : req'[s].action \in C!Actions \cup {"none"}
        /\ \A s \in Deletions : req'[s].action = "none" => req'[s] = C!NoRequest
    BY <2>2 DEF LifeTypes, C!LifeTypeOK
  <2>1. LifeTypes'
    BY <1>2, <2>3 DEF C!Request, LifeTypes, C!LifeTypeOK
  <2> QED BY <1>2, <2>1 DEF C!Request, DueAlone, StartedInv, PurgeInv, LifeTypes, C!LifeTypeOK
<1>3. CASE C!JobLists
  BY <1>3 DEF C!JobLists, LifeTypes, DueAlone, StartedInv, PurgeInv, C!LifeTypeOK
<1>4. CASE C!JobWrites
  BY <1>4 DEF C!JobWrites, LifeTypes, DueAlone, StartedInv, PurgeInv, C!LifeTypeOK
<1>5. CASE C!GraceOver
  BY <1>5 DEF C!GraceOver, LifeTypes, DueAlone, StartedInv, PurgeInv, C!LifeTypeOK
<1>6. CASE C!PurgeRead
  BY <1>6 DEF C!PurgeRead, C!Due, LifeTypes, DueAlone, StartedInv, PurgeInv, C!LifeTypeOK
<1>7. CASE C!PurgeMark
  BY <1>7 DEF C!PurgeMark, LifeTypes, DueAlone, StartedInv, PurgeInv, C!LifeTypeOK
<1>8. CASE C!Shred
  BY <1>8 DEF C!Shred, LifeTypes, DueAlone, StartedInv, PurgeInv, C!LifeTypeOK
<1>9. CASE C!SaveShred
  BY <1>9 DEF C!SaveShred, LifeTypes, DueAlone, StartedInv, PurgeInv, C!LifeTypeOK
<1>10. CASE C!PurgeRow
  BY <1>10 DEF C!PurgeRow, LifeTypes, DueAlone, StartedInv, PurgeInv, C!LifeTypeOK
<1>11. ASSUME NEW store \in C!Stores, C!PurgeStore(store) PROVE LifeInv'
  BY <1>11 DEF C!PurgeStore, C!After, LifeTypes, DueAlone, StartedInv, PurgeInv, C!LifeTypeOK
<1>12. CASE C!PurgeFails
  BY <1>12 DEF C!PurgeFails, LifeTypes, DueAlone, StartedInv, PurgeInv, C!LifeTypeOK
<1>13. CASE C!Rests \/ UNCHANGED lifeVars
  <2>1. UNCHANGED lifeVars
    BY <1>13 DEF C!Rests, C!lifeVars, lifeVars
  <2>2. LifeTypes' = LifeTypes
    BY <2>1 DEF lifeVars, LifeTypes, C!LifeTypeOK
  <2> QED BY <2>1, <2>2 DEF lifeVars, DueAlone, StartedInv, PurgeInv
<1> QED
  BY <1>1, <1>2, <1>3, <1>4, <1>5, <1>6, <1>7, <1>8, <1>9, <1>10, <1>11, <1>12, <1>13 DEF C!LifeNext, C!Purge

(* What the invariant of the purge says of the tenant.                     *)
LEMMA LifeSafe == ASSUME LifeInv PROVE C!LifeTypeOK /\ C!CancelledIsKept /\ C!ShredFirst /\ C!NothingLeft
  BY DEF LifeInv, LifeTypes, StartedInv, PurgeInv, C!CancelledIsKept, C!ShredFirst, C!NothingLeft, C!LifeTypeOK

-----------------------------------------------------------------------------
(***************************************************************************)
(* The data keys of a tenant.  A transaction has a key of its own that     *)
(* nobody else sees, and knows keys that are still there (TxKeys); while   *)
(* the keys are being destroyed nobody else is at work (DestroysAlone);    *)
(* and only the previous backend writes under the installation key, so     *)
(* what a pass has found moved stays moved (LegacyDone).                   *)
(***************************************************************************)
Known(ks, k) == ks[k] \in {"live", "retired"}
TxRec == [pc : {"idle", "encrypt", "commit", "read", "flush", "retire", "destroy", "locks"},
          memo : [C!Keys -> C!Status], made : 0..MaxKey, read : C!Value, wrote : C!Value,
          rows : SUBSET C!Keys, mark : {"none", "retired", "destroyed"}, late : BOOLEAN]

KeysTypes ==
    /\ C!KeysTypeOK /\ tx \in [C!Txs -> TxRec]
    /\ oldBackend \in BOOLEAN /\ shredded \in BOOLEAN /\ moved \in BOOLEAN

(* Where transaction p can be, and what it has done by then.               *)
TxPhase(p, t) ==
    /\ t.pc = "idle" => t = C!Idle
    /\ p \in Writers => t.pc \in {"idle", "encrypt", "commit"} /\ t.rows = {}
    /\ p = "rotate" =>
         /\ t.pc \in {"idle", "read", "flush", "retire", "commit"} /\ (t.pc # "idle" => t.made # 0)
         /\ t.pc # "commit" => t.rows = {}
         /\ t.rows # {} => t.mark = "retired"
    /\ p = "upgrade" => t.pc \in {"idle", "read", "flush", "commit"} /\ t.rows = {}
    /\ p = "destroy" =>
         /\ t.pc \in {"idle", "read", "flush", "destroy", "locks"}
         /\ t.pc # "locks" => t.rows = {}
         /\ t.pc = "locks" => t.mark = "destroyed" /\ t.rows = {k \in C!Keys : Known(key, k) \/ k = t.made}
    /\ p \in {"upgrade", "destroy"} /\ t.pc = "read" => t.made = 0 /\ t.wrote = C!None /\ t.rows = {}
    /\ p \in {"upgrade", "destroy"} /\ t.pc = "flush" => C!Live(t.memo) # {} /\ C!Legacy(t.read)
    /\ t.pc = "encrypt" => C!Live(t.memo) # {}

(* The keys transaction p knows, has made and is about to change.          *)
TxKeys(p, t) ==
    /\ (t.made # 0 => key[t.made] = "none")
    /\ \A k \in t.rows : Known(key, k) \/ (p = "destroy" /\ k = t.made)
    /\ \A k \in C!Keys : Known(t.memo, k) => Known(key, k) \/ k = t.made
    /\ ~shredded => \A k \in C!Keys : t.memo[k] # "destroyed"
    /\ t.wrote # C!None => /\ t.wrote.val # 0 /\ t.wrote.key \in C!Keys
                           /\ t.wrote.key = t.made \/ Known(key, t.wrote.key)
    /\ shredded => t.made = 0 /\ t.wrote = C!None /\ t.rows = {} /\ \A k \in C!Keys : t.memo[k] = "none"

OwnKeys ==
    /\ \A p \in C!Txs : tx[p].made <= last
    /\ \A p, q \in C!Txs : p # q /\ tx[p].made # 0 => tx[p].made # tx[q].made

DestroysAlone ==
    "destroy" \in Operators /\ tx["destroy"].pc # "idle" =>
        ~oldBackend /\ ~shredded /\ \A q \in C!Txs \ {"destroy"} : tx[q].pc = "idle"

TxLegacy(p, t) ==
    /\ t.late => ~oldBackend
    /\ p = "upgrade" /\ t.pc = "commit" /\ t.late /\ t.wrote = C!None => ~C!Legacy(secret)
    /\ p = "destroy" /\ t.pc \in {"destroy", "locks"} /\ t.wrote = C!None => ~C!Legacy(secret)
LegacyDone ==
    /\ moved => ~oldBackend /\ ~C!Legacy(secret)
    /\ \A p \in C!Txs : TxLegacy(p, tx[p])

Committed ==
    /\ \A k \in C!Keys : k > last => key[k] = "none"
    /\ ~shredded => \A k \in C!Keys : key[k] # "destroyed"
    /\ shredded => ~oldBackend
    /\ C!SecretsOpen /\ C!Shredded

KeysInv ==
    /\ KeysTypes /\ OwnKeys /\ DestroysAlone /\ LegacyDone /\ Committed
    /\ \A p \in C!Txs : TxPhase(p, tx[p]) /\ TxKeys(p, tx[p])

(* The newest of some keys.                                                *)
LEMMA ActiveIsLive ==
    ASSUME MaxKey \in Nat, NEW ks, C!Live(ks) # {}
    PROVE  C!Active(ks) \in C!Keys /\ ks[C!Active(ks)] = "live"
<1>1. C!Live(ks) \in SUBSET (1..MaxKey)
  BY DEF C!Live, C!Keys
<1>2. C!Active(ks) \in C!Live(ks)
  BY <1>1, GreatestBelow DEF C!Active
<1> QED BY <1>2 DEF C!Live

(* The invariant of the keys holds at the start.                           *)
LEMMA KeysStart == ASSUME C!KeysAssumption, C!KeysInit PROVE KeysInv
<1> USE DEF C!KeysInit, C!KeysAssumption
<1>1. C!None \in C!Value /\ C!Empty(C!None)
  BY DEF C!None, C!Value, C!Empty
<1>2. C!Idle \in TxRec
  BY <1>1 DEF C!Idle, TxRec, C!Status
<1>3. tx = [p \in C!Txs |-> C!Idle] /\ \A p \in C!Txs : tx[p] = C!Idle
  OBVIOUS
<1>4. KeysTypes
  <2>1. \A p \in C!Txs : tx[p].read \in C!Value /\ tx[p].wrote \in C!Value
    BY <1>1, <1>3 DEF C!Idle
  <2>2. key \in [C!Keys -> C!Status] /\ secret \in C!Value
    BY <1>1 DEF C!Status
  <2>3. tx \in [C!Txs -> TxRec]
    BY <1>2, <1>3
  <2>4. last \in 0..MaxKey /\ writes \in 0..MaxWrite /\ latest \in 0..MaxWrite
    OBVIOUS
  <2>5. oldBackend \in BOOLEAN /\ shredded \in BOOLEAN /\ moved \in BOOLEAN
    OBVIOUS
  <2> QED BY <2>1, <2>2, <2>3, <2>4, <2>5 DEF KeysTypes, C!KeysTypeOK
<1>5. \A p \in C!Txs : TxPhase(p, tx[p]) /\ TxKeys(p, tx[p]) /\ TxLegacy(p, tx[p])
  BY <1>3 DEF TxPhase, TxKeys, TxLegacy, C!Idle, Known, C!Keys
<1>6. OwnKeys /\ DestroysAlone
  BY <1>3 DEF OwnKeys, DestroysAlone, C!Idle, C!Txs
<1>7. LegacyDone
  BY <1>5 DEF LegacyDone
<1>8. Committed
  BY <1>1 DEF Committed, C!SecretsOpen, C!Shredded, C!Keys
<1> QED BY <1>4, <1>5, <1>6, <1>7, <1>8 DEF KeysInv

(* A step inside one transaction: what the others rely on is untouched.    *)
LEMMA LocalStep ==
    ASSUME C!KeysAssumption, KeysInv, NEW p \in C!Txs, NEW t \in TxRec,
           tx' = [tx EXCEPT ![p] = t],
           UNCHANGED <<key, secret, oldBackend, latest, shredded, moved>>,
           last' \in last..MaxKey, writes' \in 0..MaxWrite,
           t.made \in {0, tx[p].made} \/ (t.made > last /\ t.made <= last'),
           TxPhase(p, t), TxKeys(p, t), TxLegacy(p, t),
           t.pc # "idle" /\ p = "destroy" =>
               ~oldBackend /\ ~shredded /\ \A q \in C!Txs \ {"destroy"} : tx[q].pc = "idle",
           t.pc # "idle" /\ p # "destroy" => ("destroy" \in Operators => tx["destroy"].pc = "idle")
    PROVE  KeysInv'
<1>1. tx' \in [C!Txs -> TxRec] /\ tx'[p] = t /\ \A q \in C!Txs : q # p => tx'[q] = tx[q]
  BY DEF KeysInv, KeysTypes
<1>2. KeysTypes'
  <2>1. \A q \in C!Txs : tx'[q].read \in C!Value /\ tx'[q].wrote \in C!Value
    BY <1>1 DEF TxRec
  <2>2. last' \in 0..MaxKey
    BY DEF KeysInv, KeysTypes, C!KeysTypeOK, C!KeysAssumption
  <2>3. oldBackend' \in BOOLEAN /\ shredded' \in BOOLEAN /\ moved' \in BOOLEAN /\ key' \in [C!Keys -> C!Status] /\ secret' \in C!Value
        /\ latest' \in 0..MaxWrite
    BY DEF KeysInv, KeysTypes, C!KeysTypeOK
  <2> QED BY <1>1, <2>1, <2>2, <2>3 DEF KeysTypes, C!KeysTypeOK
<1>3. (\A q \in C!Txs : TxPhase(q, tx[q]) /\ TxKeys(q, tx[q]) /\ TxLegacy(q, tx[q]))'
  <2> SUFFICES ASSUME NEW q \in C!Txs PROVE (TxPhase(q, tx[q]) /\ TxKeys(q, tx[q]) /\ TxLegacy(q, tx[q]))'
    BY DEF C!Txs
  <2>1. TxPhase(q, tx'[q]) /\ TxKeys(q, tx'[q]) /\ TxLegacy(q, tx'[q])
    BY <1>1 DEF KeysInv, LegacyDone
  <2>2. TxPhase(q, tx[q])'
    BY <2>1 DEF TxPhase, Known
  <2>3. TxKeys(q, tx[q])'
    BY <2>1 DEF TxKeys, Known
  <2>4. TxLegacy(q, tx[q])'
    BY <2>1 DEF TxLegacy
  <2> QED BY <2>2, <2>3, <2>4
<1>4. OwnKeys'
  <2>1. \A q \in C!Txs : tx[q].made <= last /\ tx[q].made \in 0..MaxKey /\ tx'[q].made \in 0..MaxKey
    BY <1>1 DEF KeysInv, OwnKeys, KeysTypes, TxRec
  <2>2. last \in 0..MaxKey /\ last' >= last
    BY DEF KeysInv, KeysTypes, C!KeysTypeOK
  <2> QED BY <1>1, <2>1, <2>2 DEF OwnKeys, KeysInv, C!KeysAssumption
<1>5. DestroysAlone'
  BY <1>1 DEF DestroysAlone, KeysInv, C!Txs
<1>6. LegacyDone'
  BY <1>3 DEF LegacyDone, KeysInv
<1>7. Committed'
  BY DEF Committed, KeysInv, KeysTypes, C!KeysTypeOK, C!SecretsOpen, C!Shredded, C!Keys, C!KeysAssumption
<1> QED BY <1>2, <1>3, <1>4, <1>5, <1>6, <1>7 DEF KeysInv

(* A transaction that has not begun.                                       *)
LEMMA IdleFacts == ASSUME C!KeysAssumption PROVE
    /\ C!None \in C!Value /\ C!Empty(C!None) /\ C!Idle \in TxRec
    /\ C!Idle.pc = "idle" /\ C!Idle.made = 0 /\ C!Idle.wrote = C!None /\ C!Idle.read = C!None /\ C!Idle.rows = {}
    /\ C!Idle.late = FALSE /\ C!Idle.mark = "none" /\ \A k \in C!Keys : C!Idle.memo[k] = "none"
<1>1. C!None \in C!Value /\ C!Empty(C!None)
  BY DEF C!None, C!Value, C!Empty, C!KeysAssumption
<1>2. C!Idle \in TxRec
  BY <1>1 DEF C!Idle, TxRec, C!Status, C!KeysAssumption
<1> QED BY <1>1, <1>2 DEF C!Idle

(* What the invariant says of one transaction.                             *)
LEMMA TxFacts ==
    ASSUME KeysInv, NEW p \in C!Txs
    PROVE  /\ tx[p] \in TxRec /\ TxPhase(p, tx[p]) /\ TxKeys(p, tx[p]) /\ TxLegacy(p, tx[p])
           /\ tx[p].pc \in {"idle", "encrypt", "commit", "read", "flush", "retire", "destroy", "locks"}
           /\ tx[p].memo \in [C!Keys -> C!Status] /\ tx[p].made \in 0..MaxKey
           /\ tx[p].read \in C!Value /\ tx[p].wrote \in C!Value /\ tx[p].rows \in SUBSET C!Keys
           /\ tx[p].mark \in {"none", "retired", "destroyed"} /\ tx[p].late \in BOOLEAN
<1>1. tx[p] \in TxRec
  BY DEF KeysInv, KeysTypes
<1> QED BY <1>1 DEF KeysInv, LegacyDone, TxRec

(* tenant_cipher: the key set loaded, with a first key if it has none.     *)
LEMMA CipherFacts ==
    ASSUME C!KeysAssumption, KeysInv, ~shredded, NEW ks \in [C!Keys -> C!Status],
           \A k \in C!Keys : ks[k] # "destroyed" /\ (Known(ks, k) => Known(key, k)),
           NEW l, l = IF C!Creates(ks) THEN last + 1 ELSE last, l <= MaxKey,
           NEW made, made = IF C!Creates(ks) THEN l ELSE 0
    PROVE  /\ l \in last..MaxKey /\ made \in 0..MaxKey /\ (made # 0 => made > last /\ made <= l /\ key[made] = "none")
           /\ C!WithKey(ks, l) \in [C!Keys -> C!Status] /\ C!Live(C!WithKey(ks, l)) # {}
           /\ \A k \in C!Keys : C!WithKey(ks, l)[k] # "destroyed"
           /\ \A k \in C!Keys : Known(C!WithKey(ks, l), k) => Known(key, k) \/ k = made
<1>1. last \in 0..MaxKey /\ MaxKey \in Nat /\ \A k \in C!Keys : k > last => key[k] = "none"
  BY DEF KeysInv, KeysTypes, C!KeysTypeOK, Committed, C!KeysAssumption
<1>2. CASE C!Live(ks) = {}
  <2>1. l = last + 1 /\ made = l /\ l \in C!Keys /\ C!WithKey(ks, l) = [ks EXCEPT ![l] = "live"]
    BY <1>1, <1>2 DEF C!Creates, C!Keys, C!WithKey
  <2>2. C!WithKey(ks, l) \in [C!Keys -> C!Status] /\ C!WithKey(ks, l)[l] = "live"
        /\ \A k \in C!Keys \ {l} : C!WithKey(ks, l)[k] = ks[k]
    BY <2>1 DEF C!Status
  <2>3. l \in C!Live(C!WithKey(ks, l))
    BY <2>1, <2>2 DEF C!Live
  <2>4. \A k \in C!Keys : C!WithKey(ks, l)[k] # "destroyed"
    BY <2>1, <2>2
  <2>5. \A k \in C!Keys : Known(C!WithKey(ks, l), k) => Known(key, k) \/ k = made
    BY <2>1, <2>2 DEF Known
  <2>6. l \in last..MaxKey /\ made \in 0..MaxKey /\ made > last /\ key[made] = "none"
    BY <1>1, <2>1
  <2> QED BY <2>1, <2>2, <2>3, <2>4, <2>5, <2>6, <1>1
<1>3. CASE C!Live(ks) # {}
  BY <1>1, <1>3 DEF C!Creates, C!WithKey
<1> QED BY <1>2, <1>3

(* While the key set is not destroyed no destroy has committed.            *)
LEMMA NotShredded == ASSUME KeysInv, ~C!Destroyed(key) PROVE ~shredded
  BY DEF KeysInv, Committed, C!Shredded

(* A writer loads the keys, and makes the first one.                       *)
LEMMA WriteBeginKeeps ==
    ASSUME C!KeysAssumption, QuietStart, KeysInv, NEW p \in C!Txs, C!WriteBegin(p) PROVE KeysInv'
<1>1. p \in Writers /\ tx[p] = C!Idle /\ p \notin {"rotate", "upgrade", "destroy"}
  BY TxFacts DEF C!WriteBegin, C!At, TxPhase, C!KeysAssumption
<1>2. C!Loaded(p) = key
  BY <1>1, IdleFacts DEF C!Loaded
<1> DEFINE made == IF C!Creates(key) THEN last' ELSE 0
           t == [C!Idle EXCEPT !.pc = "encrypt", !.memo = C!WithKey(key, last'), !.made = made]
<1>3. /\ ~C!Destroyed(key) /\ tx' = [tx EXCEPT ![p] = t] /\ last' <= MaxKey
      /\ last' = IF C!Creates(key) THEN last + 1 ELSE last
      /\ UNCHANGED <<key, secret, oldBackend, writes, latest, shredded, moved>>
  BY <1>2 DEF C!WriteBegin, C!Cipher
<1>4. ~shredded /\ key \in [C!Keys -> C!Status] /\ (\A k \in C!Keys : key[k] # "destroyed") /\ writes \in 0..MaxWrite
  BY <1>3, NotShredded DEF KeysInv, Committed, KeysTypes, C!KeysTypeOK
<1>5. /\ last' \in last..MaxKey /\ made \in 0..MaxKey /\ (made # 0 => made > last /\ made <= last' /\ key[made] = "none")
      /\ C!WithKey(key, last') \in [C!Keys -> C!Status] /\ C!Live(C!WithKey(key, last')) # {}
      /\ \A k \in C!Keys : C!WithKey(key, last')[k] # "destroyed"
      /\ \A k \in C!Keys : Known(C!WithKey(key, last'), k) => Known(key, k) \/ k = made
  <2> HIDE DEF made, t
  <2>1. made = IF C!Creates(key) THEN last' ELSE 0
    BY DEF made
  <2> QED BY <1>3, <1>4, <2>1, CipherFacts
<1>6. /\ t \in TxRec /\ t.pc = "encrypt" /\ t.memo = C!WithKey(key, last') /\ t.made = made /\ t.wrote = C!None
      /\ t.rows = {} /\ t.late = FALSE
  <2> HIDE DEF made
  <2> QED BY <1>5, IdleFacts DEF TxRec, C!Idle
<1>7. "destroy" \in Operators => tx["destroy"].pc = "idle"
  BY DEF C!WriteBegin, C!Quiesced, C!At
<1> HIDE DEF t, made
<1>8. TxPhase(p, t)
  BY <1>1, <1>5, <1>6 DEF TxPhase
<1>9. TxKeys(p, t)
  BY <1>1, <1>4, <1>5, <1>6 DEF TxKeys
<1>10. TxLegacy(p, t)
  BY <1>1, <1>6 DEF TxLegacy
<1>11. writes' \in 0..MaxWrite /\ (t.made \in {0, tx[p].made} \/ (t.made > last /\ t.made <= last'))
  BY <1>3, <1>4, <1>5, <1>6
<1> QED BY <1>1, <1>3, <1>5, <1>6, <1>7, <1>8, <1>9, <1>10, <1>11, LocalStep

(* The number of transactions under way beside a destroy is none.          *)
LEMMA NotDestroying ==
    ASSUME KeysInv, NEW p \in C!Txs, p # "destroy", tx[p].pc # "idle"
    PROVE  "destroy" \in Operators => tx["destroy"].pc = "idle"
  BY DEF KeysInv, DestroysAlone, C!Txs

(* A writer encrypts with a key that is there, or with its own.            *)
LEMMA EncryptKeeps ==
    ASSUME C!KeysAssumption, KeysInv, NEW p \in C!Txs, C!Encrypt(p) PROVE KeysInv'
<1> DEFINE w == [key |-> C!Active(tx[p].memo), val |-> writes + 1]
           t == [tx[p] EXCEPT !.pc = "commit", !.wrote = w]
<1>1. /\ p \in Writers /\ p \notin {"rotate", "upgrade", "destroy"} /\ tx[p].pc = "encrypt" /\ writes < MaxWrite
      /\ tx' = [tx EXCEPT ![p] = t] /\ writes' = writes + 1
      /\ UNCHANGED <<key, secret, oldBackend, last, latest, shredded, moved>>
  BY TxFacts DEF C!Encrypt, C!At, C!KeysAssumption
<1>2. writes \in 0..MaxWrite /\ last \in 0..MaxKey /\ MaxKey \in Nat /\ MaxWrite \in Nat
  BY DEF KeysInv, KeysTypes, C!KeysTypeOK, C!KeysAssumption
<1>3. C!Live(tx[p].memo) # {}
  BY <1>1, TxFacts DEF TxPhase
<1>4. C!Active(tx[p].memo) \in C!Keys /\ tx[p].memo[C!Active(tx[p].memo)] = "live"
  BY <1>2, <1>3, ActiveIsLive
<1>5. w \in C!Value /\ w.val # 0 /\ w.key \in C!Keys /\ (w.key = tx[p].made \/ Known(key, w.key)) /\ ~shredded
  <2>1. Known(tx[p].memo, w.key) /\ tx[p].memo[w.key] # "none"
    BY <1>4 DEF Known
  <2>2. w.key \in 0..MaxKey /\ w.val \in 0..MaxWrite /\ w.val # 0
    BY <1>1, <1>2, <1>4 DEF C!Keys
  <2> QED BY <1>4, <2>1, <2>2, TxFacts DEF TxKeys, C!Value
<1> HIDE DEF w
<1>6. /\ t \in TxRec /\ t.pc = "commit" /\ t.wrote = w /\ t.memo = tx[p].memo /\ t.made = tx[p].made
      /\ t.rows = tx[p].rows /\ t.late = tx[p].late /\ t.mark = tx[p].mark /\ t.read = tx[p].read
  BY <1>5, TxFacts DEF TxRec
<1> HIDE DEF t
<1>7. TxPhase(p, t)
  BY <1>1, <1>6, TxFacts DEF TxPhase
<1>8. TxKeys(p, t)
  BY <1>5, <1>6, TxFacts DEF TxKeys
<1>9. TxLegacy(p, t)
  BY <1>1, <1>6, TxFacts DEF TxLegacy
<1>10. last' \in last..MaxKey /\ writes' \in 0..MaxWrite
  BY <1>1, <1>2
<1>11. "destroy" \in Operators => tx["destroy"].pc = "idle"
  BY <1>1, NotDestroying
<1> QED BY <1>1, <1>6, <1>7, <1>8, <1>9, <1>10, <1>11, LocalStep

(* A rollback forgets the key set.                                         *)
LEMMA RollbackKeeps ==
    ASSUME C!KeysAssumption, KeysInv, NEW p \in C!Txs, C!Rollback(p) PROVE KeysInv'
<1>1. tx' = [tx EXCEPT ![p] = C!Idle] /\ UNCHANGED <<key, secret, oldBackend, last, writes, latest, shredded, moved>>
  BY DEF C!Rollback
<1>2. last' \in last..MaxKey /\ writes' \in 0..MaxWrite
  BY <1>1 DEF KeysInv, KeysTypes, C!KeysTypeOK, C!KeysAssumption
<1>3. TxPhase(p, C!Idle) /\ TxKeys(p, C!Idle) /\ TxLegacy(p, C!Idle)
  BY IdleFacts DEF TxPhase, TxKeys, TxLegacy, Known
<1> QED BY <1>1, <1>2, <1>3, IdleFacts, LocalStep

(* A rotation makes a key.                                                 *)
LEMMA RotateBeginKeeps ==
    ASSUME C!KeysAssumption, QuietStart, KeysInv, NEW p \in C!Txs, C!RotateBegin(p) PROVE KeysInv'
<1> DEFINE t == [C!Idle EXCEPT !.pc = "read", !.memo = key, !.made = last']
<1>1. /\ p = "rotate" /\ p \notin Writers /\ ~C!Destroyed(key) /\ last < MaxKey /\ last' = last + 1
      /\ tx' = [tx EXCEPT ![p] = t] /\ UNCHANGED <<key, secret, oldBackend, writes, latest, shredded, moved>>
  BY DEF C!RotateBegin, C!KeysAssumption
<1>2. /\ ~shredded /\ key \in [C!Keys -> C!Status] /\ (\A k \in C!Keys : key[k] # "destroyed") /\ writes \in 0..MaxWrite
      /\ last \in 0..MaxKey /\ MaxKey \in Nat /\ last' \in C!Keys /\ last' > last /\ key[last'] = "none"
  BY <1>1, NotShredded DEF KeysInv, Committed, KeysTypes, C!KeysTypeOK, C!KeysAssumption, C!Keys
<1>3. /\ t \in TxRec /\ t.pc = "read" /\ t.memo = key /\ t.made = last' /\ t.wrote = C!None
      /\ t.rows = {} /\ t.late = FALSE
  <2>1. last' \in 0..MaxKey
    BY <1>2 DEF C!Keys
  <2> QED BY <1>2, <2>1, IdleFacts DEF TxRec, C!Idle
<1>4. "destroy" \in Operators => tx["destroy"].pc = "idle"
  BY DEF C!RotateBegin, C!Quiesced, C!At
<1> HIDE DEF t
<1>5. TxPhase(p, t)
  BY <1>1, <1>2, <1>3 DEF TxPhase, C!Keys
<1>6. TxKeys(p, t)
  BY <1>1, <1>2, <1>3 DEF TxKeys
<1>7. TxLegacy(p, t)
  BY <1>1, <1>3 DEF TxLegacy
<1>8. last' \in last..MaxKey /\ writes' \in 0..MaxWrite /\ t.made > last /\ t.made <= last'
  BY <1>1, <1>2, <1>3 DEF C!Keys
<1> QED BY <1>1, <1>3, <1>4, <1>5, <1>6, <1>7, <1>8, LocalStep

(* A rotation reads the secret.                                            *)
LEMMA RotateReadKeeps ==
    ASSUME C!KeysAssumption, KeysInv, NEW p \in C!Txs, C!RotateRead(p) PROVE KeysInv'
<1> DEFINE t == [tx[p] EXCEPT !.pc = "flush", !.read = secret]
<1>1. /\ p = "rotate" /\ p \notin Writers /\ tx[p].pc = "read"
      /\ tx' = [tx EXCEPT ![p] = t] /\ UNCHANGED <<key, secret, oldBackend, last, writes, latest, shredded, moved>>
  BY TxFacts DEF C!RotateRead, C!At, C!KeysAssumption
<1>2. secret \in C!Value /\ last' \in last..MaxKey /\ writes' \in 0..MaxWrite
  BY <1>1 DEF KeysInv, KeysTypes, C!KeysTypeOK, C!KeysAssumption
<1>3. /\ t \in TxRec /\ t.pc = "flush" /\ t.wrote = tx[p].wrote /\ t.memo = tx[p].memo /\ t.made = tx[p].made
      /\ t.rows = tx[p].rows /\ t.late = tx[p].late /\ t.mark = tx[p].mark
  BY <1>2, TxFacts DEF TxRec
<1> HIDE DEF t
<1>4. TxPhase(p, t)
  BY <1>1, <1>3, TxFacts DEF TxPhase
<1>5. TxKeys(p, t)
  BY <1>3, TxFacts DEF TxKeys
<1>6. TxLegacy(p, t)
  BY <1>1, <1>3, TxFacts DEF TxLegacy
<1>7. "destroy" \in Operators => tx["destroy"].pc = "idle"
  BY <1>1, NotDestroying
<1> QED BY <1>1, <1>2, <1>3, <1>4, <1>5, <1>6, <1>7, LocalStep

(* A rotation writes the secret under its key.                             *)
LEMMA RotateFlushKeeps ==
    ASSUME C!KeysAssumption, KeysInv, NEW p \in C!Txs, C!RotateFlush(p) PROVE KeysInv'
<1> DEFINE v == tx[p].read
           w == IF C!Empty(v) \/ ~C!Readable(tx[p].memo, v.key) THEN C!None ELSE [key |-> tx[p].made, val |-> v.val]
           t == [tx[p] EXCEPT !.pc = "retire", !.wrote = w]
<1>1. /\ p = "rotate" /\ p \notin Writers /\ tx[p].pc = "flush"
      /\ tx' = [tx EXCEPT ![p] = t] /\ UNCHANGED <<key, secret, oldBackend, last, writes, latest, shredded, moved>>
  BY TxFacts DEF C!RotateFlush, C!At, C!KeysAssumption
<1>2. tx[p].made # 0 /\ tx[p].made \in 0..MaxKey /\ v \in C!Value /\ ~shredded
  BY <1>1, TxFacts DEF TxPhase, TxKeys
<1>3. w \in C!Value /\ (w # C!None => w.val # 0 /\ w.key \in C!Keys /\ w.key = tx[p].made)
  <2>1. v.val \in 0..MaxWrite /\ tx[p].made \in C!Keys
    BY <1>2 DEF C!Value, C!Keys, C!KeysAssumption
  <2> QED BY <1>2, <2>1, IdleFacts DEF C!Value, C!Empty
<1> HIDE DEF w
<1>4. /\ t \in TxRec /\ t.pc = "retire" /\ t.wrote = w /\ t.memo = tx[p].memo /\ t.made = tx[p].made
      /\ t.rows = tx[p].rows /\ t.late = tx[p].late /\ t.mark = tx[p].mark
  BY <1>3, TxFacts DEF TxRec
<1>5. last' \in last..MaxKey /\ writes' \in 0..MaxWrite
  BY <1>1 DEF KeysInv, KeysTypes, C!KeysTypeOK, C!KeysAssumption
<1> HIDE DEF t
<1>6. TxPhase(p, t)
  BY <1>1, <1>4, TxFacts DEF TxPhase
<1>7. TxKeys(p, t)
  BY <1>2, <1>3, <1>4, TxFacts DEF TxKeys
<1>8. TxLegacy(p, t)
  BY <1>1, <1>4, TxFacts DEF TxLegacy
<1>9. "destroy" \in Operators => tx["destroy"].pc = "idle"
  BY <1>1, NotDestroying
<1> QED BY <1>1, <1>4, <1>5, <1>6, <1>7, <1>8, <1>9, LocalStep

(* A rotation retires the keys it knew.                                    *)
LEMMA RotateRetireKeeps ==
    ASSUME C!KeysAssumption, KeysInv, NEW p \in C!Txs, C!RotateRetire(p) PROVE KeysInv'
<1> DEFINE old == {k \in C!Keys : tx[p].memo[k] \in {"live", "retired"} /\ key[k] = "live"}
           t == [tx[p] EXCEPT !.pc = "commit", !.mark = "retired", !.rows = old]
<1>1. /\ p = "rotate" /\ p \notin Writers /\ tx[p].pc = "retire"
      /\ tx' = [tx EXCEPT ![p] = t] /\ UNCHANGED <<key, secret, oldBackend, last, writes, latest, shredded, moved>>
  BY TxFacts DEF C!RotateRetire, C!At, C!Retired, C!KeysAssumption
<1>2. old \in SUBSET C!Keys /\ \A k \in old : Known(key, k)
  BY DEF Known
<1> HIDE DEF old
<1>3. /\ t \in TxRec /\ t.pc = "commit" /\ t.wrote = tx[p].wrote /\ t.memo = tx[p].memo /\ t.made = tx[p].made
      /\ t.rows = old /\ t.late = tx[p].late /\ t.mark = "retired"
  BY <1>2, TxFacts DEF TxRec
<1>4. last' \in last..MaxKey /\ writes' \in 0..MaxWrite
  BY <1>1 DEF KeysInv, KeysTypes, C!KeysTypeOK, C!KeysAssumption
<1> HIDE DEF t
<1>5. TxPhase(p, t)
  BY <1>1, <1>3, TxFacts DEF TxPhase
<1>6. TxKeys(p, t)
  <2>1. ~shredded
    BY <1>1, TxFacts DEF TxPhase, TxKeys
  <2> QED BY <1>1, <1>2, <1>3, <2>1, TxFacts DEF TxKeys
<1>7. TxLegacy(p, t)
  BY <1>1, <1>3, TxFacts DEF TxLegacy
<1>8. "destroy" \in Operators => tx["destroy"].pc = "idle"
  BY <1>1, NotDestroying
<1> QED BY <1>1, <1>3, <1>4, <1>5, <1>6, <1>7, <1>8, LocalStep

(* A transaction under way is alone if it destroys, and no destroy is      *)
(* under way if it does not.                                               *)
LEMMA StaysApart ==
    ASSUME C!KeysAssumption, KeysInv, NEW p \in C!Txs, tx[p].pc # "idle"
    PROVE  /\ p = "destroy" => ~oldBackend /\ ~shredded /\ \A q \in C!Txs \ {"destroy"} : tx[q].pc = "idle"
           /\ p # "destroy" => ("destroy" \in Operators => tx["destroy"].pc = "idle")
<1>1. p = "destroy" => p \in Operators
  BY DEF C!Txs, C!KeysAssumption
<1> QED BY <1>1, NotDestroying DEF KeysInv, DestroysAlone

(* The startup pass begins.                                                *)
LEMMA UpgradeBeginKeeps ==
    ASSUME C!KeysAssumption, QuietStart, KeysInv, NEW p \in C!Txs, C!UpgradeBegin(p) PROVE KeysInv'
<1> DEFINE t == [C!Idle EXCEPT !.pc = "read", !.late = ~oldBackend]
<1>1. /\ p = "upgrade" /\ p \notin Writers /\ tx' = [tx EXCEPT ![p] = t]
      /\ UNCHANGED <<key, secret, oldBackend, last, writes, latest, shredded, moved>>
  BY DEF C!UpgradeBegin, C!KeysAssumption
<1>2. oldBackend \in BOOLEAN /\ last' \in last..MaxKey /\ writes' \in 0..MaxWrite
  BY <1>1 DEF KeysInv, KeysTypes, C!KeysTypeOK, C!KeysAssumption
<1>3. /\ t \in TxRec /\ t.pc = "read" /\ t.made = 0 /\ t.wrote = C!None /\ t.rows = {} /\ t.late = ~oldBackend
      /\ t.memo = C!Idle.memo
  BY <1>2, IdleFacts DEF TxRec, C!Idle
<1>4. "destroy" \in Operators => tx["destroy"].pc = "idle"
  BY DEF C!UpgradeBegin, C!Quiesced, C!At
<1> HIDE DEF t
<1>5. TxPhase(p, t)
  BY <1>1, <1>3 DEF TxPhase
<1>6. TxKeys(p, t)
  BY <1>1, <1>3, IdleFacts DEF TxKeys, Known
<1>7. TxLegacy(p, t)
  BY <1>1, <1>3 DEF TxLegacy
<1> QED BY <1>1, <1>2, <1>3, <1>4, <1>5, <1>6, <1>7, LocalStep

(* The secret is read, and a first key made if it is under the             *)
(* installation key.                                                       *)
LEMMA LegacyReadKeeps ==
    ASSUME C!KeysAssumption, KeysInv, NEW p \in C!Txs, C!LegacyRead(p) PROVE KeysInv'
<1> DEFINE ks == C!Loaded(p)
<1>1. /\ p \in {"upgrade", "destroy"} /\ p \notin Writers /\ tx[p].pc = "read" /\ tx[p].made = 0
      /\ tx[p].wrote = C!None /\ tx[p].rows = {}
      /\ UNCHANGED <<key, secret, oldBackend, writes, latest, shredded, moved>>
  BY TxFacts DEF C!LegacyRead, C!At, C!KeysAssumption, TxPhase
<1>2. last \in 0..MaxKey /\ MaxKey \in Nat /\ writes' \in 0..MaxWrite /\ secret \in C!Value /\ key \in [C!Keys -> C!Status]
  BY <1>1 DEF KeysInv, KeysTypes, C!KeysTypeOK, C!KeysAssumption
<1>3. CASE ~C!Legacy(secret) /\ C!Goto(p, C!Next1(p)) /\ UNCHANGED last
  <2> DEFINE t == [tx[p] EXCEPT !.pc = C!Next1(p)]
  <2>1. tx' = [tx EXCEPT ![p] = t] /\ last' \in last..MaxKey
    BY <1>2, <1>3, TxFacts DEF C!Goto
  <2>2. C!Next1(p) = IF p = "destroy" THEN "destroy" ELSE "commit"
    BY DEF C!Next1
  <2>3. /\ t \in TxRec /\ t.pc = C!Next1(p) /\ t.wrote = C!None /\ t.memo = tx[p].memo /\ t.made = 0
        /\ t.rows = {} /\ t.late = tx[p].late /\ t.mark = tx[p].mark
    BY <1>1, <2>2, TxFacts DEF TxRec
  <2> HIDE DEF t
  <2>4. TxPhase(p, t)
    BY <1>1, <2>2, <2>3, TxFacts DEF TxPhase
  <2>5. TxKeys(p, t)
    BY <1>1, <2>3, TxFacts DEF TxKeys
  <2>6. TxLegacy(p, t)
    BY <1>1, <1>3, <2>3, TxFacts DEF TxLegacy
  <2> QED BY <1>1, <1>2, <2>1, <2>2, <2>3, <2>4, <2>5, <2>6, StaysApart, LocalStep
<1>4. ASSUME C!Legacy(secret), ~C!Destroyed(ks), C!Cipher(p, ks),
             tx' = [tx EXCEPT ![p].pc = "flush", ![p].read = secret, ![p].memo = C!WithKey(ks, last'),
                              ![p].made = IF C!Creates(ks) THEN last' ELSE 0]
      PROVE  KeysInv'
  <2> DEFINE made == IF C!Creates(ks) THEN last' ELSE 0
             t == [tx[p] EXCEPT !.pc = "flush", !.read = secret, !.memo = C!WithKey(ks, last'), !.made = made]
  <2>1. tx' = [tx EXCEPT ![p] = t] /\ last' <= MaxKey /\ last' = IF C!Creates(ks) THEN last + 1 ELSE last
    BY <1>4, TxFacts DEF C!Cipher
  <2>2. ~shredded
    BY <1>4 DEF KeysInv, Committed, C!Shredded, C!Legacy, C!Readable
  <2>3. ks \in [C!Keys -> C!Status] /\ \A k \in C!Keys : ks[k] # "destroyed" /\ (Known(ks, k) => Known(key, k))
    <3>1. \A k \in C!Keys : k # tx[p].made
      BY <1>1, <1>2 DEF C!Keys
    <3>2. \A k \in C!Keys : key[k] # "destroyed"
      BY <2>2 DEF KeysInv, Committed
    <3>3. ks = tx[p].memo \/ ks = key
      BY DEF C!Loaded
    <3>4. /\ tx[p].memo \in [C!Keys -> C!Status]
          /\ \A k \in C!Keys : tx[p].memo[k] # "destroyed" /\ (Known(tx[p].memo, k) => Known(key, k))
      BY <2>2, <3>1, TxFacts DEF TxKeys
    <3> HIDE DEF ks
    <3> QED BY <1>2, <3>2, <3>3, <3>4
  <2>4. /\ last' \in last..MaxKey /\ made \in 0..MaxKey /\ (made # 0 => made > last /\ made <= last' /\ key[made] = "none")
        /\ C!WithKey(ks, last') \in [C!Keys -> C!Status] /\ C!Live(C!WithKey(ks, last')) # {}
        /\ \A k \in C!Keys : C!WithKey(ks, last')[k] # "destroyed"
        /\ \A k \in C!Keys : Known(C!WithKey(ks, last'), k) => Known(key, k) \/ k = made
    <3>1. made = IF C!Creates(ks) THEN last' ELSE 0
      OBVIOUS
    <3> HIDE DEF made, t, ks
    <3> QED BY <2>1, <2>2, <2>3, <3>1, CipherFacts
  <2> HIDE DEF made, ks
  <2>5. /\ t \in TxRec /\ t.pc = "flush" /\ t.read = secret /\ t.wrote = C!None /\ t.memo = C!WithKey(ks, last') /\ t.made = made
        /\ t.rows = {} /\ t.late = tx[p].late /\ t.mark = tx[p].mark
    BY <1>1, <1>2, <2>4, TxFacts DEF TxRec
  <2> HIDE DEF t
  <2>6. TxPhase(p, t)
    BY <1>1, <1>4, <2>4, <2>5 DEF TxPhase
  <2>7. TxKeys(p, t)
    BY <1>1, <2>2, <2>4, <2>5 DEF TxKeys
  <2>8. TxLegacy(p, t)
    BY <1>1, <2>5, TxFacts DEF TxLegacy
  <2>9. t.made \in {0, tx[p].made} \/ (t.made > last /\ t.made <= last')
    BY <2>4, <2>5
  <2> QED BY <1>1, <1>2, <2>1, <2>4, <2>5, <2>6, <2>7, <2>8, <2>9, StaysApart, LocalStep
<1>5. CASE tx' = [tx EXCEPT ![p] = C!Idle] /\ UNCHANGED last
  <2>1. TxPhase(p, C!Idle) /\ TxKeys(p, C!Idle) /\ TxLegacy(p, C!Idle)
    BY IdleFacts DEF TxPhase, TxKeys, TxLegacy, Known
  <2>2. last' \in last..MaxKey
    BY <1>2, <1>5
  <2> HIDE DEF ks
  <2> QED BY <1>1, <1>2, <1>5, <2>1, <2>2, IdleFacts, LocalStep
<1> QED BY <1>3, <1>4, <1>5 DEF C!LegacyRead

(* What was under the installation key is written under the tenant's.      *)
LEMMA LegacyFlushKeeps ==
    ASSUME C!KeysAssumption, KeysInv, NEW p \in C!Txs, C!LegacyFlush(p) PROVE KeysInv'
<1> DEFINE w == [key |-> C!Active(tx[p].memo), val |-> tx[p].read.val]
           t == [tx[p] EXCEPT !.pc = C!Next1(p), !.wrote = w]
<1>1. /\ p \in {"upgrade", "destroy"} /\ p \notin Writers /\ tx[p].pc = "flush"
      /\ tx' = [tx EXCEPT ![p] = t] /\ UNCHANGED <<key, secret, oldBackend, last, writes, latest, shredded, moved>>
  <2>1. p \in {"upgrade", "destroy"} /\ p \notin Writers /\ tx[p].pc = "flush"
    BY DEF C!LegacyFlush, C!At, C!KeysAssumption
  <2>2. tx \in [C!Txs -> TxRec] /\ tx[p] \in TxRec
    BY TxFacts DEF KeysInv, KeysTypes
  <2>3. UNCHANGED <<key, secret, oldBackend, last, writes, latest, shredded, moved>>
    BY DEF C!LegacyFlush
  <2>4. tx' = [tx EXCEPT ![p].pc = C!Next1(p), ![p].wrote = w]
    BY DEF C!LegacyFlush
  <2>5. tx' = [tx EXCEPT ![p] = t]
    <3> HIDE DEF w
    <3> QED BY <2>2, <2>4 DEF TxRec
  <2> QED BY <2>1, <2>3, <2>5
<1>2. last' \in last..MaxKey /\ writes' \in 0..MaxWrite /\ MaxKey \in Nat
  BY <1>1 DEF KeysInv, KeysTypes, C!KeysTypeOK, C!KeysAssumption
<1>3. C!Live(tx[p].memo) # {} /\ C!Legacy(tx[p].read) /\ tx[p].rows = {}
  BY <1>1, TxFacts DEF TxPhase
<1>4. C!Active(tx[p].memo) \in C!Keys /\ tx[p].memo[C!Active(tx[p].memo)] = "live"
  BY <1>2, <1>3, ActiveIsLive
<1>5. w \in C!Value /\ w # C!None /\ w.val # 0 /\ w.key \in C!Keys /\ (w.key = tx[p].made \/ Known(key, w.key)) /\ ~shredded
  <2>1. Known(tx[p].memo, w.key) /\ tx[p].memo[w.key] # "none" /\ w.key \in C!Keys
    BY <1>4 DEF Known
  <2>2. w.key \in 0..MaxKey /\ w.val \in 0..MaxWrite /\ w.val # 0 /\ tx[p].read \in C!Value
    BY <1>3, <1>4, TxFacts DEF C!Keys, C!Legacy, C!Empty, C!Value
  <2> QED BY <2>1, <2>2, TxFacts DEF TxKeys, C!Value, C!None
<1>6. C!Next1(p) = IF p = "destroy" THEN "destroy" ELSE "commit"
  BY DEF C!Next1
<1> HIDE DEF w
<1>7. /\ t \in TxRec /\ t.pc = C!Next1(p) /\ t.wrote = w /\ t.memo = tx[p].memo /\ t.made = tx[p].made
      /\ t.rows = {} /\ t.late = tx[p].late /\ t.mark = tx[p].mark
  BY <1>3, <1>5, <1>6, TxFacts DEF TxRec
<1> HIDE DEF t
<1>8. TxPhase(p, t)
  BY <1>1, <1>6, <1>7, TxFacts DEF TxPhase
<1>9. TxKeys(p, t)
  BY <1>5, <1>7, TxFacts DEF TxKeys
<1>10. TxLegacy(p, t)
  BY <1>1, <1>5, <1>7, TxFacts DEF TxLegacy
<1> QED BY <1>1, <1>2, <1>7, <1>8, <1>9, <1>10, StaysApart, LocalStep

(* The destroy begins with nobody else at work.                            *)
LEMMA DestroyBeginKeeps ==
    ASSUME C!KeysAssumption, QuietStart, KeysInv, NEW p \in C!Txs, C!DestroyBegin(p) PROVE KeysInv'
<1> DEFINE t == [C!Idle EXCEPT !.memo = key, !.pc = IF C!Destroyed(key) THEN "destroy" ELSE "read"]
<1>1. /\ p = "destroy" /\ p \notin Writers /\ ~shredded /\ ~oldBackend /\ (\A q \in C!Txs : tx[q].pc = "idle")
      /\ tx' = [tx EXCEPT ![p] = t] /\ UNCHANGED <<key, secret, oldBackend, last, writes, latest, shredded, moved>>
  BY DEF C!DestroyBegin, C!At, C!KeysAssumption
<1>2. last' \in last..MaxKey /\ writes' \in 0..MaxWrite /\ key \in [C!Keys -> C!Status]
      /\ \A k \in C!Keys : key[k] # "destroyed"
  BY <1>1 DEF KeysInv, KeysTypes, C!KeysTypeOK, C!KeysAssumption, Committed
<1>3. ~C!Destroyed(key)
  BY <1>2 DEF C!Destroyed
<1>4. /\ t \in TxRec /\ t.pc = "read" /\ t.made = 0 /\ t.wrote = C!None /\ t.rows = {} /\ t.late = FALSE /\ t.memo = key
  BY <1>2, <1>3, IdleFacts DEF TxRec, C!Idle
<1> HIDE DEF t
<1>5. TxPhase(p, t)
  BY <1>1, <1>4 DEF TxPhase
<1>6. TxKeys(p, t)
  BY <1>1, <1>2, <1>4 DEF TxKeys
<1>7. TxLegacy(p, t)
  BY <1>1, <1>4 DEF TxLegacy
<1> QED BY <1>1, <1>2, <1>4, <1>5, <1>6, <1>7, LocalStep

(* All keys are to be destroyed, its own new one too.                      *)
LEMMA DestroyUpdateKeeps ==
    ASSUME C!KeysAssumption, KeysInv, NEW p \in C!Txs, C!DestroyUpdate(p) PROVE KeysInv'
<1> DEFINE all == {k \in C!Keys : key[k] \in {"live", "retired"} \/ k = tx[p].made}
           t == [tx[p] EXCEPT !.pc = "locks", !.mark = "destroyed", !.rows = all]
<1>1. /\ p = "destroy" /\ p \notin Writers /\ tx[p].pc = "destroy"
      /\ tx' = [tx EXCEPT ![p] = t] /\ UNCHANGED <<key, secret, oldBackend, last, writes, latest, shredded, moved>>
  <2>1. p = "destroy" /\ p \notin Writers /\ tx[p].pc = "destroy"
    BY DEF C!DestroyUpdate, C!At, C!KeysAssumption
  <2>2. tx \in [C!Txs -> TxRec] /\ tx[p] \in TxRec
    BY TxFacts DEF KeysInv, KeysTypes
  <2>3. UNCHANGED <<key, secret, oldBackend, last, writes, latest, shredded, moved>>
    BY DEF C!DestroyUpdate
  <2>4. tx' = [tx EXCEPT ![p].pc = "locks", ![p].mark = "destroyed", ![p].rows = all]
    BY DEF C!DestroyUpdate
  <2>5. tx' = [tx EXCEPT ![p] = t]
    <3> HIDE DEF all
    <3> QED BY <2>2, <2>4 DEF TxRec
  <2> QED BY <2>1, <2>3, <2>5
<1>2. last' \in last..MaxKey /\ writes' \in 0..MaxWrite /\ all \in SUBSET C!Keys
      /\ all = {k \in C!Keys : Known(key, k) \/ k = tx[p].made}
  BY <1>1 DEF KeysInv, KeysTypes, C!KeysTypeOK, C!KeysAssumption, Known
<1> HIDE DEF all
<1>3. /\ t \in TxRec /\ t.pc = "locks" /\ t.wrote = tx[p].wrote /\ t.memo = tx[p].memo /\ t.made = tx[p].made
      /\ t.rows = all /\ t.late = tx[p].late /\ t.mark = "destroyed"
  BY <1>2, TxFacts DEF TxRec
<1>4. ~shredded
  BY <1>1, StaysApart
<1> HIDE DEF t
<1>5. TxPhase(p, t)
  BY <1>1, <1>2, <1>3, TxFacts DEF TxPhase
<1>6. TxKeys(p, t)
  BY <1>1, <1>2, <1>3, <1>4, TxFacts DEF TxKeys
<1>7. TxLegacy(p, t)
  BY <1>1, <1>3, TxFacts DEF TxLegacy
<1> QED BY <1>1, <1>2, <1>3, <1>5, <1>6, <1>7, StaysApart, LocalStep

(* A commit makes the new key live, retires keys and replaces the secret:  *)
(* every key that could be read before can be read after.                  *)
LEMMA CommitFacts ==
    ASSUME C!KeysAssumption, KeysInv, NEW p \in C!Txs, p # "destroy", tx[p].pc = "commit", C!Commit(p)
    PROVE  /\ key' \in [C!Keys -> C!Status] /\ secret' \in C!Value
           /\ \A k \in C!Keys : Known(key, k) => Known(key', k)
           /\ \A k \in C!Keys : key[k] = "none" /\ k # tx[p].made => key'[k] = "none"
           /\ \A k \in C!Keys : key'[k] = "destroyed" => key[k] = "destroyed"
           /\ \A k \in C!Keys : k = tx[p].made => Known(key', k)
           /\ shredded => key' = key /\ secret' = secret
           /\ secret' # secret => tx[p].wrote # C!None /\ secret' = tx[p].wrote
           /\ C!Legacy(secret') => C!Legacy(secret) /\ tx[p].wrote = C!None
<1>1. /\ tx[p].rows \in SUBSET C!Keys /\ (tx[p].rows # {} => tx[p].mark = "retired")
      /\ \A k \in tx[p].rows : Known(key, k)
  BY TxFacts DEF TxPhase, TxKeys, C!Txs, C!KeysAssumption
<1>2. key \in [C!Keys -> C!Status] /\ secret \in C!Value /\ tx[p].wrote \in C!Value
  BY TxFacts DEF KeysInv, KeysTypes, C!KeysTypeOK
<1> DEFINE row(k) == CASE k \in tx[p].rows -> tx[p].mark
                       [] k = tx[p].made /\ k \notin tx[p].rows -> "live"
                       [] OTHER -> key[k]
<1>3. \A k \in C!Keys : /\ k \in tx[p].rows => row(k) = "retired"
                        /\ k \notin tx[p].rows /\ k = tx[p].made => row(k) = "live"
                        /\ k \notin tx[p].rows /\ k # tx[p].made => row(k) = key[k]
  BY <1>1
<1>4. key' = [k \in C!Keys |-> row(k)] /\ secret' = IF C!Empty(tx[p].wrote) THEN secret ELSE tx[p].wrote
  BY DEF C!Commit
<1> HIDE DEF row
<1>5. key' \in [C!Keys -> C!Status] /\ \A k \in C!Keys : key'[k] = row(k)
  <2>1. \A k \in C!Keys : row(k) \in C!Status
    BY <1>2, <1>3 DEF C!Status
  <2> QED BY <1>4, <2>1
<1>6. secret' \in C!Value
  BY <1>2, <1>4
<1>7. /\ \A k \in C!Keys : Known(key, k) => Known(key', k)
      /\ \A k \in C!Keys : key[k] = "none" /\ k # tx[p].made => key'[k] = "none"
      /\ \A k \in C!Keys : key'[k] = "destroyed" => key[k] = "destroyed"
      /\ \A k \in C!Keys : k = tx[p].made => Known(key', k)
  BY <1>1, <1>3, <1>5 DEF Known
<1>8. tx[p].wrote # C!None => tx[p].wrote.val # 0 /\ tx[p].wrote.key \in C!Keys
  BY TxFacts DEF TxKeys
<1>9. ~C!Legacy(tx[p].wrote) /\ (C!Empty(tx[p].wrote) <=> tx[p].wrote = C!None)
  BY <1>8, IdleFacts DEF C!Legacy, C!Empty, C!Keys
<1>10. shredded => key' = key /\ secret' = secret
  <2>1. ASSUME shredded PROVE tx[p].rows = {} /\ tx[p].made = 0 /\ tx[p].wrote = C!None
    BY <2>1, TxFacts DEF TxKeys
  <2>2. ASSUME shredded PROVE \A k \in C!Keys : row(k) = key[k]
    BY <2>1, <2>2, <1>3 DEF C!Keys
  <2>3. ASSUME shredded PROVE key' = key
    <3>1. \A k \in C!Keys : row(k) = key[k]
      BY <2>2, <2>3
    <3> QED BY <3>1, <1>4, <1>2
  <2> QED BY <2>1, <2>3, <1>4, <1>9
<1>11. secret' # secret => tx[p].wrote # C!None /\ secret' = tx[p].wrote
  BY <1>4, <1>9
<1>12. C!Legacy(secret') => C!Legacy(secret) /\ tx[p].wrote = C!None
  BY <1>4, <1>9
<1> QED BY <1>5, <1>6, <1>7, <1>10, <1>11, <1>12

(* A transaction other than the destroy commits.                           *)
LEMMA CommitKeeps ==
    ASSUME C!KeysAssumption, KeysInv, NEW p \in C!Txs, p # "destroy", tx[p].pc = "commit", C!Commit(p),
           UNCHANGED <<oldBackend, last, writes, shredded>>, latest' \in 0..MaxWrite, moved' \in BOOLEAN,
           moved' => moved \/ (p = "upgrade" /\ tx[p].late)
    PROVE  KeysInv'
<1>1. tx' = [tx EXCEPT ![p] = C!Idle] /\ tx \in [C!Txs -> TxRec]
  BY DEF C!Commit, KeysInv, KeysTypes
<1>2. tx' \in [C!Txs -> TxRec] /\ tx'[p] = C!Idle /\ \A q \in C!Txs : q # p => tx'[q] = tx[q]
  BY <1>1, IdleFacts
<1>3. /\ key' \in [C!Keys -> C!Status] /\ secret' \in C!Value
      /\ \A k \in C!Keys : Known(key, k) => Known(key', k)
      /\ \A k \in C!Keys : key[k] = "none" /\ k # tx[p].made => key'[k] = "none"
      /\ \A k \in C!Keys : key'[k] = "destroyed" => key[k] = "destroyed"
      /\ \A k \in C!Keys : k = tx[p].made => Known(key', k)
      /\ shredded => key' = key /\ secret' = secret
      /\ secret' # secret => tx[p].wrote # C!None /\ secret' = tx[p].wrote
      /\ C!Legacy(secret') => C!Legacy(secret) /\ tx[p].wrote = C!None
  BY CommitFacts
<1>4. KeysTypes'
  <2>1. \A q \in C!Txs : tx'[q].read \in C!Value /\ tx'[q].wrote \in C!Value
    BY <1>2 DEF TxRec
  <2>2. last' \in 0..MaxKey /\ writes' \in 0..MaxWrite /\ oldBackend' \in BOOLEAN /\ shredded' \in BOOLEAN
    BY DEF KeysInv, KeysTypes, C!KeysTypeOK
  <2> QED BY <1>2, <1>3, <2>1, <2>2 DEF KeysTypes, C!KeysTypeOK
<1>5. "destroy" \in Operators => tx["destroy"].pc = "idle" /\ tx'["destroy"].pc = "idle"
  <2>1. "destroy" \in Operators => tx["destroy"].pc = "idle" /\ "destroy" \in C!Txs
    BY NotDestroying DEF C!Txs
  <2> QED BY <1>2, <2>1
<1>6. (\A q \in C!Txs : TxPhase(q, tx[q]) /\ TxKeys(q, tx[q]) /\ TxLegacy(q, tx[q]))'
  <2> SUFFICES ASSUME NEW q \in C!Txs PROVE (TxPhase(q, tx[q]) /\ TxKeys(q, tx[q]) /\ TxLegacy(q, tx[q]))'
    BY DEF C!Txs
  <2>1. CASE q = p
    BY <1>2, <2>1, IdleFacts DEF TxPhase, TxKeys, TxLegacy, Known
  <2>2. CASE q # p
    <3> DEFINE t == tx[q]
    <3>1. tx'[q] = t /\ TxPhase(q, t) /\ TxKeys(q, t) /\ TxLegacy(q, t) /\ t.made \in 0..MaxKey /\ t.rows \in SUBSET C!Keys
      BY <1>2, <2>2, TxFacts
    <3>2. (q = "destroy" => t.pc = "idle" /\ t = C!Idle) /\ t.made \in C!Keys \cup {0}
      <4>1. q = "destroy" => q \in Operators
        BY DEF C!Txs, C!KeysAssumption
      <4> QED BY <3>1, <4>1, <1>5 DEF TxPhase, C!Keys
    <3>3. t.made # 0 => t.made # tx[p].made
      BY <2>2 DEF KeysInv, OwnKeys
    <3> HIDE DEF t
    <3>4. TxPhase(q, tx[q])'
      BY <3>1, <3>2, IdleFacts DEF TxPhase
    <3>5. (t.made # 0 => key'[t.made] = "none") /\ \A k \in t.rows : Known(key', k)
      BY <3>1, <3>2, <3>3, <1>3, IdleFacts DEF TxKeys
    <3>6. TxKeys(q, tx[q])'
      <4>1. \A k \in C!Keys : Known(t.memo, k) => Known(key', k) \/ k = t.made
        BY <3>1, <1>3 DEF TxKeys
      <4>2. t.wrote # C!None => t.wrote.val # 0 /\ t.wrote.key \in C!Keys /\ (t.wrote.key = t.made \/ Known(key', t.wrote.key))
        BY <3>1, <1>3 DEF TxKeys
      <4> QED BY <3>1, <3>5, <4>1, <4>2 DEF TxKeys, Known
    <3>7. TxLegacy(q, tx[q])'
      BY <3>1, <1>3 DEF TxLegacy
    <3> QED BY <3>4, <3>6, <3>7
  <2> QED BY <2>1, <2>2
<1>7. OwnKeys'
  <2>1. \A q \in C!Txs : tx[q].made <= last /\ tx[q].made \in 0..MaxKey /\ last \in 0..MaxKey
    BY TxFacts DEF KeysInv, OwnKeys, KeysTypes, C!KeysTypeOK
  <2>2. \A q \in C!Txs : tx'[q].made \in {0, tx[q].made}
    BY <1>2, IdleFacts
  <2>3. (\A q \in C!Txs : tx[q].made <= last)'
    BY <2>1, <2>2
  <2>4. (\A q, r \in C!Txs : q # r /\ tx[q].made # 0 => tx[q].made # tx[r].made)'
    BY <2>2 DEF KeysInv, OwnKeys
  <2> QED BY <2>3, <2>4 DEF OwnKeys
<1>8. DestroysAlone'
  BY <1>5 DEF DestroysAlone
<1>9. LegacyDone'
  <2>1. moved' => ~oldBackend' /\ ~C!Legacy(secret')
    <3>1. CASE moved
      BY <3>1, <1>3 DEF KeysInv, LegacyDone
    <3>2. CASE p = "upgrade" /\ tx[p].late
      BY <3>2, <1>3, TxFacts DEF TxLegacy
    <3> QED BY <3>1, <3>2
  <2> QED BY <1>6, <2>1 DEF LegacyDone, C!Legacy, C!Empty
<1>10. Committed'
  <2>1. \A k \in C!Keys : k > last' => key'[k] = "none"
    <3> SUFFICES ASSUME NEW k \in C!Keys, k > last PROVE key'[k] = "none"
      OBVIOUS
    <3>1. tx[p].made <= last /\ tx[p].made \in 0..MaxKey /\ last \in 0..MaxKey /\ key[k] = "none"
      BY TxFacts DEF KeysInv, OwnKeys, KeysTypes, C!KeysTypeOK, Committed
    <3>2. k # tx[p].made
      BY <3>1 DEF C!Keys
    <3> QED BY <3>1, <3>2, <1>3
  <2>2. ~shredded' => \A k \in C!Keys : key'[k] # "destroyed"
    BY <1>3 DEF KeysInv, Committed
  <2>3. C!SecretsOpen'
    <3> SUFFICES ASSUME ~shredded PROVE C!Empty(secret') \/ C!Readable(key', secret'.key)
      BY DEF C!SecretsOpen, C!Empty, C!Readable
    <3>1. CASE secret' = secret
      <4>1. secret \in C!Value /\ (C!Empty(secret) \/ C!Readable(key, secret.key))
        BY DEF KeysInv, Committed, C!SecretsOpen, KeysTypes, C!KeysTypeOK
      <4>2. secret.key = 0 \/ secret.key \in C!Keys
        BY <4>1 DEF C!Value, C!Keys, C!KeysAssumption
      <4> QED BY <3>1, <4>1, <4>2, <1>3 DEF C!Readable, Known
    <3>2. CASE secret' # secret
      <4>1. secret'.key \in C!Keys /\ (secret'.key = tx[p].made \/ Known(key, secret'.key))
        BY <3>2, <1>3, TxFacts DEF TxKeys
      <4> QED BY <4>1, <1>3 DEF C!Readable, Known
    <3> QED BY <3>1, <3>2
  <2>4. C!Shredded'
    BY <1>3 DEF KeysInv, Committed, C!Shredded, C!Live, C!Destroyed, C!Readable, C!Empty
  <2> QED BY <2>1, <2>2, <2>3, <2>4 DEF Committed, KeysInv
<1> QED BY <1>4, <1>6, <1>7, <1>8, <1>9, <1>10 DEF KeysInv

(* The three of them.                                                      *)
LEMMA CommitsKeep ==
    ASSUME C!KeysAssumption, KeysInv, NEW p \in C!Txs, C!WriteCommit(p) \/ C!RotateCommit(p) \/ C!UpgradeCommit(p)
    PROVE  KeysInv'
<1>1. /\ tx[p].pc = "commit" /\ C!Commit(p) /\ UNCHANGED <<oldBackend, last, writes, shredded>>
      /\ p # "destroy" /\ (latest' = latest \/ latest' = tx[p].wrote.val)
      /\ (moved' = moved \/ (p = "upgrade" /\ moved' = (moved \/ tx[p].late)))
  BY DEF C!WriteCommit, C!RotateCommit, C!UpgradeCommit, C!At, C!KeysAssumption
<1>2. latest' \in 0..MaxWrite
  BY <1>1, TxFacts DEF C!Value, KeysInv, KeysTypes, C!KeysTypeOK
<1>3. moved \in BOOLEAN /\ tx[p].late \in BOOLEAN
  BY TxFacts DEF KeysInv, KeysTypes
<1>4. moved' \in BOOLEAN /\ (moved' => moved \/ (p = "upgrade" /\ tx[p].late))
  BY <1>1, <1>3
<1> QED BY <1>1, <1>2, <1>4, CommitKeeps

(* The previous backend writes, or stops.                                  *)
LEMMA OldKeeps ==
    ASSUME C!KeysAssumption, QuietStart, KeysInv, C!OldWrite \/ C!OldStops PROVE KeysInv'
<1>1. /\ UNCHANGED <<key, tx, last, shredded, moved>> /\ oldBackend /\ oldBackend' \in BOOLEAN
      /\ (oldBackend' => oldBackend) /\ writes' \in 0..MaxWrite /\ latest' \in 0..MaxWrite
      /\ secret' \in C!Value /\ (secret' = secret \/ (secret'.key = 0 /\ oldBackend'))
  <2>1. writes \in 0..MaxWrite /\ latest \in 0..MaxWrite /\ secret \in C!Value /\ MaxKey \in Nat /\ MaxWrite \in Nat
    BY DEF KeysInv, KeysTypes, C!KeysTypeOK, C!KeysAssumption
  <2>2. CASE C!OldWrite
    <3>1. writes + 1 \in 0..MaxWrite /\ oldBackend' = oldBackend /\ oldBackend
      BY <2>1, <2>2 DEF C!OldWrite
    <3>2. secret' \in C!Value /\ secret'.key = 0
      BY <2>1, <2>2, <3>1 DEF C!OldWrite, C!Value
    <3> QED BY <2>1, <2>2, <3>1, <3>2 DEF C!OldWrite, KeysInv, KeysTypes
  <2>3. CASE C!OldStops
    BY <2>1, <2>3 DEF C!OldStops
  <2> QED BY <2>2, <2>3
<1>2. ~shredded /\ ~moved
  BY <1>1 DEF KeysInv, Committed, LegacyDone
<1>3. "destroy" \in Operators => tx["destroy"].pc = "idle" /\ "destroy" \in C!Txs
  BY <1>1 DEF KeysInv, DestroysAlone, C!Txs
<1>4. KeysTypes'
  BY <1>1 DEF KeysInv, KeysTypes, C!KeysTypeOK
<1>5. (\A q \in C!Txs : TxPhase(q, tx[q]) /\ TxKeys(q, tx[q]) /\ TxLegacy(q, tx[q]))'
  <2> SUFFICES ASSUME NEW q \in C!Txs PROVE (TxPhase(q, tx[q]) /\ TxKeys(q, tx[q]) /\ TxLegacy(q, tx[q]))'
    BY DEF C!Txs
  <2>1. TxPhase(q, tx[q]) /\ TxKeys(q, tx[q]) /\ TxLegacy(q, tx[q]) /\ tx[q].late \in BOOLEAN
    BY TxFacts
  <2>2. q = "destroy" => tx[q].pc = "idle"
    BY <1>3 DEF C!Txs, C!KeysAssumption
  <2>3. TxPhase(q, tx[q])'
    BY <2>1, <1>1 DEF TxPhase, Known
  <2>4. TxKeys(q, tx[q])'
    BY <2>1, <1>1 DEF TxKeys, Known
  <2>5. TxLegacy(q, tx[q])'
    BY <2>1, <2>2, <1>1 DEF TxLegacy
  <2> QED BY <2>3, <2>4, <2>5
<1>6. OwnKeys'
  BY <1>1 DEF KeysInv, OwnKeys
<1>7. DestroysAlone'
  BY <1>1, <1>3 DEF DestroysAlone
<1>8. LegacyDone'
  BY <1>1, <1>2, <1>5 DEF LegacyDone
<1>9. Committed'
  <2>1. C!SecretsOpen'
    BY <1>1, <1>2 DEF KeysInv, Committed, C!SecretsOpen, C!Empty, C!Readable
  <2>2. C!Shredded'
    BY <1>1, <1>2 DEF C!Shredded
  <2> QED BY <1>1, <1>2, <2>1, <2>2 DEF KeysInv, Committed
<1> QED BY <1>4, <1>5, <1>6, <1>7, <1>8, <1>9 DEF KeysInv

(* The destroy commits: no key can be read afterwards, and the secret was  *)
(* under one of them.                                                      *)
LEMMA DestroyCommitKeeps ==
    ASSUME C!KeysAssumption, KeysInv, NEW p \in C!Txs, C!DestroyCommit(p) PROVE KeysInv'
<1> DEFINE t == tx[p]
<1>1. p = "destroy" /\ t.pc = "locks" /\ shredded' = TRUE /\ UNCHANGED <<oldBackend, writes, latest, moved>>
  BY DEF C!DestroyCommit, C!At
<1>2. ~oldBackend /\ ~shredded /\ \A q \in C!Txs \ {p} : tx[q].pc = "idle"
  BY <1>1, StaysApart
<1>3. tx' = [tx EXCEPT ![p] = C!Idle] /\ tx \in [C!Txs -> TxRec]
  BY DEF C!DestroyCommit, C!Commit, KeysInv, KeysTypes
<1>4. tx' \in [C!Txs -> TxRec] /\ \A q \in C!Txs : tx'[q] = C!Idle
  <2>1. \A q \in C!Txs \ {p} : tx[q] = C!Idle
    BY <1>2, TxFacts DEF TxPhase
  <2> QED BY <1>3, <2>1, IdleFacts
<1>5. /\ key \in [C!Keys -> C!Status] /\ secret \in C!Value /\ t.wrote \in C!Value /\ last \in 0..MaxKey /\ MaxKey \in Nat
      /\ t.made \in 0..MaxKey /\ t.made <= last
      /\ (\A k \in C!Keys : key[k] # "destroyed" /\ t.memo[k] # "destroyed" /\ (k > last => key[k] = "none"))
      /\ (C!Empty(secret) \/ C!Readable(key, secret.key))
  BY <1>2, TxFacts DEF KeysInv, KeysTypes, C!KeysTypeOK, Committed, TxKeys, C!SecretsOpen, OwnKeys, C!KeysAssumption
<1>6. t.rows = {k \in C!Keys : Known(key, k) \/ k = t.made} /\ t.mark = "destroyed"
  BY <1>1, TxFacts DEF TxPhase
<1>7. /\ t.wrote = C!None => ~C!Legacy(secret)
      /\ t.wrote # C!None => t.wrote.val # 0 /\ t.wrote.key \in t.rows
  BY <1>1, <1>6, TxFacts DEF TxLegacy, TxKeys
<1>8. ~C!Legacy(secret) => C!Empty(secret) \/ secret.key \in t.rows
  <2>1. secret.key = 0 \/ secret.key \in C!Keys
    BY <1>5 DEF C!Value, C!Keys
  <2> QED BY <1>5, <1>6, <2>1 DEF C!Legacy, C!Readable, Known
<1>9. ~C!Destroyed(t.memo)
  BY <1>5 DEF C!Destroyed
<1> HIDE DEF t
<1>10. /\ last' \in 0..MaxKey /\ key' \in [C!Keys -> C!Status] /\ secret' \in C!Value
       /\ \A k \in C!Keys : key'[k] \in {"none", "destroyed"} /\ (k > last' => key'[k] = "none")
       /\ \E k \in C!Keys : key'[k] = "destroyed"
       /\ C!Empty(secret') \/ secret'.key \in C!Keys
  <2>1. CASE t.rows = {}
    <3>1. last < MaxKey /\ last' = last + 1 /\ key' = [key EXCEPT ![last'] = "destroyed"] /\ secret' = secret
      BY <2>1, <1>9 DEF C!DestroyCommit, t
    <3>2. last' \in C!Keys /\ last' \in 0..MaxKey
      BY <3>1, <1>5 DEF C!Keys
    <3>3. key' \in [C!Keys -> C!Status] /\ key'[last'] = "destroyed" /\ \A k \in C!Keys : k # last' => key'[k] = key[k]
      BY <3>1, <3>2, <1>5 DEF C!Status
    <3>4. \A k \in C!Keys : key[k] = "none"
      BY <2>1, <1>5, <1>6 DEF Known, C!Status
    <3>5. \A k \in C!Keys : key'[k] \in {"none", "destroyed"} /\ (k > last' => key'[k] = "none")
      <4> TAKE k \in C!Keys
      <4>1. CASE k = last'
        BY <4>1, <3>2, <3>3 DEF C!Keys
      <4>2. CASE k # last'
        BY <4>2, <3>3, <3>4
      <4> QED BY <4>1, <4>2
    <3>6. C!Empty(secret')
      BY <2>1, <3>1, <1>7, <1>8
    <3> QED BY <3>1, <3>2, <3>3, <3>5, <3>6, <1>5
  <2>2. CASE t.rows # {}
    <3>1. C!Commit(p) /\ last' = last
      BY <2>2 DEF C!DestroyCommit, t
    <3> DEFINE row(k) == CASE k \in t.rows -> t.mark
                           [] k = t.made /\ k \notin t.rows -> "live"
                           [] OTHER -> key[k]
    <3>2. \A k \in C!Keys : /\ k \in t.rows => row(k) = "destroyed"
                            /\ k \notin t.rows => row(k) = key[k] /\ key[k] = "none"
      BY <1>5, <1>6 DEF Known, C!Status
    <3>3. key' = [k \in C!Keys |-> row(k)] /\ secret' = IF C!Empty(t.wrote) THEN secret ELSE t.wrote
      BY <3>1 DEF C!Commit, t
    <3> HIDE DEF row
    <3>4. key' \in [C!Keys -> C!Status] /\ \A k \in C!Keys : key'[k] = row(k) /\ row(k) \in {"none", "destroyed"}
      <4>1. \A k \in C!Keys : row(k) \in C!Status /\ row(k) \in {"none", "destroyed"}
        BY <3>2 DEF C!Status
      <4> QED BY <3>3, <4>1
    <3>5. \E k \in C!Keys : key'[k] = "destroyed"
      BY <2>2, <3>2, <3>4, <1>6
    <3>6. \A k \in t.rows : k <= last
      <4> TAKE k \in t.rows
      <4>1. k \in C!Keys /\ (Known(key, k) \/ k = t.made)
        BY <1>6
      <4>2. k > last => key[k] = "none"
        BY <4>1, <1>5
      <4> QED BY <4>1, <4>2, <1>5 DEF Known, C!Keys
    <3>7. \A k \in C!Keys : k > last' => key'[k] = "none"
      <4> SUFFICES ASSUME NEW k \in C!Keys, k > last PROVE key'[k] = "none"
        BY <3>1
      <4>1. k \notin t.rows
        BY <3>6, <1>5 DEF C!Keys
      <4> QED BY <4>1, <3>2, <3>4
    <3>8. C!Empty(secret') \/ secret'.key \in C!Keys
      BY <3>3, <1>6, <1>7, <1>8, IdleFacts DEF C!Empty
    <3>9. secret' \in C!Value
      BY <3>3, <1>5
    <3> QED BY <3>1, <3>4, <3>5, <3>7, <3>8, <3>9, <1>5
  <2> QED BY <2>1, <2>2
<1>11. KeysTypes'
  <2>1. \A q \in C!Txs : tx'[q].read \in C!Value /\ tx'[q].wrote \in C!Value
    BY <1>4 DEF TxRec
  <2>2. writes' \in 0..MaxWrite /\ latest' \in 0..MaxWrite /\ oldBackend' \in BOOLEAN /\ shredded' \in BOOLEAN /\ moved' \in BOOLEAN
    BY <1>1 DEF KeysInv, KeysTypes, C!KeysTypeOK
  <2> QED BY <1>4, <1>10, <2>1, <2>2 DEF KeysTypes, C!KeysTypeOK
<1>12. (\A q \in C!Txs : TxPhase(q, tx[q]) /\ TxKeys(q, tx[q]) /\ TxLegacy(q, tx[q]))'
  <2> SUFFICES ASSUME NEW q \in C!Txs PROVE (TxPhase(q, tx[q]) /\ TxKeys(q, tx[q]) /\ TxLegacy(q, tx[q]))'
    BY DEF C!Txs
  <2> QED BY <1>4, IdleFacts DEF TxPhase, TxKeys, TxLegacy, Known
<1>13. OwnKeys' /\ DestroysAlone'
  BY <1>4, <1>10, IdleFacts DEF OwnKeys, DestroysAlone, C!Txs
<1>14. LegacyDone'
  <2>1. ~C!Legacy(secret')
    BY <1>10 DEF C!Legacy, C!Keys
  <2> QED BY <1>1, <1>2, <1>12, <2>1 DEF LegacyDone, C!Legacy, C!Empty
<1>15. Committed'
  <2>1. C!Shredded'
    <3>1. C!Live(key') = {}
      BY <1>10 DEF C!Live
    <3>2. C!Destroyed(key')
      BY <1>10, <3>1 DEF C!Destroyed
    <3>3. C!Empty(secret') \/ ~C!Readable(key', secret'.key)
      BY <1>10 DEF C!Readable, C!Keys
    <3> QED BY <3>1, <3>2, <3>3 DEF C!Shredded, C!Live, C!Destroyed, C!Empty, C!Readable
  <2> QED BY <1>1, <1>2, <1>10, <2>1 DEF Committed, C!SecretsOpen
<1> QED BY <1>11, <1>12, <1>13, <1>14, <1>15 DEF KeysInv

(* The invariant of the keys is kept, if they are destroyed in quiet.      *)
LEMMA KeysStep ==
    ASSUME C!KeysAssumption, QuietStart, KeysInv, C!KeysNext \/ UNCHANGED keysVars PROVE KeysInv'
<1>1. CASE C!OldWrite \/ C!OldStops
  BY <1>1, OldKeeps
<1>2. ASSUME NEW p \in C!Txs,
             \/ C!WriteBegin(p) \/ C!Encrypt(p) \/ C!WriteCommit(p) \/ C!Rollback(p)
             \/ C!RotateBegin(p) \/ C!RotateRead(p) \/ C!RotateFlush(p) \/ C!RotateRetire(p) \/ C!RotateCommit(p)
             \/ C!UpgradeBegin(p) \/ C!LegacyRead(p) \/ C!LegacyFlush(p) \/ C!UpgradeCommit(p)
             \/ C!DestroyBegin(p) \/ C!DestroyUpdate(p) \/ C!DestroyCommit(p)
      PROVE  KeysInv'
  <2>1. CASE C!WriteBegin(p) \/ C!Encrypt(p) \/ C!WriteCommit(p) \/ C!Rollback(p)
    BY <2>1, WriteBeginKeeps, EncryptKeeps, CommitsKeep, RollbackKeeps
  <2>2. CASE C!RotateBegin(p) \/ C!RotateRead(p) \/ C!RotateFlush(p) \/ C!RotateRetire(p) \/ C!RotateCommit(p)
    BY <2>2, RotateBeginKeeps, RotateReadKeeps, RotateFlushKeeps, RotateRetireKeeps, CommitsKeep
  <2>3. CASE C!UpgradeBegin(p) \/ C!LegacyRead(p) \/ C!LegacyFlush(p) \/ C!UpgradeCommit(p)
    BY <2>3, UpgradeBeginKeeps, LegacyReadKeeps, LegacyFlushKeeps, CommitsKeep
  <2>4. CASE C!DestroyBegin(p) \/ C!DestroyUpdate(p) \/ C!DestroyCommit(p)
    BY <2>4, DestroyBeginKeeps, DestroyUpdateKeeps, DestroyCommitKeeps
  <2> QED BY <1>2, <2>1, <2>2, <2>3, <2>4
<1>3. CASE UNCHANGED keysVars
  <2>1. UNCHANGED <<key, secret, oldBackend, tx, last, writes, latest, shredded, moved>>
    BY <1>3 DEF keysVars
  <2>2. (\A p \in C!Txs : TxPhase(p, tx[p]) /\ TxKeys(p, tx[p]) /\ TxLegacy(p, tx[p]))'
    <3> SUFFICES ASSUME NEW p \in C!Txs PROVE (TxPhase(p, tx[p]) /\ TxKeys(p, tx[p]) /\ TxLegacy(p, tx[p]))'
      BY DEF C!Txs
    <3> QED BY <2>1, TxFacts DEF TxPhase, TxKeys, TxLegacy, Known
  <2>3. KeysTypes' /\ OwnKeys' /\ DestroysAlone' /\ Committed'
    BY <2>1 DEF KeysInv, KeysTypes, C!KeysTypeOK, OwnKeys, DestroysAlone, Committed, C!SecretsOpen, C!Shredded
  <2> QED BY <2>1, <2>2, <2>3 DEF KeysInv, LegacyDone
<1> QED BY <1>1, <1>2, <1>3 DEF C!KeysNext

(* What the invariant of the keys says of the secret.                      *)
LEMMA KeysSafe ==
    ASSUME KeysInv PROVE C!KeysTypeOK /\ C!SecretsOpen /\ C!Shredded /\ C!LegacyGone
  BY DEF KeysInv, KeysTypes, Committed, LegacyDone, C!LegacyGone

-----------------------------------------------------------------------------
(***************************************************************************)
(* Support access.                                                         *)
(***************************************************************************)
(* A list that is not there is empty.  A process that has said that a      *)
(* grant is over has it in no list, and no list it reads from now on has   *)
(* it: a revoked grant stays revoked, and while the tenant is suspended    *)
(* the list is empty.                                                      *)
ListsShape ==
    /\ cache \in [Procs -> [here : BOOLEAN, list : SUBSET S!Grants]]
    /\ loading \in [Procs -> [here : BOOLEAN, list : SUBSET S!Grants]]
    /\ told \in [Procs -> SUBSET S!Grants] /\ support_late \in [Procs -> SUBSET S!Grants]
    /\ \A p \in Procs : ~cache[p].here => cache[p].list = {}
    /\ \A p \in Procs : ~loading[p].here => loading[p].list = {}
ToldIsOver ==
    \A p \in Procs : \A g \in told[p] :
        /\ g \notin cache[p].list /\ g \notin loading[p].list
        /\ support_grants[g] # "none" /\ (open => support_grants[g] # "active")
AuditedOnce == \A g \in S!Grants : audited[g] = 1 => support_grants[g] \in {"revoked", "expired"}
SupportInv == S!TypeOK /\ ListsShape /\ ToldIsOver /\ AuditedOnce

(* The invariant of support access holds at the start.                     *)
LEMMA SupportStart == ASSUME S!Init PROVE SupportInv
<1>1. S!NoList \in [here : BOOLEAN, list : SUBSET S!Grants] /\ S!NoList.list = {} /\ S!NoList.here = FALSE
  BY DEF S!NoList
<1> QED BY <1>1 DEF S!Init, SupportInv, S!TypeOK, ListsShape, ToldIsOver, AuditedOnce

(* The answer that grants are over, in the process that made them so.      *)
LEMMA OverKeeps ==
    ASSUME ListsShape, NEW p \in Procs, NEW G \in SUBSET S!Grants, S!Over(p, G), cache' = S!Invalidated(p), UNCHANGED loading
    PROVE  /\ ListsShape'
           /\ \A q \in Procs : \A g \in told'[q] :
                 \/ g \in told[q] /\ cache'[q].list \subseteq cache[q].list
                 \/ q = p /\ g \in G /\ cache'[q].list = {} /\ loading[q].list = {}
<1>1. S!NoList \in [here : BOOLEAN, list : SUBSET S!Grants] /\ S!NoList.list = {} /\ S!NoList.here = FALSE
  BY DEF S!NoList
<1>2. /\ cache' \in [Procs -> [here : BOOLEAN, list : SUBSET S!Grants]] /\ cache'[p] = S!NoList
      /\ \A q \in Procs : q # p => cache'[q] = cache[q]
  BY <1>1 DEF S!Invalidated, ListsShape
<1>3. CASE loading[p].here
  <2>1. told' = told /\ support_late' = [support_late EXCEPT ![p] = @ \cup G]
    BY <1>3 DEF S!Over
  <2>2. ListsShape'
    BY <1>1, <1>2, <2>1 DEF ListsShape
  <2> QED BY <1>1, <1>2, <2>1, <2>2
<1>4. CASE ~loading[p].here
  <2>1. support_late' = support_late /\ told' = [told EXCEPT ![p] = @ \cup G]
    BY <1>4 DEF S!Over
  <2>2. ListsShape'
    BY <1>1, <1>2, <2>1 DEF ListsShape
  <2> QED BY <1>1, <1>2, <1>4, <2>1, <2>2 DEF ListsShape
<1> QED BY <1>3, <1>4

(* The invariant of support access is kept.                                *)
LEMMA SupportStep == ASSUME SupportInv, S!Next \/ UNCHANGED supportVars PROVE SupportInv'
<1>0. S!NoList \in [here : BOOLEAN, list : SUBSET S!Grants] /\ S!NoList.list = {} /\ S!NoList.here = FALSE
  BY DEF S!NoList
<1> USE DEF SupportInv
<1>1. ASSUME NEW p \in Procs, NEW g \in S!Grants, S!Grant(p, g) PROVE SupportInv'
  <2>1. ListsShape'
    BY <1>0, <1>1 DEF S!Grant, S!Invalidated, ListsShape
  <2>2. S!TypeOK'
    BY <1>1, <2>1 DEF S!Grant, S!TypeOK, ListsShape
  <2>3. ToldIsOver'
    <3>1. \A q \in Procs : cache'[q].list \subseteq cache[q].list
      BY <1>0, <1>1 DEF S!Grant, S!Invalidated, ListsShape
    <3> QED BY <1>1, <3>1 DEF S!Grant, ToldIsOver, ListsShape, S!TypeOK
  <2>4. AuditedOnce'
    BY <1>1 DEF S!Grant, AuditedOnce, S!TypeOK
  <2> QED BY <2>1, <2>2, <2>3, <2>4
<1>2. ASSUME NEW p \in Procs, NEW g \in S!Grants, S!Revoke(p, g) PROVE SupportInv'
  <2>1. ListsShape' /\ \A q \in Procs : \A h \in told'[q] :
                 \/ h \in told[q] /\ cache'[q].list \subseteq cache[q].list
                 \/ q = p /\ h \in {g} /\ cache'[q].list = {} /\ loading[q].list = {}
    BY <1>2, OverKeeps DEF S!Revoke
  <2>2. /\ support_grants[g] = "active" /\ UNCHANGED <<open, loading>>
        /\ support_grants' = [support_grants EXCEPT ![g] = "revoked"] /\ audited' = [audited EXCEPT ![g] = @ + 1]
    BY <1>2 DEF S!Revoke
  <2>3. audited[g] = 0
    BY <2>2 DEF AuditedOnce, S!TypeOK
  <2>4. audited' \in [S!Grants -> 0..1] /\ support_grants' \in [S!Grants -> {"none", "active", "revoked", "expired"}]
    BY <2>2, <2>3 DEF S!TypeOK
  <2>5. S!TypeOK'
    BY <2>1, <2>2, <2>4 DEF S!TypeOK, ListsShape
  <2>6. ToldIsOver'
    BY <2>1, <2>2 DEF ToldIsOver, ListsShape, S!TypeOK
  <2>7. AuditedOnce'
    BY <2>2, <2>3 DEF AuditedOnce, S!TypeOK
  <2> QED BY <2>1, <2>5, <2>6, <2>7
<1>3. ASSUME NEW g \in S!Grants, S!Expire(g) PROVE SupportInv'
  <2>1. ListsShape'
    BY <1>3 DEF S!Expire, ListsShape
  <2> QED BY <1>3, <2>1 DEF S!Expire, S!TypeOK, ListsShape, ToldIsOver, AuditedOnce
<1>4. ASSUME NEW g \in S!Grants, S!ExpireGrants(g) PROVE SupportInv'
  <2>1. ListsShape'
    BY <1>4 DEF S!ExpireGrants, ListsShape
  <2> QED BY <1>4, <2>1 DEF S!ExpireGrants, S!TypeOK, ListsShape, ToldIsOver, AuditedOnce
<1>5. ASSUME NEW p \in Procs, S!Flip(p) PROVE SupportInv'
  <2>1. UNCHANGED <<support_grants, audited, loading>> /\ open' = ~open /\ cache' = S!Invalidated(p)
    BY <1>5 DEF S!Flip
  <2>2. CASE open
    <3>1. S!Over(p, S!Active) /\ S!Active \in SUBSET S!Grants
      BY <1>5, <2>2 DEF S!Flip, S!Active
    <3>2. ListsShape' /\ \A q \in Procs : \A h \in told'[q] :
                 \/ h \in told[q] /\ cache'[q].list \subseteq cache[q].list
                 \/ q = p /\ h \in S!Active /\ cache'[q].list = {} /\ loading[q].list = {}
      BY <2>1, <3>1, OverKeeps
    <3>3. ToldIsOver'
      BY <2>1, <2>2, <3>2 DEF ToldIsOver, S!Active
    <3> QED BY <2>1, <2>2, <3>2, <3>3 DEF S!TypeOK, ListsShape, AuditedOnce
  <2>3. CASE ~open
    <3>1. /\ told' = [q \in Procs |-> told[q] \ S!Active] /\ support_late' = [q \in Procs |-> support_late[q] \ S!Active]
      BY <1>5, <2>3 DEF S!Flip, S!Back
    <3>2. /\ cache' \in [Procs -> [here : BOOLEAN, list : SUBSET S!Grants]] /\ cache'[p] = S!NoList
          /\ \A q \in Procs : q # p => cache'[q] = cache[q]
      BY <1>0, <2>1 DEF S!Invalidated, ListsShape
    <3>3. ListsShape'
      BY <1>0, <2>1, <3>1, <3>2 DEF ListsShape
    <3>4. ToldIsOver'
      <4>1. \A q \in Procs : told'[q] \subseteq told[q] /\ told'[q] \cap S!Active = {} /\ cache'[q].list \subseteq cache[q].list
        BY <1>0, <3>1, <3>2
      <4>2. \A q \in Procs : told[q] \subseteq S!Grants
        BY DEF ListsShape
      <4> QED BY <2>1, <4>1, <4>2 DEF ToldIsOver, S!Active
    <3> QED BY <2>1, <3>3, <3>4 DEF S!TypeOK, ListsShape, AuditedOnce
  <2> QED BY <2>2, <2>3 DEF S!TypeOK
<1>6. ASSUME NEW p \in Procs, S!Load(p) PROVE SupportInv'
  <2> DEFINE l == [here |-> TRUE, list |-> S!Listed]
  <2>1. /\ loading' = [loading EXCEPT ![p] = l] /\ S!Listed \subseteq S!Grants
        /\ UNCHANGED <<support_grants, audited, open, cache, told, support_late>>
    BY <1>6 DEF S!Load, S!Listed, S!Active
  <2>2. ListsShape' /\ loading'[p].list = S!Listed /\ \A q \in Procs : q # p => loading'[q] = loading[q]
    BY <2>1 DEF ListsShape
  <2>3. \A g \in told[p] : g \notin S!Listed
    BY DEF ToldIsOver, S!Listed, S!Active
  <2> HIDE DEF l
  <2>4. ToldIsOver'
    BY <2>1, <2>2, <2>3 DEF ToldIsOver
  <2> QED BY <2>1, <2>2, <2>4 DEF S!TypeOK, ListsShape, AuditedOnce
<1>7. ASSUME NEW p \in Procs, S!Store(p) PROVE SupportInv'
  <2>1. ListsShape' /\ \A q \in Procs : /\ cache'[q].list \in {cache[q].list, loading[q].list}
                                        /\ loading'[q].list \in {loading[q].list, {}}
    BY <1>0, <1>7 DEF S!Store, ListsShape
  <2>2. UNCHANGED <<support_grants, audited, open, told, support_late>>
    BY <1>7 DEF S!Store
  <2>3. ToldIsOver'
    BY <2>1, <2>2 DEF ToldIsOver
  <2> QED BY <2>1, <2>2, <2>3 DEF S!TypeOK, ListsShape, AuditedOnce
<1>8. ASSUME NEW p \in Procs, S!CacheEnds(p) PROVE SupportInv'
  <2>1. ListsShape' /\ \A q \in Procs : cache'[q].list \in {cache[q].list, {}}
    BY <1>0, <1>8 DEF S!CacheEnds, ListsShape
  <2>2. UNCHANGED <<support_grants, audited, open, loading, told, support_late>>
    BY <1>8 DEF S!CacheEnds
  <2>3. ToldIsOver'
    BY <2>1, <2>2 DEF ToldIsOver
  <2> QED BY <2>1, <2>2, <2>3 DEF S!TypeOK, ListsShape, AuditedOnce
<1>9. ASSUME UNCHANGED <<support_grants, audited, open, cache, loading, told, support_late>> PROVE SupportInv'
  BY <1>9 DEF S!TypeOK, ListsShape, ToldIsOver, AuditedOnce, S!Grants
<1> QED BY <1>1, <1>2, <1>3, <1>4, <1>5, <1>6, <1>7, <1>8, <1>9 DEF S!Next, S!Access, supportVars

(* Whoever is let in is let in with a grant that is in the list and has    *)
(* not run out.                                                            *)
LEMMA LetIn ==
    ASSUME SupportInv, S!Next \/ UNCHANGED supportVars, S!SupportAssumption
    PROVE  /\ used' # used => used'.grant \notin told[used'.proc]
           /\ used' # used /\ used'.grant # 0 => support_grants[used'.grant] # "expired"
<1> SUFFICES ASSUME used' # used
             PROVE  used'.grant \notin told[used'.proc] /\ (used'.grant # 0 => support_grants[used'.grant] # "expired")
  OBVIOUS
<1>1. PICK p \in Procs : S!Access(p)
  BY DEF S!Next, supportVars, S!Flip, S!Load, S!Store, S!CacheEnds, S!Grant, S!Revoke, S!Expire, S!ExpireGrants
<1>2. S!Usable(p) \subseteq 1..MaxGrants /\ S!Usable(p) \subseteq cache[p].list /\ MaxGrants \in Nat
  BY DEF S!Usable, SupportInv, S!TypeOK, S!Grants, S!SupportAssumption
<1>3. CASE S!Usable(p) = {}
  <2>1. used'.proc = p /\ used'.grant = 0
    BY <1>1, <1>3 DEF S!Access
  <2>2. told[p] \subseteq 1..MaxGrants
    BY DEF SupportInv, ListsShape, S!Grants
  <2> QED BY <2>1, <2>2
<1>4. CASE S!Usable(p) # {}
  <2>1. used'.proc = p /\ used'.grant = CHOOSE g \in S!Usable(p) : \A h \in S!Usable(p) : h <= g
    BY <1>1, <1>4 DEF S!Access
  <2>2. used'.grant \in S!Usable(p)
    BY <1>2, <1>4, <2>1, GreatestBelow
  <2> QED BY <1>2, <2>1, <2>2 DEF S!Usable, SupportInv, ToldIsOver
<1> QED BY <1>3, <1>4

-----------------------------------------------------------------------------
(***************************************************************************)
(* Statements.                                                             *)
(***************************************************************************)
(* A connection carries the binding of the session that has it, and is     *)
(* nobody else's.                                                          *)
SessionsOwn ==
    \A k \in ScopeTasks : scopes_conn[k] # TS!NoConn =>
        /\ info[scopes_conn[k]] = bound[k]
        /\ \A j \in ScopeTasks : scopes_conn[j] = scopes_conn[k] => j = k

(* An object that was added for one tenant has that tenant; one without a  *)
(* tenant may become anybody's, once.                                      *)
PendingOwn ==
    \A k \in ScopeTasks :
        \/ pending[k] = TS!Nothing
        \/ pending[k].tenant = TS!Nobody /\ pending[k].made = Customers
        \/ pending[k].tenant \in Customers /\ pending[k].made = {pending[k].tenant}

(* Inductive: what is confined now follows from what the hook noted before *)
(* and from whose binding the connection carries.                          *)
ScopesInv == TS!ScopesTypeOK /\ TS!NoteTrue /\ SessionsOwn /\ PendingOwn /\ TS!ScopesHold

(* What a scope allows, case by case.                                      *)
LEMMA AllowedValues ==
    ASSUME TS!ScopesAssumption
    PROVE  /\ TS!Allowed(TS!System) = Customers /\ TS!Allowed(TS!NoScope) = {}
           /\ \A t \in Customers : TS!Allowed(t) = {t}
BY DEF TS!ScopesAssumption, TS!Allowed, TS!System, TS!NoScope, TS!Nobody, TS!Unknown

(* What the policies let through, case by case.                            *)
LEMMA PolicyValues ==
    ASSUME TS!ScopesAssumption
    PROVE  /\ TS!Policy(TS!System) = Customers /\ TS!Policy(TS!Clean) = {}
           /\ \A t \in Customers : TS!Policy(t) = {t}
BY DEF TS!ScopesAssumption, TS!Policy, TS!System, TS!NoScope, TS!Nobody, TS!Unknown, TS!Clean

(* The settings the hook wants let through what the task may reach.        *)
LEMMA WantedConfined ==
    ASSUME TS!ScopesAssumption, ScopesInv, NEW k \in ScopeTasks, scopes_conn[k] # TS!NoConn
    PROVE  TS!Wanted(k) \in TS!Settings /\ TS!Policy(TS!Wanted(k)) \subseteq TS!Allowed(TS!Effective(k))
<1> DEFINE c == scopes_conn[k]
<1>1. /\ c \in Conns /\ ctx[k] \in Customers \cup {TS!System, TS!NoScope}
      /\ info[c] = bound[k] /\ bound[k] \in Customers \cup {TS!Nobody}
  BY DEF ScopesInv, TS!ScopesTypeOK, SessionsOwn
<1>2. CASE ctx[k] # TS!NoScope
  <2>1. TS!Wanted(k) = ctx[k] /\ TS!Effective(k) = ctx[k]
    BY <1>2 DEF TS!Wanted, TS!Effective
  <2> QED BY <1>1, <1>2, <2>1, AllowedValues, PolicyValues DEF TS!Settings
<1>3. CASE ctx[k] = TS!NoScope /\ bound[k] = TS!Nobody
  <2>1. TS!Wanted(k) = TS!Clean /\ TS!Effective(k) = TS!NoScope
    BY <1>1, <1>3 DEF TS!Wanted, TS!Effective
  <2> QED BY <2>1, PolicyValues DEF TS!Settings
<1>4. CASE ctx[k] = TS!NoScope /\ bound[k] # TS!Nobody
  <2>1. TS!Wanted(k) = bound[k] /\ TS!Effective(k) = bound[k] /\ bound[k] \in Customers
    BY <1>1, <1>4 DEF TS!Wanted, TS!Effective
  <2> QED BY <2>1, AllowedValues, PolicyValues DEF TS!Settings
<1> QED BY <1>2, <1>3, <1>4

(* After the hook the note is true again, and with row-level security the  *)
(* server has the settings that are wanted.                                *)
LEMMA HookEffect ==
    ASSUME TS!ScopesAssumption, ScopesInv, NEW k \in ScopeTasks, scopes_conn[k] # TS!NoConn, TS!Hook(k)
    PROVE  /\ guc' \in [Conns -> TS!Settings] /\ note' \in [Conns -> TS!Settings \cup {TS!Unknown}]
           /\ \A c \in Conns : note'[c] \in {guc'[c], TS!Unknown}
           /\ TS!Behind(k) \subseteq Customers
           /\ rls => TS!Behind(k) \subseteq TS!Allowed(TS!Effective(k))
<1> DEFINE c == scopes_conn[k] w == TS!Wanted(k)
<1>1. /\ c \in Conns /\ guc \in [Conns -> TS!Settings] /\ note \in [Conns -> TS!Settings \cup {TS!Unknown}]
      /\ \A x \in Conns : note[x] \in {guc[x], TS!Unknown}
      /\ rls \in BOOLEAN
  BY DEF ScopesInv, TS!ScopesTypeOK, TS!NoteTrue
<1>2. w \in TS!Settings /\ TS!Policy(w) \subseteq TS!Allowed(TS!Effective(k))
  BY WantedConfined
<1>3. w # TS!Unknown
  BY <1>2 DEF TS!ScopesAssumption, TS!Settings, TS!Unknown, TS!Clean, TS!System, TS!Nobody
<1>4. \A s \in TS!Settings : TS!Policy(s) \subseteq Customers
  BY PolicyValues DEF TS!Settings
<1> HIDE DEF w
<1>5. CASE rls /\ note[c] # w
  <2>1. guc' = [guc EXCEPT ![c] = w] /\ note' = [note EXCEPT ![c] = w]
    BY <1>5 DEF TS!Hook, w
  <2>2. guc'[c] = w
    BY <2>1, <1>1
  <2>3. TS!Behind(k) = TS!Policy(w)
    BY <1>5, <2>2 DEF TS!Behind
  <2> QED BY <1>1, <1>2, <1>4, <2>1, <2>3
<1>6. CASE rls /\ note[c] = w
  <2>1. guc' = guc /\ note' = note
    BY <1>6 DEF TS!Hook, w
  <2>2. guc'[c] = w
    BY <1>1, <1>3, <1>6, <2>1
  <2>3. TS!Behind(k) = TS!Policy(w)
    BY <1>6, <2>2 DEF TS!Behind
  <2> QED BY <1>1, <1>2, <1>4, <2>1, <2>3
<1>7. CASE ~rls
  <2>1. guc' = guc /\ note' = note
    BY <1>7 DEF TS!Hook
  <2>2. TS!Behind(k) = Customers
    BY <1>7 DEF TS!Behind
  <2> QED BY <1>1, <1>7, <2>1, <2>2
<1> QED BY <1>1, <1>5, <1>6, <1>7

(* A step after which the connections are as they were.                    *)
LEMMA SessionsKept ==
    ASSUME SessionsOwn, UNCHANGED <<scopes_conn, info, bound>>
    PROVE  SessionsOwn'
BY DEF SessionsOwn

(* A task's transaction ends: its connection is given back, clean.         *)
LEMMA EndKeeps ==
    ASSUME TS!ScopesAssumption, ScopesInv, NEW k \in ScopeTasks, scopes_conn[k] # TS!NoConn, TS!Ended(k), UNCHANGED bound
    PROVE  /\ scopes_conn' \in [ScopeTasks -> Conns \cup {TS!NoConn}] /\ guc' \in [Conns -> TS!Settings]
           /\ note' \in [Conns -> TS!Settings \cup {TS!Unknown}] /\ info' \in [Conns -> Customers \cup {TS!Nobody}]
           /\ saved' \in [Conns -> Seq(TS!Settings)] /\ (\A c \in Conns : Len(saved'[c]) <= 1)
           /\ TS!NoteTrue' /\ SessionsOwn'
<1> DEFINE c == scopes_conn[k]
<1>1. /\ scopes_conn' = [scopes_conn EXCEPT ![k] = TS!NoConn] /\ guc' = [guc EXCEPT ![c] = TS!Clean]
      /\ saved' = [saved EXCEPT ![c] = <<>>] /\ note' = [note EXCEPT ![c] = TS!Clean]
      /\ info' = [info EXCEPT ![c] = TS!Nobody]
  BY DEF TS!Ended
<1>2. /\ c \in Conns /\ scopes_conn \in [ScopeTasks -> Conns \cup {TS!NoConn}] /\ guc \in [Conns -> TS!Settings]
      /\ note \in [Conns -> TS!Settings \cup {TS!Unknown}] /\ info \in [Conns -> Customers \cup {TS!Nobody}]
      /\ saved \in [Conns -> Seq(TS!Settings)] /\ \A x \in Conns : Len(saved[x]) <= 1
  BY DEF ScopesInv, TS!ScopesTypeOK
<1>3. TS!Clean \in TS!Settings
  BY DEF TS!Settings
<1>4. TS!NoteTrue'
  BY <1>1, <1>2 DEF ScopesInv, TS!NoteTrue
<1>5. SessionsOwn'
  <2> SUFFICES ASSUME NEW j \in ScopeTasks, scopes_conn'[j] # TS!NoConn
               PROVE  info'[scopes_conn'[j]] = bound'[j] /\ \A i \in ScopeTasks : scopes_conn'[i] = scopes_conn'[j] => i = j
    BY DEF SessionsOwn
  <2>1. j # k /\ scopes_conn'[j] = scopes_conn[j]
    BY <1>1, <1>2
  <2>2. scopes_conn[j] # c /\ scopes_conn[j] \in Conns
    BY <1>2, <2>1 DEF ScopesInv, SessionsOwn
  <2>3. info'[scopes_conn'[j]] = info[scopes_conn[j]]
    BY <1>1, <1>2, <2>1, <2>2
  <2> QED BY <1>1, <1>2, <2>1, <2>3 DEF ScopesInv, SessionsOwn
<1>6. saved' \in [Conns -> Seq(TS!Settings)] /\ \A x \in Conns : Len(saved'[x]) <= 1
  BY <1>1, <1>2
<1> QED BY <1>1, <1>2, <1>3, <1>4, <1>5, <1>6

(* What was added is there no more.                                        *)
LEMMA FlushedKeeps ==
    ASSUME ScopesInv, NEW k \in ScopeTasks, TS!Flushed(k)
    PROVE  /\ pending' \in [ScopeTasks -> [tenant : Customers \cup {TS!Nobody}, made : SUBSET Customers]]
           /\ dirty' \in [ScopeTasks -> Customers \cup {TS!Nobody}]
           /\ PendingOwn'
<1>1. /\ pending \in [ScopeTasks -> [tenant : Customers \cup {TS!Nobody}, made : SUBSET Customers]]
      /\ dirty \in [ScopeTasks -> Customers \cup {TS!Nobody}]
      /\ pending' = [pending EXCEPT ![k] = TS!Nothing] /\ dirty' = [dirty EXCEPT ![k] = TS!Nobody]
  BY DEF ScopesInv, TS!ScopesTypeOK, TS!Flushed
<1>2. TS!Nothing \in [tenant : Customers \cup {TS!Nobody}, made : SUBSET Customers]
  BY DEF TS!Nothing
<1> QED BY <1>1, <1>2 DEF ScopesInv, PendingOwn

(* A flush writes no object for a tenant it was not added for, and changes *)
(* none that the task may not reach.                                       *)
LEMMA FlushConfined ==
    ASSUME TS!ScopesAssumption, ScopesInv, NEW k \in ScopeTasks, TS!NewOK(k), TS!ChangedOK(k), TS!Behind(k) \subseteq Customers
    PROVE  /\ ~(pending[k] # TS!Nothing /\ TS!Owner(k) \in TS!Behind(k) \ pending[k].made)
           /\ dirty[k] \notin TS!Behind(k) \ TS!Allowed(TS!Effective(k))
<1> DEFINE e == TS!Effective(k)
<1>1. /\ pending[k] \in [tenant : Customers \cup {TS!Nobody}, made : SUBSET Customers]
      /\ dirty[k] \in Customers \cup {TS!Nobody} /\ TS!Nobody \notin Customers
  BY DEF ScopesInv, TS!ScopesTypeOK, TS!ScopesAssumption
<1>2. e \in Customers \cup {TS!System, TS!NoScope}
  BY DEF ScopesInv, TS!ScopesTypeOK, TS!Effective
<1>3. ASSUME pending[k] # TS!Nothing, TS!Owner(k) \in TS!Behind(k)
      PROVE  TS!Owner(k) \in pending[k].made
  <2>1. CASE pending[k].tenant = TS!Nobody
    <3>1. pending[k].made = Customers
      BY <1>1, <1>3, <2>1 DEF ScopesInv, PendingOwn
    <3> QED BY <1>3, <3>1
  <2>2. CASE pending[k].tenant # TS!Nobody
    <3>1. pending[k].made = {pending[k].tenant} /\ TS!Owner(k) = pending[k].tenant
      BY <1>3, <2>2 DEF ScopesInv, PendingOwn, TS!Owner
    <3> QED BY <3>1
  <2> QED BY <2>1, <2>2
<1>4. ASSUME dirty[k] \in TS!Behind(k)
      PROVE  dirty[k] \in TS!Allowed(e)
  <2>1. dirty[k] \in Customers /\ dirty[k] # TS!Nobody
    BY <1>1, <1>4
  <2>2. e = TS!System \/ dirty[k] = e
    BY <2>1 DEF TS!ChangedOK
  <2> QED BY <2>1, <2>2, AllowedValues
<1> QED BY <1>3, <1>4

(* Every step keeps the invariant, action by action.                       *)
LEMMA ScopesStep == ASSUME TS!ScopesAssumption, ScopesInv, [TS!ScopesNext]_scopesVars PROVE ScopesInv'
<1> USE DEF ScopesInv
<1>1. ASSUME NEW k \in ScopeTasks, NEW c \in Customers \cup {TS!System, TS!NoScope}, TS!Scope(k, c)
      PROVE  ScopesInv'
  <2>1. TS!ScopesTypeOK'
    BY <1>1 DEF TS!Scope, TS!Bounded, TS!ScopesTypeOK, TS!ScopesAssumption, TS!Settings
  <2>2. TS!NoteTrue' /\ PendingOwn' /\ TS!ScopesHold'
    BY <1>1 DEF TS!Scope, TS!NoteTrue, PendingOwn, TS!ScopesHold
  <2>3. SessionsOwn'
    BY <1>1, SessionsKept DEF TS!Scope
  <2> QED BY <2>1, <2>2, <2>3
<1>2. ASSUME NEW k \in ScopeTasks, NEW c \in Conns, TS!Begin(k, c)
      PROVE  ScopesInv'
  <2>1. /\ scopes_conn' = [scopes_conn EXCEPT ![k] = c] /\ guc' = [guc EXCEPT ![c] = TS!Clean]
        /\ saved' = [saved EXCEPT ![c] = <<>>] /\ note' = [note EXCEPT ![c] = TS!Clean]
        /\ info' = [info EXCEPT ![c] = bound[k]]
        /\ UNCHANGED <<rls, ctx, bound, pending, dirty, strayed, steps>>
        /\ \A j \in ScopeTasks : scopes_conn[j] # c
    BY <1>2 DEF TS!Begin
  <2>2. TS!Clean \in TS!Settings /\ <<>> \in Seq(TS!Settings) /\ Len(<<>>) <= 1
    BY DEF TS!Settings
  <2>3. TS!ScopesTypeOK'
    BY <2>1, <2>2 DEF TS!ScopesTypeOK, TS!Settings
  <2>4. TS!NoteTrue'
    BY <2>1 DEF TS!NoteTrue, TS!ScopesTypeOK
  <2>5. PendingOwn' /\ TS!ScopesHold'
    BY <2>1 DEF PendingOwn, TS!ScopesHold
  <2>6. SessionsOwn'
    <3> SUFFICES ASSUME NEW j \in ScopeTasks, scopes_conn'[j] # TS!NoConn
                 PROVE  info'[scopes_conn'[j]] = bound'[j] /\ \A i \in ScopeTasks : scopes_conn'[i] = scopes_conn'[j] => i = j
      BY DEF SessionsOwn
    <3> QED BY <2>1 DEF SessionsOwn, TS!ScopesTypeOK
  <2> QED BY <2>3, <2>4, <2>5, <2>6
<1>3. ASSUME NEW k \in ScopeTasks, NEW t \in Customers, TS!Change(k, t)
      PROVE  ScopesInv'
  <2>1. TS!ScopesTypeOK'
    BY <1>3 DEF TS!Change, TS!Bounded, TS!ScopesTypeOK, TS!ScopesAssumption, TS!Settings
  <2>2. TS!NoteTrue' /\ PendingOwn' /\ TS!ScopesHold'
    BY <1>3 DEF TS!Change, TS!NoteTrue, PendingOwn, TS!ScopesHold
  <2>3. SessionsOwn'
    BY <1>3, SessionsKept DEF TS!Change
  <2> QED BY <2>1, <2>2, <2>3
<1>4. ASSUME NEW k \in ScopeTasks, NEW given \in Customers \cup {TS!Nobody}, TS!Add(k, given)
      PROVE  ScopesInv'
  <2> DEFINE e == TS!Effective(k)
             new == [tenant |-> TS!Stamp(e, given), made |-> TS!MadeFor(e, given)]
  <2>1. /\ pending' = [pending EXCEPT ![k] = new]
        /\ UNCHANGED <<rls, ctx, bound, scopes_conn, guc, saved, note, info, dirty, strayed>>
        /\ steps < MaxStatements /\ steps' = steps + 1
    BY <1>4 DEF TS!Add, TS!Bounded
  <2>2. \/ new.tenant = TS!Nobody /\ new.made = Customers
        \/ new.tenant \in Customers /\ new.made = {new.tenant}
    BY DEF TS!Stamp, TS!MadeFor
  <2>3. new \in [tenant : Customers \cup {TS!Nobody}, made : SUBSET Customers]
    BY <2>2
  <2> HIDE DEF new
  <2>4. TS!ScopesTypeOK'
    BY <2>1, <2>3 DEF TS!ScopesTypeOK, TS!ScopesAssumption, TS!Settings
  <2>5. PendingOwn'
    BY <2>1, <2>2 DEF PendingOwn, TS!ScopesTypeOK
  <2>6. TS!NoteTrue' /\ TS!ScopesHold'
    BY <2>1 DEF TS!NoteTrue, TS!ScopesHold
  <2>7. SessionsOwn'
    BY <2>1, SessionsKept
  <2> QED BY <2>4, <2>5, <2>6, <2>7
<1>5. ASSUME NEW k \in ScopeTasks, TS!End(k) \/ TS!FlushRefused(k)
      PROVE  ScopesInv'
  <2>1. scopes_conn[k] # TS!NoConn /\ TS!Ended(k) /\ TS!Flushed(k) /\ UNCHANGED <<rls, ctx, bound, strayed, steps>>
    BY <1>5 DEF TS!End, TS!FlushRefused, TS!Unflushed, TS!Flushed
  <2>2. /\ scopes_conn' \in [ScopeTasks -> Conns \cup {TS!NoConn}] /\ guc' \in [Conns -> TS!Settings]
        /\ note' \in [Conns -> TS!Settings \cup {TS!Unknown}] /\ info' \in [Conns -> Customers \cup {TS!Nobody}]
        /\ saved' \in [Conns -> Seq(TS!Settings)] /\ (\A c \in Conns : Len(saved'[c]) <= 1)
        /\ TS!NoteTrue' /\ SessionsOwn'
    BY <2>1, EndKeeps
  <2>3. /\ pending' \in [ScopeTasks -> [tenant : Customers \cup {TS!Nobody}, made : SUBSET Customers]]
        /\ dirty' \in [ScopeTasks -> Customers \cup {TS!Nobody}] /\ PendingOwn'
    BY <2>1, FlushedKeeps
  <2>4. TS!ScopesTypeOK'
    BY <2>1, <2>2, <2>3 DEF TS!ScopesTypeOK, TS!Settings
  <2>5. TS!ScopesHold'
    BY <2>1 DEF TS!ScopesHold
  <2> QED BY <2>2, <2>3, <2>4, <2>5
<1>6. ASSUME NEW k \in ScopeTasks, TS!Savepoint(k)
      PROVE  ScopesInv'
  <2>1. /\ scopes_conn[k] \in Conns /\ saved' = [saved EXCEPT ![scopes_conn[k]] = <<guc[scopes_conn[k]]>>]
        /\ UNCHANGED <<rls, ctx, bound, scopes_conn, guc, note, info, pending, dirty, strayed>>
        /\ steps < MaxStatements /\ steps' = steps + 1 /\ guc[scopes_conn[k]] \in TS!Settings
    BY <1>6 DEF TS!Savepoint, TS!Bounded, TS!ScopesTypeOK
  <2>2. <<guc[scopes_conn[k]]>> \in Seq(TS!Settings) /\ Len(<<guc[scopes_conn[k]]>>) <= 1
    BY <2>1
  <2>3. saved' \in [Conns -> Seq(TS!Settings)] /\ \A c \in Conns : Len(saved'[c]) <= 1
    BY <2>1, <2>2 DEF TS!ScopesTypeOK
  <2>4. TS!ScopesTypeOK'
    BY <2>1, <2>3 DEF TS!ScopesTypeOK, TS!ScopesAssumption, TS!Settings
  <2>5. TS!NoteTrue' /\ PendingOwn' /\ TS!ScopesHold'
    BY <2>1 DEF TS!NoteTrue, PendingOwn, TS!ScopesHold
  <2>6. SessionsOwn'
    BY <2>1, SessionsKept
  <2> QED BY <2>4, <2>5, <2>6
<1>7. ASSUME NEW k \in ScopeTasks, TS!Release(k) \/ TS!RollbackTo(k)
      PROVE  ScopesInv'
  <2> DEFINE s == saved[scopes_conn[k]]
  <2>1. /\ scopes_conn[k] \in Conns /\ saved' = [saved EXCEPT ![scopes_conn[k]] = Tail(s)] /\ s # <<>>
        /\ UNCHANGED <<rls, ctx, bound, scopes_conn, info, pending, dirty, strayed, steps>>
    BY <1>7 DEF TS!Release, TS!RollbackTo, TS!ScopesTypeOK
  <2>2. s \in Seq(TS!Settings) /\ Len(s) <= 1
    BY <2>1 DEF TS!ScopesTypeOK
  <2>3. Tail(s) \in Seq(TS!Settings) /\ Len(Tail(s)) <= 1 /\ Head(s) \in TS!Settings
    BY <2>1, <2>2
  <2>4. saved' \in [Conns -> Seq(TS!Settings)] /\ \A c \in Conns : Len(saved'[c]) <= 1
    BY <2>1, <2>3 DEF TS!ScopesTypeOK
  <2>5. /\ guc' \in [Conns -> TS!Settings] /\ note' \in [Conns -> TS!Settings \cup {TS!Unknown}] /\ TS!NoteTrue'
    <3>1. CASE TS!Release(k)
      BY <3>1 DEF TS!Release, TS!ScopesTypeOK, TS!NoteTrue
    <3>2. CASE TS!RollbackTo(k)
      <4>1. /\ guc' = [guc EXCEPT ![scopes_conn[k]] = Head(s)] /\ note' = [note EXCEPT ![scopes_conn[k]] = TS!Unknown]
        BY <3>2 DEF TS!RollbackTo, TS!Noted
      <4> QED BY <2>1, <2>3, <4>1 DEF TS!ScopesTypeOK, TS!NoteTrue
    <3> QED BY <1>7, <3>1, <3>2
  <2>6. TS!ScopesTypeOK'
    BY <2>1, <2>4, <2>5 DEF TS!ScopesTypeOK, TS!Settings
  <2>7. PendingOwn' /\ TS!ScopesHold'
    BY <2>1 DEF PendingOwn, TS!ScopesHold
  <2>8. SessionsOwn'
    BY <2>1, SessionsKept
  <2> QED BY <2>5, <2>6, <2>7, <2>8
<1>8. ASSUME NEW k \in ScopeTasks, TS!Raw(k) \/ TS!Orm(k)
      PROVE  ScopesInv'
  <2>1. /\ scopes_conn[k] # TS!NoConn /\ TS!Hook(k) /\ steps < MaxStatements /\ steps' = steps + 1
        /\ UNCHANGED <<rls, ctx, bound, scopes_conn, saved, info, pending, dirty>>
    BY <1>8 DEF TS!Raw, TS!Orm, TS!Bounded
  <2>2. /\ guc' \in [Conns -> TS!Settings] /\ note' \in [Conns -> TS!Settings \cup {TS!Unknown}]
        /\ \A c \in Conns : note'[c] \in {guc'[c], TS!Unknown}
        /\ rls => TS!Behind(k) \subseteq TS!Allowed(TS!Effective(k))
    BY <2>1, HookEffect
  <2>3. TS!ScopesHold'
    <3>1. CASE TS!Raw(k)
      BY <2>2, <3>1 DEF TS!Raw, TS!Reached, TS!ScopesHold
    <3>2. CASE TS!Orm(k)
      BY <3>2 DEF TS!Orm, TS!Reached, TS!ScopesHold
    <3> QED BY <1>8, <3>1, <3>2
  <2>4. TS!ScopesTypeOK'
    BY <2>1, <2>2 DEF TS!ScopesTypeOK, TS!ScopesAssumption, TS!Settings
  <2>5. TS!NoteTrue' /\ PendingOwn'
    BY <2>1, <2>2 DEF TS!NoteTrue, PendingOwn
  <2>6. SessionsOwn'
    BY <2>1, SessionsKept
  <2> QED BY <2>3, <2>4, <2>5, <2>6
<1>9. ASSUME NEW k \in ScopeTasks, TS!Flush(k)
      PROVE  ScopesInv'
  <2>1. /\ scopes_conn[k] # TS!NoConn /\ TS!Hook(k) /\ TS!NewOK(k) /\ TS!ChangedOK(k) /\ TS!Flushed(k)
        /\ UNCHANGED <<rls, ctx, bound, scopes_conn, saved, info, steps>>
    BY <1>9 DEF TS!Flush, TS!Unflushed
  <2>2. /\ guc' \in [Conns -> TS!Settings] /\ note' \in [Conns -> TS!Settings \cup {TS!Unknown}]
        /\ \A c \in Conns : note'[c] \in {guc'[c], TS!Unknown}
        /\ TS!Behind(k) \subseteq Customers
    BY <2>1, HookEffect
  <2>3. /\ pending' \in [ScopeTasks -> [tenant : Customers \cup {TS!Nobody}, made : SUBSET Customers]]
        /\ dirty' \in [ScopeTasks -> Customers \cup {TS!Nobody}] /\ PendingOwn'
    BY <2>1, FlushedKeeps
  <2>4. TS!ScopesHold'
    <3>1. /\ ~(pending[k] # TS!Nothing /\ TS!Owner(k) \in TS!Behind(k) \ pending[k].made)
          /\ dirty[k] \notin TS!Behind(k) \ TS!Allowed(TS!Effective(k))
      BY <2>1, <2>2, FlushConfined
    <3> QED BY <1>9, <3>1 DEF TS!Flush, TS!ScopesHold
  <2>5. TS!ScopesTypeOK'
    BY <2>1, <2>2, <2>3 DEF TS!ScopesTypeOK, TS!Settings
  <2>6. TS!NoteTrue'
    BY <2>2 DEF TS!NoteTrue
  <2>7. SessionsOwn'
    BY <2>1, SessionsKept
  <2> QED BY <2>3, <2>4, <2>5, <2>6, <2>7
<1>10. ASSUME UNCHANGED scopesVars
       PROVE  ScopesInv'
  BY <1>10 DEF scopesVars, TS!ScopesTypeOK, TS!NoteTrue, SessionsOwn, PendingOwn, TS!ScopesHold, TS!Settings
<1> QED
  BY <1>1, <1>2, <1>3, <1>4, <1>5, <1>6, <1>7, <1>8, <1>9, <1>10 DEF TS!ScopesNext, TS!Rest, TS!scopesVars, scopesVars

(* It holds at the start.                                                  *)
LEMMA ScopesStart == ASSUME TS!ScopesAssumption, TS!ScopesInit PROVE ScopesInv
<1>1. TS!Clean \in TS!Settings /\ TS!Nothing \in [tenant : Customers \cup {TS!Nobody}, made : SUBSET Customers]
      /\ <<>> \in Seq(TS!Settings) /\ Len(<<>>) <= 1
  BY DEF TS!Settings, TS!Nothing
<1>2. TS!ScopesTypeOK
  BY <1>1 DEF TS!ScopesInit, TS!ScopesTypeOK, TS!ScopesAssumption
<1>3. TS!NoteTrue /\ SessionsOwn /\ PendingOwn /\ TS!ScopesHold
  BY DEF TS!ScopesInit, TS!NoteTrue, SessionsOwn, PendingOwn, TS!ScopesHold
<1> QED BY <1>2, <1>3 DEF ScopesInv

-----------------------------------------------------------------------------
(***************************************************************************)
(* Reads.                                                                  *)
(***************************************************************************)
Phases == {"start", "grant", "policies", "ready"}
AtWork(p) == step[p].phase \in {"grant", "policies"}

(* The variables are functions of users, tables and processes.             *)
ReadsShape ==
    /\ auto \in BOOLEAN /\ dsn \in [Procs -> TS!Users \cup {TS!Unset}] /\ client \in [Procs -> TS!Users \cup {TS!Unset}]
    /\ reads_grants = [u \in TS!Users |-> reads_grants[u]] /\ confined \in [Customers -> ReadUsers \cup {TS!Unset}]
    /\ step \in [Procs -> [phase : Phases, left : SUBSET Customers]] /\ exposed \subseteq ReadUsers

(* The processes that provision a user provision the same one, and nobody  *)
(* else has a grant left but those whose REVOKE failed.                    *)
OneAtATime ==
    \A p \in Procs : AtWork(p) =>
        /\ auto /\ dsn[p] \in ReadUsers
        /\ \A q \in Procs : AtWork(q) => dsn[q] = dsn[p]
        /\ \A u \in ReadUsers \ exposed : u # dsn[p] => reads_grants[u] \cap Customers = {}

(* A table a user may read is confined to it, or is just being given to it *)
(* and its policies come next.                                             *)
GrantsFollowed ==
    auto => \A u \in ReadUsers \ exposed : \A t \in Customers : t \in reads_grants[u] =>
        \/ confined[t] = u
        \/ \E q \in Procs : step[q].phase = "policies" /\ dsn[q] = u /\ TS!Least(step[q].left) = t

(* Users made by hand have no policies, and no client reads as one.        *)
ByHand == ~auto => \A t \in Customers : confined[t] = TS!Unset
ClientsVerified ==
    \A p \in Procs : client[p] # TS!Unset =>
        client[p] = dsn[p] /\ client[p] \in ReadUsers /\ (auto \/ Customers = {})

(* Inductive: the read itself looks at grants and policies only, so it is  *)
(* the provisioning that has to keep the two together.                     *)
ReadsInv == ReadsShape /\ OneAtATime /\ GrantsFollowed /\ ByHand /\ ClientsVerified /\ TS!ReadsConfined

(* When a user is provisioned the others lose what they may read.          *)
LEMMA ProvisionKeeps ==
    ASSUME TS!ReadsAssumption, Apart, ReadsInv, NEW p \in Procs, NEW failed \in SUBSET ReadUsers, TS!Provision(p, failed)
    PROVE  ReadsInv'
<1> DEFINE old == {confined[t] : t \in Customers} \ {TS!Unset, dsn[p]}
<1> USE DEF ReadsInv
<1>1. /\ step[p].phase = "start" /\ dsn[p] \in ReadUsers /\ auto
      /\ \A q \in Procs : AtWork(q) => dsn[q] = dsn[p]
      /\ reads_grants' = [u \in TS!Users |-> IF u \in old /\ u \notin failed THEN {} ELSE reads_grants[u]]
      /\ exposed' = exposed \cup (old \cap failed)
      /\ step' = [step EXCEPT ![p] = [phase |-> "grant", left |-> Customers]]
      /\ UNCHANGED <<auto, dsn, confined, client, leaked>>
  BY DEF TS!Provision, TS!Revoked, TS!Set, AtWork
<1>2. old \subseteq ReadUsers
  BY DEF ReadsShape
<1>3. /\ \A u \in TS!Users : u \in old /\ u \notin failed => reads_grants'[u] = {}
      /\ \A u \in TS!Users : ~(u \in old /\ u \notin failed) => reads_grants'[u] = reads_grants[u]
      /\ dsn[p] \notin old
  BY <1>1
<1>4. \A u \in ReadUsers : u \in TS!Users
  BY DEF TS!Users
<1>5. ASSUME NEW u \in ReadUsers \ exposed', u # dsn[p], NEW t \in Customers, t \in reads_grants'[u]
      PROVE  FALSE
  <2>1. t \in reads_grants[u] /\ u \in ReadUsers \ exposed
    BY <1>1, <1>3, <1>4, <1>5
  <2>2. confined[t] # u
    BY <1>1, <1>3, <1>4, <1>5 DEF TS!ReadsAssumption
  <2>3. PICK q \in Procs : step[q].phase = "policies" /\ dsn[q] = u
    BY <1>1, <2>1, <2>2 DEF GrantsFollowed
  <2> QED BY <1>1, <1>5, <2>3 DEF AtWork
<1>6. ReadsShape'
  <2>1. [phase |-> "grant", left |-> Customers] \in [phase : Phases, left : SUBSET Customers]
    BY DEF Phases
  <2>2. reads_grants' = [u \in TS!Users |-> reads_grants'[u]]
    BY <1>1
  <2> QED BY <1>1, <1>2, <2>1, <2>2 DEF ReadsShape, TS!Users
<1>7. OneAtATime'
  <2> SUFFICES ASSUME NEW r \in Procs, AtWork(r)'
               PROVE  /\ auto' /\ dsn'[r] \in ReadUsers
                      /\ \A q \in Procs : AtWork(q)' => dsn'[q] = dsn'[r]
                      /\ \A u \in ReadUsers \ exposed' : u # dsn'[r] => reads_grants'[u] \cap Customers = {}
    BY DEF OneAtATime
  <2>1. \A q \in Procs : AtWork(q)' => dsn'[q] = dsn[p]
    BY <1>1 DEF AtWork, ReadsShape
  <2> QED BY <1>1, <1>5, <2>1
<1>8. GrantsFollowed'
  <2> SUFFICES ASSUME NEW u \in ReadUsers \ exposed', NEW t \in Customers, t \in reads_grants'[u]
               PROVE  \/ confined'[t] = u
                      \/ \E q \in Procs : step'[q].phase = "policies" /\ dsn'[q] = u /\ TS!Least(step'[q].left) = t
    BY DEF GrantsFollowed
  <2>1. u = dsn[p]
    BY <1>5
  <2>2. t \in reads_grants[u] /\ u \in ReadUsers \ exposed
    BY <1>1, <1>3, <1>4, <2>1
  <2>3. CASE confined[t] = u
    BY <1>1, <2>3
  <2>4. CASE \E q \in Procs : step[q].phase = "policies" /\ dsn[q] = u /\ TS!Least(step[q].left) = t
    <3>1. PICK q \in Procs : step[q].phase = "policies" /\ dsn[q] = u /\ TS!Least(step[q].left) = t
      BY <2>4
    <3>2. q # p /\ step'[q] = step[q]
      BY <1>1, <3>1 DEF ReadsShape
    <3> QED BY <1>1, <3>1, <3>2
  <2> QED BY <1>1, <2>2, <2>3, <2>4 DEF GrantsFollowed
<1>9. ByHand' /\ ClientsVerified' /\ TS!ReadsConfined'
  BY <1>1 DEF ByHand, ClientsVerified, TS!ReadsConfined
<1> QED BY <1>6, <1>7, <1>8, <1>9

(* A grant is followed by its policies.                                    *)
LEMMA GrantKeeps ==
    ASSUME TS!ReadsAssumption, ReadsInv, NEW p \in Procs, TS!Grant(p)
    PROVE  ReadsInv'
<1> USE DEF ReadsInv
<1> DEFINE left == TS!Least(step[p].left)
<1>1. /\ step[p].phase = "grant" /\ reads_grants' = [reads_grants EXCEPT ![dsn[p]] = @ \cup {left}]
      /\ step' = [step EXCEPT ![p] = [phase |-> "policies", left |-> step[p].left]]
      /\ UNCHANGED <<auto, dsn, confined, client, leaked, exposed>>
  BY DEF TS!Grant, TS!Set, TS!Current
<1>2. /\ AtWork(p) /\ dsn[p] \in ReadUsers /\ auto /\ dsn[p] \in TS!Users /\ step[p].left \subseteq Customers
  BY <1>1 DEF AtWork, OneAtATime, TS!Users, ReadsShape
<1>3. /\ \A q \in Procs : q # p => step'[q] = step[q]
      /\ step'[p].phase = "policies" /\ step'[p].left = step[p].left
  BY <1>1 DEF ReadsShape
<1>4. \A q \in Procs : AtWork(q)' <=> AtWork(q)
  BY <1>1, <1>3 DEF AtWork
<1>5. \A u \in TS!Users : u # dsn[p] => reads_grants'[u] = reads_grants[u]
  BY <1>1 DEF ReadsShape
<1>6. reads_grants'[dsn[p]] = reads_grants[dsn[p]] \cup {left}
  BY <1>1, <1>2 DEF ReadsShape
<1>7. ReadsShape'
  <2>1. [phase |-> "policies", left |-> step[p].left] \in [phase : Phases, left : SUBSET Customers]
    BY <1>2 DEF Phases
  <2>2. reads_grants' = [u \in TS!Users |-> reads_grants'[u]]
    BY <1>1 DEF ReadsShape
  <2> QED BY <1>1, <2>1, <2>2 DEF ReadsShape, TS!Users
<1>8. OneAtATime'
  <2> SUFFICES ASSUME NEW r \in Procs, AtWork(r)'
               PROVE  /\ auto' /\ dsn'[r] \in ReadUsers
                      /\ \A q \in Procs : AtWork(q)' => dsn'[q] = dsn'[r]
                      /\ \A u \in ReadUsers \ exposed' : u # dsn'[r] => reads_grants'[u] \cap Customers = {}
    BY DEF OneAtATime
  <2>1. AtWork(r) /\ dsn[r] = dsn[p]
    BY <1>2, <1>4 DEF OneAtATime
  <2> QED BY <1>1, <1>4, <1>5, <2>1 DEF OneAtATime, TS!Users
<1>9. GrantsFollowed'
  <2> SUFFICES ASSUME NEW u \in ReadUsers \ exposed', NEW t \in Customers, t \in reads_grants'[u]
               PROVE  \/ confined'[t] = u
                      \/ \E q \in Procs : step'[q].phase = "policies" /\ dsn'[q] = u /\ TS!Least(step'[q].left) = t
    BY DEF GrantsFollowed
  <2>1. CASE u = dsn[p] /\ t = left
    BY <1>1, <1>3, <2>1
  <2>2. CASE ~(u = dsn[p] /\ t = left)
    <3>1. t \in reads_grants[u] /\ u \in ReadUsers \ exposed
      BY <1>1, <1>5, <1>6, <2>2 DEF TS!Users
    <3>2. CASE confined[t] = u
      BY <1>1, <3>2
    <3>3. CASE \E q \in Procs : step[q].phase = "policies" /\ dsn[q] = u /\ TS!Least(step[q].left) = t
      <4>1. PICK q \in Procs : step[q].phase = "policies" /\ dsn[q] = u /\ TS!Least(step[q].left) = t
        BY <3>3
      <4>2. step'[q] = step[q]
        BY <1>1, <1>3, <4>1
      <4> QED BY <1>1, <4>1, <4>2
    <3> QED BY <1>2, <3>1, <3>2, <3>3 DEF GrantsFollowed
  <2> QED BY <2>1, <2>2
<1>10. ByHand' /\ ClientsVerified' /\ TS!ReadsConfined'
  BY <1>1 DEF ByHand, ClientsVerified, TS!ReadsConfined
<1> QED BY <1>7, <1>8, <1>9, <1>10

(* The policies of a table are made for the user that has its grant.       *)
LEMMA PoliciesKeep ==
    ASSUME TS!ReadsAssumption, ReadsInv, NEW p \in Procs, TS!Policies(p)
    PROVE  ReadsInv'
<1> USE DEF ReadsInv
<1> DEFINE left == TS!Least(step[p].left)
           rest == step[p].left \ {left}
<1>1. PICK phase \in {"ready", "grant"} :
      /\ step[p].phase = "policies" /\ confined' = [confined EXCEPT ![left] = dsn[p]]
      /\ step' = [step EXCEPT ![p] = [phase |-> phase, left |-> rest]]
      /\ UNCHANGED <<auto, dsn, reads_grants, client, leaked, exposed>>
  BY DEF TS!Policies, TS!Set, TS!Current
<1>2. /\ AtWork(p) /\ dsn[p] \in ReadUsers /\ auto /\ rest \subseteq Customers
  BY <1>1 DEF AtWork, OneAtATime, ReadsShape
<1> HIDE DEF left, rest
<1>3. /\ \A q \in Procs : q # p => step'[q] = step[q]
      /\ step'[p].phase = phase
  BY <1>1 DEF ReadsShape
<1>4. \A q \in Procs : AtWork(q)' => AtWork(q)
  BY <1>1, <1>2, <1>3 DEF AtWork
<1>5. \A t \in Customers : confined'[t] = IF t = left THEN dsn[p] ELSE confined[t]
  BY <1>1 DEF ReadsShape
<1>6. ReadsShape'
  <2>1. [phase |-> phase, left |-> rest] \in [phase : Phases, left : SUBSET Customers]
    BY <1>2 DEF Phases
  <2> QED BY <1>1, <1>2, <2>1 DEF ReadsShape, TS!Users
<1>7. OneAtATime'
  <2> SUFFICES ASSUME NEW r \in Procs, AtWork(r)'
               PROVE  /\ auto' /\ dsn'[r] \in ReadUsers
                      /\ \A q \in Procs : AtWork(q)' => dsn'[q] = dsn'[r]
                      /\ \A u \in ReadUsers \ exposed' : u # dsn'[r] => reads_grants'[u] \cap Customers = {}
    BY DEF OneAtATime
  <2> QED BY <1>1, <1>4 DEF OneAtATime
<1>8. GrantsFollowed'
  <2> SUFFICES ASSUME NEW u \in ReadUsers \ exposed', NEW t \in Customers, t \in reads_grants'[u]
               PROVE  \/ confined'[t] = u
                      \/ \E q \in Procs : step'[q].phase = "policies" /\ dsn'[q] = u /\ TS!Least(step'[q].left) = t
    BY DEF GrantsFollowed
  <2>1. u = dsn[p] /\ t \in reads_grants[u] /\ u \in ReadUsers \ exposed
    BY <1>1, <1>2 DEF OneAtATime
  <2>2. CASE t = left \/ confined[t] = u
    BY <1>5, <2>1, <2>2
  <2>3. CASE t # left /\ confined[t] # u
    <3>1. PICK q \in Procs : step[q].phase = "policies" /\ dsn[q] = u /\ TS!Least(step[q].left) = t
      BY <1>2, <2>1, <2>3 DEF GrantsFollowed
    <3>2. q # p
      BY <2>3, <3>1 DEF left
    <3> QED BY <1>1, <1>3, <3>1, <3>2
  <2> QED BY <2>2, <2>3
<1>9. ByHand' /\ ClientsVerified' /\ TS!ReadsConfined'
  BY <1>1, <1>2 DEF ByHand, ClientsVerified, TS!ReadsConfined
<1> QED BY <1>6, <1>7, <1>8, <1>9

(* A process leaves its provisioning, or starts anew: a user between its   *)
(* grant and the policies counts as exposed from then on.                  *)
LEMMA LeaveKeeps ==
    ASSUME TS!ReadsAssumption, ReadsInv, NEW p \in Procs, NEW phase \in {"start", "ready"},
           NEW u \in TS!Users \cup {TS!Unset}, NEW v \in {client[p], TS!Unset},
           step' = [step EXCEPT ![p] = [phase |-> phase, left |-> {}]],
           dsn' = [dsn EXCEPT ![p] = u], client' = [client EXCEPT ![p] = v], v # TS!Unset => u = dsn[p],
           exposed' = exposed \cup TS!Open(p), UNCHANGED <<auto, reads_grants, confined, leaked>>
    PROVE  ReadsInv'
<1> USE DEF ReadsInv
<1>1. /\ \A q \in Procs : q # p => step'[q] = step[q] /\ dsn'[q] = dsn[q] /\ client'[q] = client[q]
      /\ step'[p].phase = phase /\ dsn'[p] = u /\ client'[p] = v
  BY DEF ReadsShape
<1>2. \A q \in Procs : AtWork(q)' => AtWork(q) /\ q # p
  BY <1>1 DEF AtWork
<1>3. TS!Open(p) \subseteq ReadUsers
  BY DEF TS!Open, OneAtATime, AtWork
<1>4. ReadsShape'
  <2>1. [phase |-> phase, left |-> {}] \in [phase : Phases, left : SUBSET Customers]
    BY DEF Phases
  <2> QED BY <1>3, <2>1 DEF ReadsShape
<1>5. OneAtATime'
  <2> SUFFICES ASSUME NEW r \in Procs, AtWork(r)'
               PROVE  /\ auto' /\ dsn'[r] \in ReadUsers
                      /\ \A q \in Procs : AtWork(q)' => dsn'[q] = dsn'[r]
                      /\ \A w \in ReadUsers \ exposed' : w # dsn'[r] => reads_grants'[w] \cap Customers = {}
    BY DEF OneAtATime
  <2> QED BY <1>1, <1>2 DEF OneAtATime
<1>6. GrantsFollowed'
  <2> SUFFICES ASSUME auto, NEW w \in ReadUsers \ exposed', NEW t \in Customers, t \in reads_grants'[w]
               PROVE  \/ confined'[t] = w
                      \/ \E q \in Procs : step'[q].phase = "policies" /\ dsn'[q] = w /\ TS!Least(step'[q].left) = t
    BY DEF GrantsFollowed
  <2>1. CASE confined[t] = w
    BY <2>1
  <2>2. CASE confined[t] # w
    <3>1. PICK q \in Procs : step[q].phase = "policies" /\ dsn[q] = w /\ TS!Least(step[q].left) = t
      BY <2>2 DEF GrantsFollowed
    <3>2. q # p
      BY <3>1 DEF TS!Open
    <3> QED BY <1>1, <3>1, <3>2
  <2> QED BY <2>1, <2>2
<1>7. ClientsVerified'
  BY <1>1 DEF ClientsVerified
<1>8. ByHand' /\ TS!ReadsConfined'
  BY DEF ByHand, TS!ReadsConfined
<1> QED BY <1>4, <1>5, <1>6, <1>7, <1>8

(* A read through a verified client sees all rows of a table only while    *)
(* its user is exposed or open.                                            *)
LEMMA QueryConfined ==
    ASSUME TS!ReadsAssumption, ReadsInv, NEW p \in Procs, NEW t \in Customers, NEW sql, TS!Query(p, t, sql)
    PROVE  ~leaked'
<1> SUFFICES ASSUME dsn[p] # TS!Unset, TS!SeesAll(client[p], t),
                    client[p] \notin exposed \cup UNION {TS!Open(q) : q \in Procs}
             PROVE  FALSE
  BY DEF TS!Query, ReadsInv, TS!ReadsConfined
<1>1. client[p] \in ReadUsers /\ auto
  BY DEF TS!Query, ReadsInv, ClientsVerified
<1>2. t \in reads_grants[client[p]] /\ confined[t] # client[p]
  BY DEF TS!SeesAll
<1>3. PICK q \in Procs : step[q].phase = "policies" /\ dsn[q] = client[p]
  BY <1>1, <1>2 DEF ReadsInv, GrantsFollowed
<1>4. client[p] \in TS!Open(q)
  BY <1>3 DEF TS!Open
<1> QED BY <1>4

(* A step that only reads.                                                 *)
LEMMA ReadsSame ==
    ASSUME ReadsInv, UNCHANGED <<auto, dsn, reads_grants, confined, step, client, exposed>>, ~leaked'
    PROVE  ReadsInv'
<1> USE DEF ReadsInv
<1>1. ReadsShape'
  BY DEF ReadsShape
<1>2. OneAtATime'
  BY DEF OneAtATime, AtWork
<1>3. GrantsFollowed'
  <2>1. auto' = auto /\ dsn' = dsn /\ reads_grants' = reads_grants /\ confined' = confined /\ step' = step /\ exposed' = exposed
    OBVIOUS
  <2> QED BY <2>1 DEF GrantsFollowed
<1>4. ByHand' /\ ClientsVerified' /\ TS!ReadsConfined'
  BY DEF ByHand, ClientsVerified, TS!ReadsConfined
<1> QED BY <1>1, <1>2, <1>3, <1>4

(* Every step keeps the invariant, action by action.                       *)
LEMMA ReadsStep == ASSUME TS!ReadsAssumption, Apart, ReadsInv, [TS!ReadsNext]_readsVars PROVE ReadsInv'
<1>1. ASSUME NEW p \in Procs, NEW failed \in SUBSET ReadUsers, TS!Provision(p, failed)
      PROVE  ReadsInv'
  BY <1>1, ProvisionKeeps
<1>2. ASSUME NEW p \in Procs, NEW t \in Customers, NEW sql \in {"exact", "miscounted", "bare"}, TS!Query(p, t, sql)
      PROVE  ReadsInv'
  <2>1. ~leaked'
    BY <1>2, QueryConfined
  <2>2. UNCHANGED <<auto, dsn, reads_grants, confined, step, client, exposed, reads_faults>>
    BY <1>2 DEF TS!Query
  <2> QED BY <2>1, <2>2, ReadsSame
<1>3. ASSUME NEW p \in Procs, TS!Grant(p) PROVE ReadsInv'
  BY <1>3, GrantKeeps
<1>4. ASSUME NEW p \in Procs, TS!Policies(p) PROVE ReadsInv'
  BY <1>4, PoliciesKeep
<1>5. ASSUME NEW p \in Procs, TS!ProvisionFails(p) \/ TS!NoProvision(p) PROVE ReadsInv'
  <2>1. /\ step' = [step EXCEPT ![p] = [phase |-> "ready", left |-> {}]]
        /\ exposed' = exposed \cup TS!Open(p)
        /\ UNCHANGED <<auto, dsn, reads_grants, confined, client, leaked>>
    BY <1>5 DEF TS!ProvisionFails, TS!NoProvision, TS!Set, TS!Open
  <2>2. /\ dsn' = [dsn EXCEPT ![p] = dsn[p]] /\ client' = [client EXCEPT ![p] = client[p]]
        /\ dsn[p] \in TS!Users \cup {TS!Unset}
    BY <2>1 DEF ReadsInv, ReadsShape
  <2> QED BY <2>1, <2>2, LeaveKeeps
<1>6. ASSUME NEW p \in Procs, TS!Connect(p) PROVE ReadsInv'
  <2>1. /\ client' = [client EXCEPT ![p] = dsn[p]] /\ dsn[p] # TS!Unset /\ dsn[p] # Main
        /\ \A t \in Customers : confined[t] = dsn[p]
        /\ UNCHANGED <<auto, dsn, reads_grants, confined, step, leaked, exposed>>
    BY <1>6 DEF TS!Connect, TS!Verified
  <2>2. dsn[p] \in ReadUsers
    BY <2>1 DEF ReadsInv, ReadsShape, TS!Users
  <2>3. auto \/ Customers = {}
    BY <2>1 DEF ReadsInv, ByHand
  <2>4. ClientsVerified'
    BY <2>1, <2>2, <2>3 DEF ReadsInv, ClientsVerified, ReadsShape
  <2>5. ReadsShape'
    BY <2>1, <2>2 DEF ReadsInv, ReadsShape, TS!Users
  <2> QED
    BY <2>1, <2>4, <2>5 DEF ReadsInv, OneAtATime, AtWork, GrantsFollowed, ByHand, TS!ReadsConfined
<1>7. ASSUME NEW p \in Procs, NEW u \in ReadUsers \cup {TS!Unset, Main}, TS!Restart(p, u) PROVE ReadsInv'
  <2>1. u \in TS!Users \cup {TS!Unset}
    BY DEF TS!Users
  <2> QED BY <1>7, <2>1, LeaveKeeps DEF TS!Restart, TS!Set
<1>8. ASSUME UNCHANGED readsVars PROVE ReadsInv'
  BY <1>8, ReadsSame DEF readsVars, ReadsInv, TS!ReadsConfined
<1> QED
  BY <1>1, <1>2, <1>3, <1>4, <1>5, <1>6, <1>7, <1>8 DEF TS!ReadsNext, TS!Refused, TS!readsVars, readsVars

(* It holds at the start.                                                  *)
LEMMA ReadsStart == ASSUME TS!ReadsAssumption, TS!ReadsInit PROVE ReadsInv
<1>1. \A p \in Procs : step[p].phase = "start"
  BY DEF TS!ReadsInit
<1>2. ReadsShape
  <2>1. [phase |-> "start", left |-> {}] \in [phase : Phases, left : SUBSET Customers]
    BY DEF Phases
  <2>2. reads_grants = [u \in TS!Users |-> reads_grants[u]]
    BY DEF TS!ReadsInit
  <2> QED BY <2>1, <2>2 DEF TS!ReadsInit, ReadsShape, TS!Users
<1>3. OneAtATime
  BY <1>1 DEF OneAtATime, AtWork
<1>4. GrantsFollowed
  <2>1. auto => \A u \in ReadUsers : reads_grants[u] = {}
    BY DEF TS!ReadsInit, TS!ReadsAssumption, TS!Users
  <2> QED BY <2>1 DEF GrantsFollowed
<1>5. ByHand /\ ClientsVerified /\ TS!ReadsConfined
  BY DEF TS!ReadsInit, ByHand, ClientsVerified, TS!ReadsConfined
<1> QED BY <1>2, <1>3, <1>4, <1>5 DEF ReadsInv

-----------------------------------------------------------------------------
(***************************************************************************)
(* Requests and open streams.                                              *)
(***************************************************************************)
(* The membership is looked at again: not so with the multi-tenant backend *)
(* (run streams_stale).                                                    *)
StreamsFacts == LS!StreamsAssumption /\ ~Multi

ConnRec == [at : {"new", "accept", "open", "top", "gone"}, kind : {"ws", "tail"}, asked : Customers \cup {LS!Unset},
            access : [tenant : Customers \cup {LS!Unset}, role : LS!Roles \cup {"none"}], cache : LS!Members,
            checked : 0..MaxTime, woke : 0..MaxTime, queue : 0..QueueMax, blind : BOOLEAN]
StreamsTypes ==
    /\ now \in 1..MaxTime /\ member \in LS!Members /\ session \in [alive : BOOLEAN, active : Customers \cup {LS!Unset}]
    /\ streams_conn \in [Streams -> ConnRec] /\ cast \in [tenant : Customers \cup {LS!Unset}, todo : SUBSET Streams]
    /\ off \in [Streams -> 0..MaxTime] /\ streams_changes \in 0..MaxAccessChanges /\ streams_faults \in 0..MaxStreamFaults

(* off[c] says since when the access of connection r is another one; since *)
(* the last look it was the same, and the looks are not far apart.         *)
ConnOK(r, o) ==
    /\ r.at = "new" => o = 0
    /\ r.at \in {"accept", "open", "top"} =>
         /\ r.access # LS!NoAccess /\ (o = 0 <=> LS!Resolved(r.asked, session, member) = r.access)
    /\ r.at = "accept" => o \in {0, now}
    /\ r.at \in {"open", "top"} => r.checked <= now /\ r.woke <= now /\ (o # 0 => o >= r.checked /\ o <= now)
    /\ r.at = "top" => r.kind = "tail"
    /\ r.at = "open" /\ r.kind = "ws" /\ ~r.blind => now - r.checked <= Period
    /\ r.at \in {"open", "top"} /\ r.kind = "tail" => now - r.woke <= Period /\ r.woke - r.checked <= Period

StreamsInv == StreamsTypes /\ streams_late = {} /\ \A c \in Streams : ConnOK(streams_conn[c], off[c])

(* A connection that is new, and one that is gone.                         *)
LEMMA NewFacts == ASSUME StreamsFacts PROVE
    /\ LS!New \in ConnRec /\ LS!New.at = "new" /\ LS!Gone \in ConnRec /\ LS!Gone.at = "gone"
    /\ LS!Quiet \in [tenant : Customers \cup {LS!Unset}, todo : SUBSET Streams]
<1>1. [t \in Customers |-> "none"] \in LS!Members /\ LS!NoAccess \in [tenant : Customers \cup {LS!Unset}, role : LS!Roles \cup {"none"}]
  BY DEF LS!Members, LS!NoAccess
<1>2. 0 \in 0..MaxTime /\ 0 \in 0..QueueMax
  BY DEF StreamsFacts, LS!StreamsAssumption
<1>3. LS!New \in ConnRec /\ LS!New.at = "new"
  BY <1>1, <1>2 DEF LS!New, ConnRec
<1>4. LS!Gone \in ConnRec /\ LS!Gone.at = "gone"
  BY <1>3 DEF LS!Gone, ConnRec
<1> QED BY <1>3, <1>4 DEF LS!Quiet

(* What resolve_access returns.                                            *)
LEMMA ResolvedType ==
    ASSUME NEW asked \in Customers \cup {LS!Unset}, NEW s \in [alive : BOOLEAN, active : Customers \cup {LS!Unset}],
           NEW known \in LS!Members
    PROVE  LS!Resolved(asked, s, known) \in [tenant : Customers \cup {LS!Unset}, role : LS!Roles \cup {"none"}]
<1> DEFINE own == {t \in Customers : known[t] # "none"}
           t0 == LS!Wanted(asked, s.active, known)
<1>1. t0 \in Customers \cup {LS!Unset}
  <2>1. Cardinality(own) = 1 => own # {}
    BY FS_EmptySet
  <2>2. Cardinality(own) = 1 => (CHOOSE t \in own : TRUE) \in Customers
    BY <2>1
  <2> QED BY <2>2 DEF LS!Wanted
<1> HIDE DEF t0
<1>2. LS!Resolved(asked, s, known) = IF s.alive /\ t0 # LS!Unset /\ known[t0] # "none" THEN [tenant |-> t0, role |-> known[t0]] ELSE LS!NoAccess
  BY DEF LS!Resolved, t0
<1>3. t0 # LS!Unset => known[t0] \in LS!Roles \cup {"none"}
  BY <1>1 DEF LS!Members
<1> QED BY <1>1, <1>2, <1>3 DEF LS!NoAccess

(* The invariant of the streams holds at the start.                        *)
LEMMA StreamsStart == ASSUME StreamsFacts, LS!Init PROVE StreamsInv
<1>1. StreamsTypes
  <2>1. [t \in Customers |-> "editor"] \in LS!Members
    BY DEF LS!Members, LS!Roles
  <2>2. now \in 1..MaxTime /\ streams_changes \in 0..MaxAccessChanges /\ streams_faults \in 0..MaxStreamFaults
    BY DEF LS!Init, StreamsFacts, LS!StreamsAssumption
  <2>3. off \in [Streams -> 0..MaxTime]
    <3>1. 0 \in 0..MaxTime
      BY DEF StreamsFacts, LS!StreamsAssumption
    <3> QED BY <3>1 DEF LS!Init, LS!Unset
  <2>4. streams_conn \in [Streams -> ConnRec] /\ cast \in [tenant : Customers \cup {LS!Unset}, todo : SUBSET Streams]
    BY NewFacts DEF LS!Init
  <2>5. session \in [alive : BOOLEAN, active : Customers \cup {LS!Unset}] /\ member \in LS!Members
    BY <2>1 DEF LS!Init
  <2> QED BY <2>2, <2>3, <2>4, <2>5 DEF StreamsTypes
<1>2. \A c \in Streams : streams_conn[c] = LS!New /\ off[c] = 0
  BY DEF LS!Init, LS!Unset
<1>3. \A c \in Streams : ConnOK(streams_conn[c], off[c])
  BY <1>2, NewFacts DEF ConnOK
<1> QED BY <1>1, <1>3 DEF StreamsInv, LS!Init

(* A step of one connection.                                               *)
LEMMA ConnStep ==
    ASSUME StreamsInv, NEW c \in Streams, NEW r \in ConnRec, streams_conn' = [streams_conn EXCEPT ![c] = r],
           ConnOK(r, off[c]), UNCHANGED <<now, member, session, cast, off, streams_late, streams_changes>>,
           streams_faults' \in 0..MaxStreamFaults
    PROVE  StreamsInv'
<1>1. StreamsTypes'
  BY DEF StreamsInv, StreamsTypes
<1>2. \A d \in Streams : ConnOK(streams_conn'[d], off[d])
  BY DEF StreamsInv, StreamsTypes
<1>3. (\A d \in Streams : ConnOK(streams_conn[d], off[d]))'
  BY <1>2 DEF ConnOK
<1> QED BY <1>1, <1>3 DEF StreamsInv

(* A connection ends.                                                      *)
LEMMA GoneKeeps ==
    ASSUME StreamsFacts, StreamsInv, NEW c \in Streams, streams_conn' = [streams_conn EXCEPT ![c] = LS!Gone],
           UNCHANGED <<now, member, session, cast, off, streams_late, streams_changes>>,
           streams_faults' \in 0..MaxStreamFaults
    PROVE  StreamsInv'
<1>1. ConnOK(LS!Gone, off[c])
  BY NewFacts DEF ConnOK
<1> QED BY <1>1, NewFacts, ConnStep

(* What the invariant says of one connection.                              *)
LEMMA ConnFacts ==
    ASSUME StreamsInv, NEW c \in Streams
    PROVE  /\ streams_conn[c] \in ConnRec /\ ConnOK(streams_conn[c], off[c]) /\ off[c] \in 0..MaxTime
           /\ streams_conn[c].at \in {"new", "accept", "open", "top", "gone"} /\ streams_conn[c].kind \in {"ws", "tail"}
           /\ streams_conn[c].checked \in 0..MaxTime /\ streams_conn[c].woke \in 0..MaxTime
           /\ streams_conn[c].queue \in 0..QueueMax /\ streams_conn[c].blind \in BOOLEAN /\ now \in 1..MaxTime
           /\ streams_conn[c].asked \in Customers \cup {LS!Unset} /\ streams_faults \in 0..MaxStreamFaults
           /\ streams_conn[c].access \in [tenant : Customers \cup {LS!Unset}, role : LS!Roles \cup {"none"}]
           /\ streams_conn[c].cache \in LS!Members
<1>1. streams_conn[c] \in ConnRec /\ now \in 1..MaxTime /\ off[c] \in 0..MaxTime /\ streams_faults \in 0..MaxStreamFaults
  BY DEF StreamsInv, StreamsTypes
<1> QED BY <1>1 DEF StreamsInv, ConnRec

(* With the check of the membership the access that looks the same is the  *)
(* same.                                                                   *)
LEMMA SameIsOn ==
    ASSUME StreamsFacts, StreamsInv, NEW c \in Streams, streams_conn[c].at \in {"open", "top"}, LS!Same(c)
    PROVE  off[c] = 0
<1>1. ConnOK(streams_conn[c], off[c])
  BY ConnFacts
<1>2. LS!Known(c) = member
  BY DEF LS!Known, StreamsFacts, LS!StreamsAssumption
<1>3. LS!Resolved(streams_conn[c].asked, session, member) = streams_conn[c].access
  BY <1>1, <1>2 DEF LS!Same, LS!Revalidated, ConnOK
<1> QED BY <1>1, <1>3 DEF ConnOK

(* What reaches an open connection is not overdue.                         *)
LEMMA NotOverdue ==
    ASSUME StreamsFacts, StreamsInv, NEW c \in Streams, streams_conn[c].at = "open"
    PROVE  ~LS!Overdue(c, streams_conn[c].access.tenant)
<1> DEFINE r == streams_conn[c]
           o == off[c]
<1>1. /\ o # 0 => o >= r.checked /\ o <= now
      /\ r.kind = "ws" /\ ~r.blind => now - r.checked <= Period
      /\ r.kind = "tail" => now - r.woke <= Period /\ r.woke - r.checked <= Period
  BY ConnFacts DEF ConnOK
<1>2. r.checked \in 0..MaxTime /\ r.woke \in 0..MaxTime /\ o \in 0..MaxTime /\ now \in 1..MaxTime /\ r.kind \in {"ws", "tail"}
      /\ Period \in Nat /\ MaxTime \in Nat
  BY ConnFacts DEF StreamsFacts, LS!StreamsAssumption
<1> HIDE DEF r, o
<1>3. o # 0 /\ ~r.blind => now - o <= (IF r.kind = "ws" THEN Period ELSE 2 * Period)
  BY <1>1, <1>2
<1>4. ~(now - o > (IF r.kind = "ws" THEN Period ELSE 2 * Period)) \/ o = 0 \/ r.blind
  BY <1>2, <1>3
<1> QED BY <1>4 DEF LS!Overdue, LS!Unset, r, o

(* A connection is let in with the access its user has.                    *)
LEMMA OpenKeeps ==
    ASSUME StreamsFacts, StreamsInv, NEW c \in Streams, NEW knd \in {"ws", "tail"}, NEW asked \in Customers \cup {LS!Unset},
           LS!Open(c, knd, asked)
    PROVE  StreamsInv'
<1> DEFINE a == LS!Resolved(asked, session, member)
           r == [LS!New EXCEPT !.at = "accept", !.kind = knd, !.asked = asked, !.access = a, !.cache = member]
<1>1. /\ streams_conn[c].at = "new" /\ a # LS!NoAccess /\ streams_conn' = [streams_conn EXCEPT ![c] = r]
      /\ UNCHANGED <<now, member, session, cast, off, streams_late, streams_changes, streams_faults>>
  BY DEF LS!Open
<1>2. a \in [tenant : Customers \cup {LS!Unset}, role : LS!Roles \cup {"none"}] /\ member \in LS!Members
  BY ResolvedType DEF StreamsInv, StreamsTypes
<1>3. off[c] = 0
  BY <1>1, ConnFacts DEF ConnOK
<1> HIDE DEF a
<1>4. r \in ConnRec /\ r.at = "accept" /\ r.access = a /\ r.asked = asked
  BY <1>2, NewFacts DEF ConnRec
<1> HIDE DEF r
<1>5. ConnOK(r, off[c])
  BY <1>1, <1>3, <1>4 DEF ConnOK, a
<1>6. streams_faults' \in 0..MaxStreamFaults
  BY <1>1, ConnFacts
<1> QED BY <1>1, <1>4, <1>5, <1>6, ConnStep

(* It is put on the list at the same moment.                               *)
LEMMA RegisterKeeps ==
    ASSUME StreamsFacts, StreamsInv, NEW c \in Streams, LS!Register(c) PROVE StreamsInv'
<1> DEFINE r == [streams_conn[c] EXCEPT !.at = "open", !.checked = now, !.woke = now]
<1>1. streams_conn[c].at = "accept" /\ UNCHANGED <<now, member, session, cast, off, streams_late, streams_changes, streams_faults>>
  BY DEF LS!Register
<1>2. streams_conn' = [streams_conn EXCEPT ![c] = r]
  <2>1. streams_conn' = [streams_conn EXCEPT ![c].at = "open", ![c].checked = now, ![c].woke = now]
    BY DEF LS!Register
  <2>2. streams_conn \in [Streams -> ConnRec] /\ streams_conn[c] \in ConnRec
    BY ConnFacts DEF StreamsInv, StreamsTypes
  <2> QED BY <2>1, <2>2 DEF ConnRec
<1>3. /\ r \in ConnRec /\ r.at = "open" /\ r.checked = now /\ r.woke = now /\ r.access = streams_conn[c].access
      /\ r.asked = streams_conn[c].asked /\ now \in 0..MaxTime
  <2>1. now \in 0..MaxTime
    BY ConnFacts
  <2> QED BY <2>1, ConnFacts DEF ConnRec
<1>4. now - now <= Period /\ now <= now /\ off[c] \in {0, now}
  BY <1>1, <1>3, ConnFacts DEF ConnOK, StreamsFacts, LS!StreamsAssumption
<1> HIDE DEF r
<1>5. ConnOK(r, off[c])
  BY <1>1, <1>3, <1>4, ConnFacts DEF ConnOK
<1>6. streams_faults' \in 0..MaxStreamFaults
  BY <1>1, ConnFacts
<1> QED BY <1>1, <1>2, <1>3, <1>5, <1>6, ConnStep

(* The task beside a WebSocket looks, or dies.                             *)
LEMMA WsCheckKeeps ==
    ASSUME StreamsFacts, StreamsInv, NEW c \in Streams, LS!WsCheck(c) \/ LS!WsCheckFails(c) PROVE StreamsInv'
<1>1. /\ streams_conn[c].at = "open" /\ streams_conn[c].kind = "ws" /\ now \in 0..MaxTime /\ now - now <= Period
      /\ streams_conn \in [Streams -> ConnRec] /\ streams_conn[c] \in ConnRec
      /\ UNCHANGED <<now, member, session, cast, off, streams_late, streams_changes>>
  BY ConnFacts DEF LS!WsCheck, LS!WsCheckFails, LS!Listening, StreamsInv, StreamsTypes, StreamsFacts, LS!StreamsAssumption
<1>2. streams_faults' \in 0..MaxStreamFaults
  BY ConnFacts DEF LS!WsCheck, LS!WsCheckFails, StreamsFacts, LS!StreamsAssumption
<1>3. CASE LS!WsCheck(c) /\ LS!Same(c)
  <2> DEFINE r == [streams_conn[c] EXCEPT !.checked = now]
  <2>1. streams_conn' = [streams_conn EXCEPT ![c] = r]
    BY <1>3 DEF LS!WsCheck
  <2>2. /\ r \in ConnRec /\ r.at = "open" /\ r.kind = "ws" /\ r.checked = now /\ r.woke = streams_conn[c].woke
        /\ r.access = streams_conn[c].access /\ r.asked = streams_conn[c].asked
    BY <1>1 DEF ConnRec
  <2>3. off[c] = 0
    BY <1>1, <1>3, SameIsOn
  <2> HIDE DEF r
  <2>4. ConnOK(r, off[c])
    BY <1>1, <2>2, <2>3, ConnFacts DEF ConnOK
  <2> QED BY <1>1, <1>2, <2>1, <2>2, <2>4, ConnStep
<1>4. CASE LS!WsCheck(c) /\ ~LS!Same(c)
  <2>1. streams_conn' = [streams_conn EXCEPT ![c] = LS!Gone]
    BY <1>4 DEF LS!WsCheck
  <2> QED BY <1>1, <1>2, <2>1, GoneKeeps
<1>5. CASE LS!WsCheckFails(c)
  <2> DEFINE r == [streams_conn[c] EXCEPT !.blind = TRUE]
  <2>1. streams_conn' = [streams_conn EXCEPT ![c] = r]
    <3>1. streams_conn' = [streams_conn EXCEPT ![c].blind = TRUE]
      BY <1>5 DEF LS!WsCheckFails
    <3> QED BY <1>1, <3>1 DEF ConnRec
  <2>2. /\ r \in ConnRec /\ r.at = "open" /\ r.kind = "ws" /\ r.checked = streams_conn[c].checked /\ r.woke = streams_conn[c].woke
        /\ r.access = streams_conn[c].access /\ r.asked = streams_conn[c].asked /\ r.blind = TRUE
    BY <1>1 DEF ConnRec
  <2> HIDE DEF r
  <2>4. ConnOK(r, off[c])
    BY <1>1, <2>2, ConnFacts DEF ConnOK
  <2> QED BY <1>1, <1>2, <2>1, <2>2, <2>4, ConnStep
<1> QED BY <1>3, <1>4, <1>5

(* A live tail wakes up in time.                                           *)
LEMMA TailWakesKeeps ==
    ASSUME StreamsFacts, StreamsInv, NEW c \in Streams, LS!TailWakes(c) PROVE StreamsInv'
<1>1. /\ streams_conn[c].at = "open" /\ streams_conn[c].kind = "tail"
      /\ streams_conn \in [Streams -> ConnRec] /\ streams_conn[c] \in ConnRec
      /\ UNCHANGED <<now, member, session, cast, off, streams_changes, streams_faults>>
  BY ConnFacts DEF LS!TailWakes, LS!Tails, StreamsInv, StreamsTypes
<1>2. streams_faults' \in 0..MaxStreamFaults
  BY <1>1, ConnFacts
<1>3. PICK n \in {streams_conn[c].queue, streams_conn[c].queue - 1} :
          /\ n \in 0..QueueMax /\ streams_conn' = [streams_conn EXCEPT ![c] = [streams_conn[c] EXCEPT !.queue = n, !.at = "top"]]
  <2>1. CASE streams_conn[c].queue > 0 /\ streams_conn' = [streams_conn EXCEPT ![c].queue = @ - 1, ![c].at = "top"]
    <3>1. streams_conn' = [streams_conn EXCEPT ![c] = [streams_conn[c] EXCEPT !.queue = streams_conn[c].queue - 1, !.at = "top"]]
      BY <1>1, <2>1 DEF ConnRec
    <3>2. streams_conn[c].queue - 1 \in 0..QueueMax
      BY <2>1, ConnFacts DEF StreamsFacts, LS!StreamsAssumption
    <3> QED BY <3>1, <3>2
  <2>2. CASE streams_conn' = [streams_conn EXCEPT ![c].at = "top"]
    <3>1. streams_conn' = [streams_conn EXCEPT ![c] = [streams_conn[c] EXCEPT !.queue = streams_conn[c].queue, !.at = "top"]]
      BY <1>1, <2>2 DEF ConnRec
    <3> QED BY <3>1, ConnFacts
  <2> QED BY <2>1, <2>2 DEF LS!TailWakes
<1>4. streams_late' = streams_late
  BY <1>1, NotOverdue DEF LS!TailWakes
<1> DEFINE r == [streams_conn[c] EXCEPT !.queue = n, !.at = "top"]
<1>5. /\ r \in ConnRec /\ r.at = "top" /\ r.kind = "tail" /\ r.checked = streams_conn[c].checked /\ r.woke = streams_conn[c].woke
      /\ r.access = streams_conn[c].access /\ r.asked = streams_conn[c].asked
  <2>1. n \in 0..QueueMax
    BY <1>3
  <2> QED BY <1>1, <2>1 DEF ConnRec
<1>6. streams_conn' = [streams_conn EXCEPT ![c] = r]
  BY <1>3
<1> HIDE DEF r
<1>7. ConnOK(r, off[c])
  BY <1>1, <1>5, ConnFacts DEF ConnOK
<1> QED BY <1>1, <1>2, <1>4, <1>5, <1>6, <1>7, ConnStep

(* A live tail looks before its next wait.                                 *)
LEMMA TailTopKeeps ==
    ASSUME StreamsFacts, StreamsInv, NEW c \in Streams, LS!TailTop(c) \/ LS!TailTopFails(c) PROVE StreamsInv'
<1>1. /\ streams_conn[c].at = "top" /\ streams_conn[c].kind = "tail" /\ now \in 0..MaxTime /\ now - now <= Period /\ now <= now
      /\ streams_conn \in [Streams -> ConnRec] /\ streams_conn[c] \in ConnRec
      /\ UNCHANGED <<now, member, session, cast, off, streams_late, streams_changes>>
  BY ConnFacts DEF LS!TailTop, LS!TailTopFails, LS!Tails, StreamsInv, StreamsTypes, StreamsFacts, LS!StreamsAssumption
<1>2. streams_faults' \in 0..MaxStreamFaults
  BY ConnFacts DEF LS!TailTop, LS!TailTopFails, StreamsFacts, LS!StreamsAssumption
<1>3. CASE LS!TailTop(c) /\ ~LS!TailDue(c)
  <2> DEFINE r == [streams_conn[c] EXCEPT !.at = "open", !.woke = now]
  <2>1. streams_conn' = [streams_conn EXCEPT ![c] = r]
    BY <1>3 DEF LS!TailTop
  <2>2. /\ r \in ConnRec /\ r.at = "open" /\ r.kind = "tail" /\ r.checked = streams_conn[c].checked /\ r.woke = now
        /\ r.access = streams_conn[c].access /\ r.asked = streams_conn[c].asked
    BY <1>1 DEF ConnRec
  <2>3. now - streams_conn[c].checked <= Period
    BY <1>1, <1>3, ConnFacts DEF LS!TailDue, StreamsFacts, LS!StreamsAssumption
  <2> HIDE DEF r
  <2>4. ConnOK(r, off[c])
    BY <1>1, <2>2, <2>3, ConnFacts DEF ConnOK
  <2> QED BY <1>1, <1>2, <2>1, <2>2, <2>4, ConnStep
<1>4. CASE LS!TailTop(c) /\ LS!TailDue(c) /\ LS!Same(c)
  <2> DEFINE r == [streams_conn[c] EXCEPT !.at = "open", !.woke = now, !.checked = now]
  <2>1. streams_conn' = [streams_conn EXCEPT ![c] = r]
    BY <1>4 DEF LS!TailTop
  <2>2. /\ r \in ConnRec /\ r.at = "open" /\ r.kind = "tail" /\ r.checked = now /\ r.woke = now
        /\ r.access = streams_conn[c].access /\ r.asked = streams_conn[c].asked
    BY <1>1 DEF ConnRec
  <2>3. off[c] = 0
    BY <1>1, <1>4, SameIsOn
  <2> HIDE DEF r
  <2>4. ConnOK(r, off[c])
    BY <1>1, <2>2, <2>3, ConnFacts DEF ConnOK
  <2> QED BY <1>1, <1>2, <2>1, <2>2, <2>4, ConnStep
<1>5. CASE (LS!TailTop(c) /\ LS!TailDue(c) /\ ~LS!Same(c)) \/ LS!TailTopFails(c)
  <2>1. streams_conn' = [streams_conn EXCEPT ![c] = LS!Gone]
    BY <1>5 DEF LS!TailTop, LS!TailTopFails
  <2> QED BY <1>1, <1>2, <2>1, GoneKeeps
<1> QED BY <1>3, <1>4, <1>5

(* A line is queued.                                                       *)
LEMMA LineKeeps ==
    ASSUME StreamsFacts, StreamsInv, NEW t, LS!Line(t) PROVE StreamsInv'
<1>1. UNCHANGED <<now, member, session, cast, off, streams_late, streams_changes, streams_faults>>
  BY DEF LS!Line
<1>2. \A c \in Streams : streams_conn'[c] \in ConnRec /\ ConnOK(streams_conn'[c], off[c])
  <2> TAKE c \in Streams
  <2>1. CASE streams_conn'[c] = streams_conn[c]
    BY <2>1, ConnFacts
  <2>2. CASE streams_conn[c].queue < QueueMax /\ streams_conn'[c] = [streams_conn[c] EXCEPT !.queue = @ + 1]
    <3> DEFINE r == [streams_conn[c] EXCEPT !.queue = @ + 1]
    <3>1. streams_conn[c].queue + 1 \in 0..QueueMax
      BY <2>2, ConnFacts DEF StreamsFacts, LS!StreamsAssumption
    <3>2. /\ r \in ConnRec /\ r.at = streams_conn[c].at /\ r.kind = streams_conn[c].kind /\ r.checked = streams_conn[c].checked
          /\ r.woke = streams_conn[c].woke /\ r.access = streams_conn[c].access /\ r.asked = streams_conn[c].asked
          /\ r.blind = streams_conn[c].blind
      BY <3>1, ConnFacts DEF ConnRec
    <3> HIDE DEF r
    <3>3. ConnOK(r, off[c])
      BY <3>2, ConnFacts DEF ConnOK
    <3> QED BY <2>2, <3>2, <3>3 DEF r
  <2> QED BY <2>1, <2>2 DEF LS!Line
<1>3. streams_conn' \in [Streams -> ConnRec]
  BY <1>2 DEF LS!Line
<1>4. (\A c \in Streams : ConnOK(streams_conn[c], off[c]))'
  BY <1>1, <1>2 DEF ConnOK
<1> QED BY <1>1, <1>3, <1>4 DEF StreamsInv, StreamsTypes

(* What is broadcast is not overdue for anybody it reaches.                *)
LEMMA CastKeeps ==
    ASSUME StreamsFacts, StreamsInv, (\E t \in Customers : LS!CastBegin(t)) \/ (\E c \in Streams : LS!CastSend(c))
    PROVE  StreamsInv'
<1>1. UNCHANGED <<now, member, session, streams_conn, off, streams_changes, streams_faults>>
  BY DEF LS!CastBegin, LS!CastSend
<1>2. cast' \in [tenant : Customers \cup {LS!Unset}, todo : SUBSET Streams]
  BY NewFacts DEF LS!CastBegin, LS!CastSend, LS!Listening, StreamsInv, StreamsTypes
<1>3. streams_late' = {}
  <2>1. CASE \E t \in Customers : LS!CastBegin(t)
    BY <2>1 DEF LS!CastBegin, StreamsInv
  <2>2. ASSUME NEW c \in Streams, LS!CastSend(c) PROVE streams_late' = {}
    <3>1. LS!Concerns(c) => ~LS!Overdue(c, cast.tenant)
      BY NotOverdue DEF LS!Concerns
    <3> QED BY <2>2, <3>1 DEF LS!CastSend, StreamsInv
  <2> QED BY <2>1, <2>2
<1>4. (\A c \in Streams : ConnOK(streams_conn[c], off[c]))'
  BY <1>1 DEF ConnOK, StreamsInv
<1> QED BY <1>1, <1>2, <1>3, <1>4 DEF StreamsInv, StreamsTypes

(* The access changes: from now on it is another one, or the same again.   *)
LEMMA OffKeeps ==
    ASSUME StreamsFacts, StreamsInv, member' \in LS!Members, session' \in [alive : BOOLEAN, active : Customers \cup {LS!Unset}],
           off' = LS!OffNow(session', member'), UNCHANGED <<now, streams_conn, cast, streams_late, streams_faults>>,
           LS!Counted
    PROVE  StreamsInv'
<1>1. \A c \in Streams :
        /\ off'[c] = IF streams_conn[c].at \in {"new", "gone"} \/ LS!Resolved(streams_conn[c].asked, session', member') = streams_conn[c].access
                     THEN 0 ELSE IF off[c] # 0 THEN off[c] ELSE now
  BY DEF LS!OffNow, LS!Unset
<1>2. off' \in [Streams -> 0..MaxTime]
  <2>1. \A c \in Streams : off'[c] \in 0..MaxTime
    BY <1>1, ConnFacts DEF StreamsFacts, LS!StreamsAssumption
  <2> QED BY <2>1 DEF LS!OffNow
<1>3. streams_changes' \in 0..MaxAccessChanges
  BY DEF LS!Counted, StreamsInv, StreamsTypes, StreamsFacts, LS!StreamsAssumption
<1>4. \A c \in Streams : ConnOK(streams_conn[c], off[c])'
  <2> TAKE c \in Streams
  <2> DEFINE r == streams_conn[c]
  <2>1. ConnOK(r, off[c]) /\ r.checked \in 0..MaxTime /\ now \in 1..MaxTime /\ r.at \in {"new", "accept", "open", "top", "gone"}
    BY ConnFacts
  <2>2. /\ off'[c] = IF r.at \in {"new", "gone"} \/ LS!Resolved(r.asked, session', member') = r.access
                     THEN 0 ELSE IF off[c] # 0 THEN off[c] ELSE now
    BY <1>1
  <2>3. LS!Resolved(r.asked, session', member') = LS!Resolved(r.asked, session, member)'
    BY DEF LS!Resolved, LS!Wanted, LS!NoAccess
  <2> HIDE DEF r
  <2>4. r.at \in {"accept", "open", "top"} => (off'[c] = 0 <=> LS!Resolved(r.asked, session', member') = r.access)
    BY <2>1, <2>2
  <2>5. now <= now /\ r' = r /\ now' = now
    BY <2>1 DEF r
  <2>6. ConnOK(r, off[c])'
    BY <2>1, <2>2, <2>3, <2>4, <2>5 DEF ConnOK, LS!NoAccess
  <2> QED BY <2>6 DEF r
<1> QED BY <1>2, <1>3, <1>4 DEF StreamsInv, StreamsTypes

(* A role is set, or the user turns to another tenant.                     *)
LEMMA ChangeKeeps ==
    ASSUME StreamsFacts, StreamsInv, NEW t \in Customers, NEW r \in LS!Roles \cup {"none"},
           LS!SetRole(t, r) \/ LS!Switch(t) \/ LS!Logout
    PROVE  StreamsInv'
<1>1. member \in LS!Members /\ session \in [alive : BOOLEAN, active : Customers \cup {LS!Unset}]
  BY DEF StreamsInv, StreamsTypes
<1>2. CASE LS!SetRole(t, r)
  <2>1. member' \in LS!Members /\ session' = session
    BY <1>1, <1>2 DEF LS!SetRole, LS!Members
  <2> QED BY <1>1, <1>2, <2>1, OffKeeps DEF LS!SetRole
<1>3. CASE LS!Switch(t)
  <2>1. session' \in [alive : BOOLEAN, active : Customers \cup {LS!Unset}] /\ member' = member
    BY <1>1, <1>3 DEF LS!Switch
  <2> QED BY <1>1, <1>3, <2>1, OffKeeps DEF LS!Switch
<1>4. CASE LS!Logout
  <2>1. session' \in [alive : BOOLEAN, active : Customers \cup {LS!Unset}] /\ member' = member
    BY <1>1, <1>4 DEF LS!Logout
  <2> QED BY <1>1, <1>4, <2>1, OffKeeps DEF LS!Logout
<1> QED BY <1>2, <1>3, <1>4

(* The session ends.                                                       *)
LEMMA LogoutKeeps == ASSUME StreamsFacts, StreamsInv, LS!Logout PROVE StreamsInv'
<1>1. member \in LS!Members /\ session' \in [alive : BOOLEAN, active : Customers \cup {LS!Unset}] /\ member' = member
  BY DEF StreamsInv, StreamsTypes, LS!Logout
<1> QED BY <1>1, OffKeeps DEF LS!Logout

(* Time passes: nobody's look was due.                                     *)
LEMMA StreamsTickKeeps == ASSUME StreamsFacts, StreamsInv, LS!Tick PROVE StreamsInv'
<1>1. now < MaxTime /\ now' = now + 1 /\ UNCHANGED <<member, session, streams_conn, cast, off, streams_late, streams_changes, streams_faults>>
  BY DEF LS!Tick
<1>2. now' \in 1..MaxTime
  BY <1>1 DEF StreamsInv, StreamsTypes, StreamsFacts, LS!StreamsAssumption
<1>3. \A c \in Streams : ConnOK(streams_conn[c], off[c])'
  <2> TAKE c \in Streams
  <2> DEFINE r == streams_conn[c]
  <2>1. ConnOK(r, off[c]) /\ r.checked \in 0..MaxTime /\ r.woke \in 0..MaxTime /\ now \in 1..MaxTime /\ off[c] \in 0..MaxTime
        /\ Period \in Nat /\ MaxTime \in Nat /\ r.at \in {"new", "accept", "open", "top", "gone"} /\ r.blind \in BOOLEAN
    BY ConnFacts DEF StreamsFacts, LS!StreamsAssumption
  <2>2. /\ r.at \notin {"accept", "top"}
        /\ r.at = "open" /\ r.kind = "ws" /\ ~r.blind => ~(now - r.checked >= Period)
        /\ r.at = "open" /\ r.kind = "tail" => ~(now - r.woke >= Period)
    BY DEF LS!Tick, LS!Urgent, LS!Listening, LS!Tails
  <2> HIDE DEF r
  <2>3. /\ r.checked <= now => r.checked <= now + 1
        /\ r.woke <= now => r.woke <= now + 1
        /\ off[c] <= now => off[c] <= now + 1
        /\ ~(now - r.checked >= Period) => now + 1 - r.checked <= Period
        /\ ~(now - r.woke >= Period) => now + 1 - r.woke <= Period
    BY <2>1
  <2>4. LS!Resolved(r.asked, session, member)' = LS!Resolved(r.asked, session, member) /\ r' = r /\ off'[c] = off[c]
    BY <1>1 DEF LS!Resolved, LS!Wanted, LS!NoAccess, r
  <2>5. ConnOK(r, off[c])'
    BY <1>1, <2>1, <2>2, <2>3, <2>4 DEF ConnOK, LS!NoAccess
  <2> QED BY <2>5 DEF r
<1> QED BY <1>1, <1>2, <1>3 DEF StreamsInv, StreamsTypes

(* The invariant of the streams is kept, if memberships are looked up      *)
(* again.                                                                  *)
LEMMA StreamsStep == ASSUME StreamsFacts, StreamsInv, LS!Next \/ UNCHANGED streamsVars PROVE StreamsInv'
<1>1. ASSUME NEW c \in Streams, LS!Disconnect(c) PROVE StreamsInv'
  <2>1. streams_faults' \in 0..MaxStreamFaults
    BY <1>1, ConnFacts DEF LS!Disconnect
  <2> QED BY <1>1, <2>1, GoneKeeps DEF LS!Disconnect
<1>2. CASE UNCHANGED streamsVars
  <2>1. (\A c \in Streams : ConnOK(streams_conn[c], off[c]))'
    BY <1>2 DEF streamsVars, StreamsInv, ConnOK
  <2> QED BY <1>2, <2>1 DEF streamsVars, StreamsInv, StreamsTypes
<1> QED BY <1>1, <1>2, OpenKeeps, RegisterKeeps, CastKeeps, WsCheckKeeps, TailWakesKeeps, TailTopKeeps, LineKeeps,
           ChangeKeeps, LogoutKeeps, StreamsTickKeeps DEF LS!Next

(* What the invariant of the streams says.                                 *)
LEMMA StreamsSafe == ASSUME StreamsFacts, StreamsInv PROVE LS!TypeOK /\ LS!StreamsFollow
<1>1. \A c \in Streams : streams_conn[c] \in ConnRec
  BY DEF StreamsInv, StreamsTypes
<1>2. \A c \in Streams : /\ streams_conn[c].at \in {"new", "accept", "open", "top", "gone"} /\ streams_conn[c].kind \in {"ws", "tail"}
                         /\ streams_conn[c].cache \in LS!Members /\ streams_conn[c].queue \in 0..QueueMax
                         /\ streams_conn[c].checked \in 0..MaxTime
  BY <1>1 DEF ConnRec
<1> QED BY <1>2 DEF StreamsInv, StreamsTypes, LS!TypeOK, LS!StreamsFollow

(* inject_globals: the checks of a request, in their order.                *)
LEMMA RequestsSafe == LS!RequestsOwned
<1> SUFFICES ASSUME NEW q \in LS!Requests
             PROVE  /\ q.key => LS!Answer(q) = LS!Answer([q EXCEPT !.cookie = ~@])
                    /\ LS!Answer(q) = "as user" /\ q.mutates => q.token /\ session.alive
  BY DEF LS!RequestsOwned
<1> DEFINE p == [q EXCEPT !.cookie = ~@]
<1>1. p.path = q.path /\ p.mutates = q.mutates /\ p.key = q.key /\ p.token = q.token /\ p.cookie = ~q.cookie
  BY DEF LS!Requests
<1>2. q.mutates \in BOOLEAN /\ q.key \in BOOLEAN /\ q.cookie \in BOOLEAN /\ q.token \in BOOLEAN
  BY DEF LS!Requests
<1> HIDE DEF p
<1>3. ASSUME q.key PROVE LS!Answer(q) = LS!Answer(p)
  <2>1. ~LS!NeedsToken(q) /\ ~LS!NeedsToken(p) /\ LS!Stranger(q) /\ LS!Stranger(p)
    BY <1>1, <1>3 DEF LS!NeedsToken, LS!Stranger
  <2> QED BY <1>1, <2>1 DEF LS!Answer, LS!Turned
<1>4. ASSUME LS!Answer(q) = "as user", q.mutates PROVE q.token /\ session.alive
  <2>1. ~LS!Stranger(q) /\ ~(LS!NeedsToken(q) /\ ~q.token)
    BY <1>4 DEF LS!Answer, LS!Turned
  <2> QED BY <1>2, <1>4, <2>1 DEF LS!NeedsToken, LS!Stranger
<1> QED BY <1>3, <1>4 DEF p

-----------------------------------------------------------------------------
(***************************************************************************)
(* All components together.                                                *)
(***************************************************************************)
(* What is granted to a user are tables, and whoever provisions one has a  *)
(* table left.                                                             *)
GrantsTyped ==
    /\ reads_grants \in [TS!Users -> SUBSET Customers] /\ reads_faults \in 0..MaxReadFaults /\ leaked \in BOOLEAN
    /\ \A p \in Procs : AtWork(p) => step[p].left # {}

(* The types of grants hold at the start.                                  *)
LEMMA GrantsStart == ASSUME TS!ReadsAssumption, TS!ReadsInit PROVE GrantsTyped
<1>1. reads_grants \in [TS!Users -> SUBSET Customers]
  BY DEF TS!ReadsInit
<1>2. reads_faults = 0 /\ 0 \in 0..MaxReadFaults
  BY DEF TS!ReadsInit, TS!ReadsAssumption
<1>4. leaked \in BOOLEAN
  BY Zenon DEF TS!ReadsInit
<1>3. \A p \in Procs : step[p].phase = "start"
  BY DEF TS!ReadsInit
<1> QED BY <1>1, <1>2, <1>3, <1>4 DEF GrantsTyped, AtWork

(* The types of grants are kept.                                           *)
LEMMA GrantsStep ==
    ASSUME TS!ReadsAssumption, ReadsInv, GrantsTyped, TS!ReadsNext \/ UNCHANGED readsVars
    PROVE  GrantsTyped'
<1>0. step \in [Procs -> [phase : Phases, left : SUBSET Customers]] /\ dsn \in [Procs -> TS!Users \cup {TS!Unset}]
      /\ \A p \in Procs : AtWork(p) => dsn[p] \in ReadUsers
  BY DEF ReadsInv, ReadsShape, OneAtATime
<1> USE DEF GrantsTyped, AtWork
<1>1. ASSUME NEW p \in Procs, NEW failed \in SUBSET ReadUsers, TS!Provision(p, failed) PROVE GrantsTyped'
  <2>1. reads_grants' \in [TS!Users -> SUBSET Customers]
    BY <1>1 DEF TS!Provision, TS!Revoked
  <2>2. reads_faults' \in 0..MaxReadFaults
    BY <1>1 DEF TS!Provision, TS!Fault, TS!ReadsAssumption
  <2>3. \A q \in Procs : step'[q] = step[q] \/ step'[q].left = Customers
    BY <1>0, <1>1 DEF TS!Provision, TS!Set
  <2> QED BY <1>1, <2>1, <2>2, <2>3 DEF TS!Provision, TS!ReadsAssumption
<1>2. ASSUME NEW p \in Procs, TS!Grant(p) PROVE GrantsTyped'
  <2>1. step[p].phase = "grant" /\ step[p].left # {} /\ step[p].left \subseteq Customers /\ dsn[p] \in TS!Users
    BY <1>0, <1>2 DEF TS!Grant, TS!Users
  <2>2. TS!Current(p) \in Customers
    <3>1. step[p].left \in SUBSET Nat
      BY <2>1 DEF TS!ReadsAssumption
    <3>2. \E m \in step[p].left : \A n \in step[p].left : m <= n
      BY <2>1, <3>1, LeastNat
    <3> QED BY <2>1, <3>2 DEF TS!Current, TS!Least
  <2>3. reads_grants' \in [TS!Users -> SUBSET Customers]
    BY <1>2, <2>1, <2>2 DEF TS!Grant
  <2>4. \A q \in Procs : step'[q] = step[q] \/ step'[q].left = step[p].left
    BY <1>0, <1>2 DEF TS!Grant, TS!Set
  <2> QED BY <1>2, <2>1, <2>3, <2>4 DEF TS!Grant
<1>3. ASSUME NEW p \in Procs, TS!Policies(p) PROVE GrantsTyped'
  <2> DEFINE rest == step[p].left \ {TS!Current(p)}
  <2>1. step' = [step EXCEPT ![p] = [phase |-> IF rest = {} THEN "ready" ELSE "grant", left |-> rest]]
    BY <1>3 DEF TS!Policies, TS!Set
  <2> HIDE DEF rest
  <2>2. \A q \in Procs : \/ step'[q] = step[q]
                         \/ step'[q].phase = "ready" \/ step'[q].left # {}
    BY <1>0, <2>1
  <2> QED BY <1>3, <2>2 DEF TS!Policies
<1>4. ASSUME NEW p \in Procs, TS!ProvisionFails(p) \/ TS!NoProvision(p) \/ \E u \in ReadUsers \cup {TS!Unset, Main} : TS!Restart(p, u)
      PROVE  GrantsTyped'
  <2>1. \A q \in Procs : step'[q] = step[q] \/ step'[q].phase \in {"ready", "start"}
    BY <1>0, <1>4 DEF TS!ProvisionFails, TS!NoProvision, TS!Restart, TS!Set
  <2>2. reads_faults' \in 0..MaxReadFaults
    BY <1>4 DEF TS!ProvisionFails, TS!NoProvision, TS!Restart, TS!Fault, TS!ReadsAssumption
  <2>3. UNCHANGED <<reads_grants, leaked>>
    BY <1>4 DEF TS!ProvisionFails, TS!NoProvision, TS!Restart
  <2> QED BY <2>1, <2>2, <2>3
<1>5. ASSUME NEW p \in Procs, TS!Connect(p) \/ TS!Refused(p) PROVE GrantsTyped'
  BY <1>5 DEF TS!Connect, TS!Refused, TS!readsVars
<1>6. ASSUME NEW p \in Procs, NEW t \in Customers, NEW sql \in {"exact", "miscounted", "bare"}, TS!Query(p, t, sql) PROVE GrantsTyped'
  <2>1. leaked' \in BOOLEAN
    BY <1>6 DEF TS!Query
  <2>2. UNCHANGED <<reads_grants, step, reads_faults>>
    BY <1>6 DEF TS!Query
  <2> QED BY <2>1, <2>2
<1>7. CASE UNCHANGED readsVars
  BY <1>7 DEF readsVars
<1> QED BY <1>1, <1>2, <1>3, <1>4, <1>5, <1>6, <1>7 DEF TS!ReadsNext

(* The types of the reads follow.                                          *)
LEMMA ReadsTyped == ASSUME ReadsInv, GrantsTyped PROVE TS!ReadsTypeOK
<1>1. \A p \in Procs : step[p].phase \in Phases /\ step[p].left \subseteq Customers
  BY DEF ReadsInv, ReadsShape
<1> QED BY <1>1 DEF ReadsInv, ReadsShape, GrantsTyped, TS!ReadsTypeOK, Phases

(* A step moves each component by a step of its own, or not at all.        *)
LEMMA TenantsMove ==
    ASSUME [Next]_vars
    PROVE  /\ C!LifeNext \/ UNCHANGED lifeVars
           /\ C!KeysNext \/ UNCHANGED keysVars
           /\ S!Next \/ UNCHANGED supportVars
           /\ [JobsNext]_jobsVars /\ [SlotsNext]_slotsVars
           /\ TS!ScopesNext \/ UNCHANGED scopesVars
           /\ TS!ReadsNext \/ UNCHANGED readsVars
           /\ LS!Next \/ UNCHANGED streamsVars
  BY DEF Next, vars, lifeOnly, keysOnly, supportOnly, jobsOnly, slotsOnly, scopesOnly, readsOnly, streamsOnly

(* A deletion the operator was told is cancelled destroys nothing, the     *)
(* keys go before any row, and a secret opens with the keys that are       *)
(* stored until they are destroyed, however purges fail and transactions   *)
(* interleave: for any number of requests, writers and keys, if requests   *)
(* do not span the start of a purge and the keys of a tenant are destroyed *)
(* when nobody else works on it.                                           *)
THEOREM TenantDataIsSafe ==
    ASSUME C!KeysAssumption, ~Overlap, QuietStart PROVE Spec => []TenantDataSafe
<1>1. Init => LifeInv /\ KeysInv
  BY LifeStart, KeysStart DEF Init
<1>2. LifeInv /\ KeysInv /\ [Next]_vars => (LifeInv /\ KeysInv)'
  BY TenantsMove, LifeStep, KeysStep
<1>3. LifeInv /\ KeysInv => TenantDataSafe
  BY LifeSafe, KeysSafe DEF TenantDataSafe
<1> QED BY <1>1, <1>2, <1>3, PTL DEF Spec

(* Statements, reads and streams stay with their tenant, and a request is  *)
(* made in the name of a user or of a key: for any tenants, tasks,         *)
(* connections, processes and users of ClickHouse, while no two of these   *)
(* are provisioned at once and streams look their user's access up again.  *)
THEOREM TenantsIsolated ==
    ASSUME TS!ScopesAssumption, TS!ReadsAssumption, LS!StreamsAssumption, Apart, ~Multi PROVE Spec => []Isolated
<1>0. StreamsFacts
  BY DEF StreamsFacts
<1>1. Init => ScopesInv /\ ReadsInv /\ StreamsInv
  BY <1>0, ScopesStart, ReadsStart, StreamsStart DEF Init
<1>2. ScopesInv /\ ReadsInv /\ StreamsInv /\ [Next]_vars => (ScopesInv /\ ReadsInv /\ StreamsInv)'
  BY <1>0, TenantsMove, ScopesStep, ReadsStep, StreamsStep
<1>3. ScopesInv /\ ReadsInv /\ StreamsInv => Isolated
  BY <1>0, StreamsSafe, RequestsSafe DEF Isolated, ScopesInv, ReadsInv
<1> QED BY <1>1, <1>2, <1>3, PTL DEF Spec

(* Every variable of every tenancy component has its type.                 *)
THEOREM TenantTypes ==
    ASSUME C!KeysAssumption, JobsAssumption, LimiterAssumption, TS!ScopesAssumption, TS!ReadsAssumption,
           LS!StreamsAssumption, ~Overlap, QuietStart, Apart, ~Multi
    PROVE  Spec => []TypesOK
<1> DEFINE I == /\ LifeInv /\ KeysInv /\ SupportInv /\ JobsInv /\ LimiterInv
                /\ ScopesInv /\ ReadsInv /\ GrantsTyped /\ StreamsInv
<1>0. StreamsFacts
  BY DEF StreamsFacts
<1>1. Init => I
  <2>1. SlotsInit => LimiterInv
    BY CountsInit, LineInit DEF LimiterInv, SlotsInit, Behind
  <2> QED BY <1>0, <2>1, LifeStart, KeysStart, SupportStart, JobsBegin, ScopesStart, ReadsStart, GrantsStart, StreamsStart DEF Init
<1>2. I /\ [Next]_vars => I'
  <2> SUFFICES ASSUME I, [Next]_vars PROVE I'
    OBVIOUS
  <2>1. LimiterInv'
    BY TenantsMove, CountsStep, LineStep, BehindStep DEF LimiterInv
  <2>2. LifeInv' /\ KeysInv' /\ SupportInv' /\ JobsInv'
    BY TenantsMove, LifeStep, KeysStep, SupportStep, JobsStep
  <2>3. ScopesInv' /\ ReadsInv' /\ GrantsTyped' /\ StreamsInv'
    BY <1>0, TenantsMove, ScopesStep, ReadsStep, GrantsStep, StreamsStep
  <2> QED BY <2>1, <2>2, <2>3
<1>3. I => TypesOK
  BY <1>0, LifeSafe, KeysSafe, ReadsTyped, StreamsSafe DEF TypesOK, SupportInv, JobsInv, LimiterInv, CountsInv, ScopesInv
<1> HIDE DEF I
<1> QED BY <1>1, <1>2, <1>3, PTL DEF Spec

(* A process that has answered that a grant is over lets nobody in with    *)
(* it, unless it was just loading the list.                                *)
THEOREM SupportIsOver == ASSUME S!SupportAssumption PROVE Spec => S!OverAtOnce
<1>1. Init => SupportInv
  BY SupportStart DEF Init
<1>2. SupportInv /\ [Next]_vars => SupportInv'
  BY TenantsMove, SupportStep
<1>3. SupportInv /\ [Next]_vars => [used' # used => used'.grant \notin told[used'.proc]]_S!vars
  BY TenantsMove, LetIn
<1> QED BY <1>1, <1>2, <1>3, PTL DEF Spec, S!OverAtOnce

(* An expired grant lets nobody in, whatever a process has cached.         *)
THEOREM ExpiredIsOver == ASSUME S!SupportAssumption PROVE Spec => S!ExpiryIsExact
<1>1. Init => SupportInv
  BY SupportStart DEF Init
<1>2. SupportInv /\ [Next]_vars => SupportInv'
  BY TenantsMove, SupportStep
<1>3. SupportInv /\ [Next]_vars => [used' # used /\ used'.grant # 0 => support_grants[used'.grant] # "expired"]_S!vars
  BY TenantsMove, LetIn
<1> QED BY <1>1, <1>2, <1>3, PTL DEF Spec, S!ExpiryIsExact
=============================================================================
