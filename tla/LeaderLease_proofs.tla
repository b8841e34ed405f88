--------------------------- MODULE LeaderLease_proofs ---------------------------
(***************************************************************************)
(* What the leader lease guarantees for every number of instances and for  *)
(* every lease, renewal interval, latency and number of consecutive        *)
(* failures that are in time for each other.                               *)
(***************************************************************************)
EXTENDS LeaderLease, TLAPS

(* A unit of sleep and ask. *)
Round == Renew + MaxLatency

(* The time that may pass before Redis executes the next script of i. *)
Left(i) ==
  CASE phase[i] = "sleeping" -> Renew - age[i] + MaxLatency + (MaxMisses - misses[i]) * Round
    [] phase[i] = "asking"   -> MaxLatency - age[i] + (MaxMisses - misses[i]) * Round
    [] OTHER                 -> MaxLatency - age[i] + Round + MaxMisses * Round

(* i runs jobs, or is about to. *)
Claims(i) == isLeader[i] \/ (phase[i] = "answered" /\ answer[i])

(* The strengthening: an instance that runs jobs, or is about to, holds a     *)
(* lease that outlives the time until its next script; an answer "no" never   *)
(* reaches a leader.                                                          *)
Covers(i) ==
  /\ Claims(i) => Up(i) /\ holder = i /\ Left(i) < ttl
  /\ isLeader[i] /\ phase[i] = "answered" => answer[i]

LeaseCovers == \A i \in Instances : Covers(i)

(* Multiples of the time between two scripts.                              *)
LEMMA Rounds ==
  /\ Round \in Nat \ {0}
  /\ \A n \in Nat : n * Round \in Nat
  /\ \A n \in Nat \ {0} : (n - 1) * Round = n * Round - Round
  /\ \A m, n \in Nat : m <= n => m * Round <= n * Round
<1>1. Round \in Nat \ {0}
  BY LeaseAssumption DEF Round
<1>2. \A n \in Nat : n * Round \in Nat
  BY <1>1
<1>3. \A n \in Nat \ {0} : (n - 1) * Round = n * Round - Round
  BY <1>1
<1>4. \A m, n \in Nat : m <= n => m * Round <= n * Round
  BY <1>1
<1> QED
  BY <1>1, <1>2, <1>3, <1>4

(* The instances start well formed.                                        *)
LEMMA TypeInit == Init => TypeOK
BY LeaseAssumption DEF Init, TypeOK

(* Every step keeps them well formed.                                      *)
LEMMA TypeStep == TypeOK /\ [Next]_vars => TypeOK'
<1> SUFFICES ASSUME TypeOK, [Next]_vars PROVE TypeOK'
  OBVIOUS
<1> USE LeaseAssumption DEF TypeOK
<1>1. ASSUME NEW i \in Instances, Start(i) PROVE TypeOK'
  BY <1>1 DEF Start
<1>2. ASSUME NEW i \in Instances, Eval(i) PROVE TypeOK'
  <2>1. CASE holder \in {None, i}
    <3>1. holder' = i /\ ttl' = TTL /\ answer' = [answer EXCEPT ![i] = TRUE]
      BY <1>2, <2>1 DEF Eval, Acquire
    <3>2. ttl' \in 0..TTL /\ ttl' # 0 /\ holder' # None /\ holder' \in Instances
      BY <3>1
    <3> QED
      BY <1>2, <3>1, <3>2 DEF Eval
  <2>2. CASE holder \notin {None, i}
    BY <1>2, <2>2 DEF Eval, Acquire
  <2> QED
    BY <2>1, <2>2
<1>3. ASSUME NEW i \in Instances, Answer(i) PROVE TypeOK'
  BY <1>3 DEF Answer, ApplyLeadership, Sleep
<1>4. ASSUME NEW i \in Instances, Miss(i) PROVE TypeOK'
  BY <1>4 DEF Miss, Sleep
<1>5. ASSUME NEW i \in Instances, Wake(i) PROVE TypeOK'
  BY <1>5 DEF Wake
<1>6. ASSUME NEW i \in Instances, Stop(i) PROVE TypeOK'
  BY <1>6 DEF Stop
<1>7. CASE Tick
  BY <1>7 DEF Tick, Expire, Up
<1>8. CASE UNCHANGED vars
  BY <1>8 DEF vars
<1> QED
  BY <1>1, <1>2, <1>3, <1>4, <1>5, <1>6, <1>7, <1>8 DEF Next

(* Type correctness: a key in Redis always has a time to live, and no loop is *)
(* later than the environment allows.                                         *)
THEOREM LeaseTypeCorrect == Spec => []TypeOK
BY TypeInit, TypeStep, PTL DEF Spec

(* Under InTime every step keeps the lease ahead of its holder's next script. *)
LEMMA CoversStep ==
  ASSUME InTime, TypeOK, TypeOK', LeaseCovers, [Next]_vars
  PROVE  LeaseCovers'
<1> USE LeaseAssumption, Rounds
<1> SUFFICES ASSUME NEW j \in Instances PROVE Covers(j)'
  BY DEF LeaseCovers
<1>a. Covers(j)
  BY DEF LeaseCovers
<1>1. ASSUME NEW i \in Instances, Start(i) PROVE Covers(j)'
  BY <1>1, <1>a DEF Start, Covers, Claims, Left, Up, TypeOK
<1>2. ASSUME NEW i \in Instances, Eval(i) PROVE Covers(j)'
  <2>1. CASE i = j /\ holder \in {None, j}
    BY <1>2, <1>a, <2>1 DEF Eval, Acquire, Covers, Claims, Left, Up, TypeOK, InTime, Period, Round
  <2>2. CASE i = j /\ holder \notin {None, j}
    BY <1>2, <1>a, <2>2 DEF Eval, Acquire, Covers, Claims, Left, Up, TypeOK
  <2>3. CASE i # j
    BY <1>2, <1>a, <2>3 DEF Eval, Acquire, Covers, Claims, Left, Up, TypeOK
  <2> QED
    BY <2>1, <2>2, <2>3
<1>3. ASSUME NEW i \in Instances, Answer(i) PROVE Covers(j)'
  BY <1>3, <1>a DEF Answer, ApplyLeadership, Sleep, Covers, Claims, Left, Up, TypeOK, Round
<1>4. ASSUME NEW i \in Instances, Miss(i) PROVE Covers(j)'
  BY <1>4, <1>a DEF Miss, Sleep, Covers, Claims, Left, Up, TypeOK, Round
<1>5. ASSUME NEW i \in Instances, Wake(i) PROVE Covers(j)'
  BY <1>5, <1>a DEF Wake, Covers, Claims, Left, Up, TypeOK
<1>6. ASSUME NEW i \in Instances, Stop(i) PROVE Covers(j)'
  BY <1>6, <1>a DEF Stop, Covers, Claims, Left, Up, TypeOK
<1>7. CASE Tick
  <2>1. Up(j) => Left(j)' = Left(j) - 1 /\ 0 < Left(j)
    <3> SUFFICES ASSUME Up(j) PROVE Left(j)' = Left(j) - 1 /\ 0 < Left(j)
      OBVIOUS
    <3>1. /\ phase' = phase /\ misses' = misses /\ age'[j] = age[j] + 1
          /\ age[j] < (IF phase[j] = "sleeping" THEN Renew ELSE MaxLatency)
      BY <1>7 DEF Tick, Up
    <3>2. /\ MaxMisses - misses[j] \in Nat /\ age[j] \in Nat
          /\ phase[j] \in {"asking", "answered", "sleeping"}
      BY DEF TypeOK, Up
    <3>3. (MaxMisses - misses[j]) * Round \in Nat /\ MaxMisses * Round \in Nat
      BY <3>2
    <3>4. CASE phase[j] = "sleeping"
      <4> DEFINE p == (MaxMisses - misses[j]) * Round
      <4>1. /\ Left(j) = Renew - age[j] + MaxLatency + p
            /\ Left(j)' = Renew - (age[j] + 1) + MaxLatency + p
        BY <3>1, <3>4 DEF Left
      <4>2. p \in Nat
        BY <3>3
      <4> HIDE DEF p
      <4> QED
        BY <3>1, <3>2, <3>4, <4>1, <4>2
    <3>5. CASE phase[j] = "asking"
      BY <3>1, <3>2, <3>3, <3>5 DEF Left
    <3>6. CASE phase[j] = "answered"
      BY <3>1, <3>2, <3>3, <3>6 DEF Left
    <3> QED
      BY <3>2, <3>4, <3>5, <3>6
  <2>2. Claims(j)' = Claims(j) /\ Up(j)' = Up(j)
    BY <1>7 DEF Tick, Claims, Up
  <2>3. Claims(j) => 1 < ttl
    BY <1>a, <2>1 DEF Covers, TypeOK, Left
  <2>4. Claims(j) => holder' = j /\ ttl' = ttl - 1
    BY <1>7, <1>a, <2>3 DEF Tick, Expire, Covers, TypeOK
  <2>5. Claims(j)' => Up(j)' /\ holder' = j /\ Left(j)' < ttl'
    BY <1>a, <2>1, <2>2, <2>4 DEF Covers, TypeOK, Left
  <2> QED
    BY <1>7, <1>a, <2>5 DEF Tick, Covers
<1>8. CASE UNCHANGED vars
  BY <1>8, <1>a DEF vars, Covers, Claims, Left, Up
<1> QED
  BY <1>1, <1>2, <1>3, <1>4, <1>5, <1>6, <1>7, <1>8 DEF Next

(* When the lease outlives the longest gap between two scripts of a live      *)
(* instance, only the instance whose id Redis holds runs jobs, whatever asks  *)
(* raise and whichever instances stop and come back.                          *)
THEOREM HolderRuns == ASSUME InTime PROVE Spec => []OnlyHolderRuns
<1>1. Init => LeaseCovers
  BY DEF Init, LeaseCovers, Covers, Claims
<1>2. TypeOK /\ TypeOK' /\ LeaseCovers /\ [Next]_vars => LeaseCovers'
  BY CoversStep
<1>3. LeaseCovers => OnlyHolderRuns
  BY DEF LeaseCovers, Covers, Claims, OnlyHolderRuns, Leaders
<1> QED
  BY LeaseTypeCorrect, <1>1, <1>2, <1>3, PTL DEF Spec

(* The same condition rules out split brain: never two resumed schedulers.    *)
THEOREM NoSplitBrain == ASSUME InTime PROVE Spec => []OneLeader
<1>1. OnlyHolderRuns => OneLeader
  BY DEF OnlyHolderRuns, OneLeader
<1> QED
  BY HolderRuns, <1>1, PTL

--------------------------------------------------------------------------------
(* Hand-over.  While nobody leads, one of three deadlines is running:         *)
(*  - an instance that is up has the lease, and will not lose it: it leads    *)
(*    when one of its answers gets through;                                   *)
(*  - the lease of one that is gone runs out;                                 *)
(*  - the lease is free, and the next script of some instance must land.      *)

(* The time until an instance that has the lease is told so.                  *)
Lead(i) ==
  CASE phase[i] = "sleeping" -> Renew - age[i] + MaxLatency + (MaxMisses - misses[i]) * Round
    [] OTHER                 -> MaxLatency - age[i] + (MaxMisses - misses[i]) * Round

Secured(i) == Up(i) /\ holder = i /\ Left(i) < ttl

Limit == TTL + Period + MaxLatency + MaxMisses * Round

Deadline ==
  \/ \E i \in Instances : Secured(i) /\ idle + Lead(i) < Limit
  \/ holder # None /\ idle + ttl <= TTL
  \/ holder = None /\ idle = 0
  \/ holder = None /\ \E i \in Instances : Up(i) /\ idle + Left(i) < TTL + Period

(* The holder is never told "no".                                             *)
HolderToldYes == \A i \in Instances : phase[i] = "answered" /\ holder = i => answer[i]

HandOverInv ==
  /\ HolderToldYes
  /\ Leaders = {} => Deadline
  /\ HandOver

(* The deadlines of an instance that is up.                                   *)
LEMMA Deadlines ==
  ASSUME TypeOK, NEW i \in Instances, Up(i)
  PROVE  /\ Left(i) \in Nat /\ Left(i) <= Period
         /\ Lead(i) \in Nat /\ Lead(i) <= Round + MaxMisses * Round
         /\ phase[i] # "sleeping" => Lead(i) <= MaxLatency + MaxMisses * Round
<1> USE LeaseAssumption, Rounds
<1> DEFINE p == (MaxMisses - misses[i]) * Round
           q == MaxMisses * Round
<1>1. /\ misses[i] \in 0..MaxMisses /\ MaxMisses - misses[i] \in Nat
      /\ MaxMisses - misses[i] <= MaxMisses /\ age[i] \in Nat
      /\ age[i] <= (IF phase[i] = "sleeping" THEN Renew ELSE MaxLatency)
      /\ phase[i] \in {"asking", "answered", "sleeping"}
  BY DEF TypeOK, Up
<1>2. p \in Nat /\ q \in Nat /\ p <= q
  BY <1>1
<1>3. Period = Round + q + MaxLatency
  BY DEF Period, Round
<1>4. /\ phase[i] = "sleeping" => /\ Left(i) = Renew - age[i] + MaxLatency + p
                                  /\ Lead(i) = Renew - age[i] + MaxLatency + p
      /\ phase[i] = "asking" => /\ Left(i) = MaxLatency - age[i] + p
                                /\ Lead(i) = MaxLatency - age[i] + p
      /\ phase[i] = "answered" => /\ Left(i) = MaxLatency - age[i] + Round + q
                                  /\ Lead(i) = MaxLatency - age[i] + p
  BY DEF Left, Lead
<1>5. Round = Renew + MaxLatency
  BY DEF Round
<1> HIDE DEF p, q
<1> QED
  BY <1>1, <1>2, <1>3, <1>4, <1>5 DEF q

(* A unit of time brings both deadlines a unit closer.                        *)
LEMMA TickCloser ==
  ASSUME TypeOK, Tick, NEW i \in Instances, Up(i)
  PROVE  /\ Left(i) > 0 /\ Left(i)' = Left(i) - 1
         /\ Lead(i) > 0 /\ Lead(i)' = Lead(i) - 1
         /\ Up(i)'
<1> USE LeaseAssumption, Rounds
<1> DEFINE p == (MaxMisses - misses[i]) * Round
           q == MaxMisses * Round
<1>1. /\ phase' = phase /\ misses' = misses /\ age'[i] = age[i] + 1
      /\ age[i] < (IF phase[i] = "sleeping" THEN Renew ELSE MaxLatency)
  BY DEF Tick, Up
<1>2. /\ MaxMisses - misses[i] \in Nat /\ age[i] \in Nat
      /\ phase[i] \in {"asking", "answered", "sleeping"}
  BY DEF TypeOK, Up
<1>3. p \in Nat /\ q \in Nat
  BY <1>2
<1>4. /\ phase[i] = "sleeping" => /\ Left(i) = Renew - age[i] + MaxLatency + p
                                  /\ Lead(i) = Renew - age[i] + MaxLatency + p
                                  /\ Left(i)' = Renew - (age[i] + 1) + MaxLatency + p
                                  /\ Lead(i)' = Renew - (age[i] + 1) + MaxLatency + p
      /\ phase[i] = "asking" => /\ Left(i) = MaxLatency - age[i] + p
                                /\ Lead(i) = MaxLatency - age[i] + p
                                /\ Left(i)' = MaxLatency - (age[i] + 1) + p
                                /\ Lead(i)' = MaxLatency - (age[i] + 1) + p
      /\ phase[i] = "answered" => /\ Left(i) = MaxLatency - age[i] + Round + q
                                  /\ Lead(i) = MaxLatency - age[i] + p
                                  /\ Left(i)' = MaxLatency - (age[i] + 1) + Round + q
                                  /\ Lead(i)' = MaxLatency - (age[i] + 1) + p
  BY <1>1 DEF Left, Lead
<1>5. Up(i)'
  BY <1>1 DEF Up
<1> HIDE DEF p, q
<1> QED
  BY <1>1, <1>2, <1>3, <1>4, <1>5

(* The steps of the loop put neither deadline off: a script that lands starts *)
(* the time to the next one, an answer ends the time to be told.              *)
LoopStep(i) == Start(i) \/ Eval(i) \/ Answer(i) \/ Miss(i) \/ Wake(i)

LEMMA NeverPutOff ==
  ASSUME TypeOK, TypeOK', NEW j \in Instances, LoopStep(j), NEW i \in Instances, Up(i)
  PROVE  /\ Up(i)' /\ idle' = idle
         /\ ~Eval(i) => Left(i)' <= Left(i)
         /\ ~Answer(i) => Lead(i)' <= Lead(i)
<1> USE LeaseAssumption, Rounds
<1> DEFINE p == (MaxMisses - misses[i]) * Round
           q == MaxMisses * Round
<1>0. /\ MaxMisses - misses[i] \in Nat /\ misses[i] \in Nat /\ age[i] \in Nat
      /\ age[i] <= (IF phase[i] = "sleeping" THEN Renew ELSE MaxLatency)
      /\ phase[i] \in {"asking", "answered", "sleeping"}
      /\ MaxMisses - misses[i] <= MaxMisses
  BY DEF TypeOK, Up
<1>1. p \in Nat /\ q \in Nat /\ p <= q /\ Round = Renew + MaxLatency
  BY <1>0 DEF Round
<1>2. Up(i)' /\ idle' = idle
  BY DEF LoopStep, Start, Eval, Answer, Miss, Wake, Sleep, Up, TypeOK
<1>3. CASE i # j
  <2>1. phase'[i] = phase[i] /\ age'[i] = age[i] /\ misses'[i] = misses[i]
    BY <1>3 DEF LoopStep, Start, Eval, Answer, Miss, Wake, Sleep, TypeOK
  <2>2. Left(i)' = Left(i) /\ Lead(i)' = Lead(i)
    BY <2>1 DEF Left, Lead
  <2> QED
    BY <1>2, <2>2, Deadlines
<1>4. /\ phase[i] = "sleeping" => /\ Left(i) = Renew - age[i] + MaxLatency + p
                                  /\ Lead(i) = Renew - age[i] + MaxLatency + p
      /\ phase[i] = "asking" => /\ Left(i) = MaxLatency - age[i] + p
                                /\ Lead(i) = MaxLatency - age[i] + p
      /\ phase[i] = "answered" => /\ Left(i) = MaxLatency - age[i] + Round + q
                                  /\ Lead(i) = MaxLatency - age[i] + p
  BY DEF Left, Lead
<1>5. CASE Eval(i)
  <2>1. /\ phase[i] = "asking" /\ phase'[i] = "answered"
        /\ age'[i] = age[i] /\ misses'[i] = misses[i]
    BY <1>5 DEF Eval, TypeOK
  <2>2. Lead(i)' = MaxLatency - age[i] + p
    BY <2>1 DEF Lead
  <2> HIDE DEF p, q
  <2> QED
    BY <1>0, <1>1, <1>2, <1>4, <1>5, <2>1, <2>2
<1>6. CASE Answer(i)
  <2>1. /\ phase[i] = "answered" /\ phase'[i] = "sleeping"
        /\ age'[i] = 0 /\ misses'[i] = 0
    BY <1>6 DEF Answer, Sleep, TypeOK
  <2>2. Left(i)' = Renew - 0 + MaxLatency + q
    BY <2>1 DEF Left
  <2> HIDE DEF p, q
  <2> QED
    BY <1>0, <1>1, <1>2, <1>4, <1>6, <2>1, <2>2
<1>7. CASE Miss(i)
  <2>1. /\ phase[i] \in {"asking", "answered"} /\ phase'[i] = "sleeping"
        /\ age'[i] = 0 /\ misses'[i] = misses[i] + 1
        /\ MaxMisses - misses[i] \in Nat \ {0}
        /\ MaxMisses - (misses[i] + 1) = (MaxMisses - misses[i]) - 1
    BY <1>0, <1>7 DEF Miss, Sleep, TypeOK
  <2>2. ((MaxMisses - misses[i]) - 1) * Round = p - Round
    BY <2>1
  <2>3. /\ Left(i)' = Renew - 0 + MaxLatency + (p - Round)
        /\ Lead(i)' = Renew - 0 + MaxLatency + (p - Round)
    BY <2>1, <2>2 DEF Left, Lead
  <2> HIDE DEF p, q
  <2> QED
    BY <1>0, <1>1, <1>2, <1>4, <2>1, <2>3, SMTT(30)
<1>8. CASE Wake(i)
  <2>1. /\ phase[i] = "sleeping" /\ phase'[i] = "asking" /\ age[i] = Renew
        /\ age'[i] = 0 /\ misses'[i] = misses[i]
    BY <1>8 DEF Wake, TypeOK
  <2>2. Left(i)' = MaxLatency - 0 + p /\ Lead(i)' = MaxLatency - 0 + p
    BY <2>1 DEF Left, Lead
  <2> HIDE DEF p, q
  <2> QED
    BY <1>0, <1>1, <1>2, <1>4, <2>1, <2>2
<1>9. CASE Start(i)
  BY <1>9 DEF Start, Up
<1> QED
  BY <1>3, <1>5, <1>6, <1>7, <1>8, <1>9 DEF LoopStep

(* The deadlines are numbers after a step, too.                               *)
LEMMA DeadlineNumbers ==
  ASSUME TypeOK', NEW i \in Instances
  PROVE  Left(i)' \in Int /\ Lead(i)' \in Int
<1> USE LeaseAssumption, Rounds
<1>1. age'[i] \in Nat /\ misses'[i] \in 0..MaxMisses /\ MaxMisses - misses'[i] \in Nat
  BY DEF TypeOK
<1>2. (MaxMisses - misses'[i]) * Round \in Nat /\ MaxMisses * Round \in Nat
  BY <1>1
<1> QED
  BY <1>1, <1>2 DEF Left, Lead

(* A script that lands on a free or an own lease secures it.                  *)
LEMMA EvalSecures ==
  ASSUME InTime, TypeOK, TypeOK', NEW j \in Instances, Eval(j), holder \in {None, j}
  PROVE  Secured(j)' /\ Lead(j)' <= MaxLatency + MaxMisses * Round
<1> USE LeaseAssumption, Rounds
<1> DEFINE p == (MaxMisses - misses[j]) * Round
           q == MaxMisses * Round
<1>1. /\ phase'[j] = "answered" /\ age'[j] = age[j] /\ misses'[j] = misses[j]
      /\ holder' = j /\ ttl' = TTL
      /\ age[j] \in Nat /\ age[j] <= MaxLatency
      /\ MaxMisses - misses[j] \in Nat /\ MaxMisses - misses[j] <= MaxMisses
  BY DEF Eval, Acquire, TypeOK
<1>2. p \in Nat /\ q \in Nat /\ p <= q
  BY <1>1
<1>3. Left(j)' = MaxLatency - age[j] + Round + q /\ Lead(j)' = MaxLatency - age[j] + p
  BY <1>1 DEF Left, Lead
<1>4. Round + q + MaxLatency < TTL
  BY DEF InTime, Period, Round
<1>5. Up(j)'
  BY <1>1 DEF Up
<1> HIDE DEF p, q
<1>6. Left(j)' < ttl' /\ Lead(j)' <= MaxLatency + q
  BY <1>1, <1>2, <1>3, <1>4
<1> QED
  BY <1>1, <1>5, <1>6 DEF Secured, q

(* A leader stays one until it stops.                                         *)
LEMMA LeadersStay ==
  ASSUME TypeOK, LeaseCovers, NEW j \in Instances, LoopStep(j), Leaders' = {}
  PROVE  Leaders = {}
<1> SUFFICES ASSUME NEW k \in Instances, isLeader[k] PROVE isLeader'[k]
  BY DEF Leaders
<1>1. Up(k) /\ (phase[k] = "answered" => answer[k])
  BY DEF LeaseCovers, Covers, Claims
<1> QED
  BY <1>1 DEF LoopStep, Start, Eval, Answer, ApplyLeadership, Miss, Wake, Up, TypeOK

(* A step of a loop keeps the deadline that is running, or starts a closer    *)
(* one.                                                                       *)
LEMMA LoopDeadline ==
  ASSUME InTime, TypeOK, TypeOK', LeaseCovers, HolderToldYes, Deadline,
         NEW j \in Instances, LoopStep(j), Leaders' = {}
  PROVE  Deadline'
<1> USE LeaseAssumption
<1>0. /\ idle \in Nat /\ ttl \in 0..TTL /\ (holder = None <=> ttl = 0) /\ idle' = idle
      /\ Period \in Nat /\ MaxMisses * Round \in Nat
  BY Rounds DEF TypeOK, LoopStep, Start, Eval, Answer, Miss, Wake, Period, Round
<1>1. ~Eval(j) => holder' = holder /\ ttl' = ttl
  BY DEF LoopStep, Start, Answer, Miss, Wake
<1>2. Eval(j) /\ holder \notin {None, j} => holder' = holder /\ ttl' = ttl
  BY DEF Eval, Acquire
<1>3. ASSUME Eval(j), holder \in {None, j}, idle < TTL + Period PROVE Deadline'
  <2>1. Secured(j)' /\ Lead(j)' <= MaxLatency + MaxMisses * Round
    BY <1>3, EvalSecures
  <2>2. Lead(j)' \in Int
    BY DeadlineNumbers
  <2>3. idle' + Lead(j)' < Limit
    BY <1>0, <1>3, <2>1, <2>2 DEF Limit
  <2> QED
    BY <2>1, <2>3 DEF Deadline, Limit
<1>4. ASSUME NEW i \in Instances, Secured(i), idle + Lead(i) < Limit PROVE Deadline'
  <2>1. Up(i) /\ holder = i /\ Left(i) < ttl /\ holder # None
    BY <1>4 DEF Secured
  <2>2. ~Answer(i)
    BY <2>1 DEF Answer, ApplyLeadership, HolderToldYes, Leaders, TypeOK
  <2>3. /\ Up(i)' /\ Lead(i)' <= Lead(i) /\ (~Eval(i) => Left(i)' <= Left(i))
        /\ Lead(i)' \in Int /\ Left(i)' \in Int
    BY <2>1, <2>2, NeverPutOff, DeadlineNumbers
  <2>4. Lead(i) \in Nat /\ Left(i) \in Nat
    BY <2>1, Deadlines
  <2>5. idle' + Lead(i)' < Limit
    BY <1>0, <1>4, <2>3, <2>4 DEF Limit
  <2>6. CASE Eval(i)
    <3>1. Secured(i)'
      BY <2>1, <2>6, EvalSecures
    <3> QED
      BY <2>5, <3>1 DEF Deadline, Limit
  <2>7. CASE ~Eval(i)
    <3>1. holder' = holder /\ ttl' = ttl
      BY <1>1, <1>2, <2>1, <2>7
    <3>2. Left(i)' < ttl'
      BY <1>0, <2>1, <2>3, <2>4, <2>7, <3>1
    <3> QED
      BY <2>1, <2>3, <2>5, <3>1, <3>2 DEF Deadline, Secured, Limit
  <2> QED
    BY <2>6, <2>7
<1>5. ASSUME holder # None, idle + ttl <= TTL PROVE Deadline'
  <2>1. CASE Eval(j) /\ holder = j
    BY <1>0, <1>3, <1>5, <2>1
  <2>2. CASE ~(Eval(j) /\ holder = j)
    <3>1. holder' = holder /\ ttl' = ttl
      BY <1>1, <1>2, <1>5, <2>2
    <3> QED
      BY <1>0, <1>5, <3>1 DEF Deadline
  <2> QED
    BY <2>1, <2>2
<1>6. ASSUME holder = None,
             idle = 0 \/ \E i \in Instances : Up(i) /\ idle + Left(i) < TTL + Period
      PROVE  Deadline'
  <2>1. idle < TTL + Period
    <3>1. CASE idle = 0
      BY <1>0, <3>1
    <3>2. ASSUME NEW i \in Instances, Up(i), idle + Left(i) < TTL + Period
          PROVE  idle < TTL + Period
      BY <1>0, <3>2, Deadlines
    <3> QED
      BY <1>6, <3>1, <3>2
  <2>2. CASE Eval(j)
    BY <1>3, <1>6, <2>1, <2>2
  <2>3. CASE ~Eval(j) /\ idle = 0
    BY <1>0, <1>1, <1>6, <2>3 DEF Deadline
  <2>4. ASSUME ~Eval(j), NEW i \in Instances, Up(i), idle + Left(i) < TTL + Period
        PROVE  Deadline'
    <3>1. ~Eval(i)
      <4>1. CASE i = j
        BY <2>4, <4>1
      <4>2. CASE i # j
        BY <2>4, <4>2 DEF LoopStep, Start, Answer, Miss, Wake, Sleep, Eval, TypeOK
      <4> QED
        BY <4>1, <4>2
    <3>2. Up(i)' /\ Left(i)' <= Left(i) /\ Left(i)' \in Int /\ Left(i) \in Nat
      BY <2>4, <3>1, NeverPutOff, DeadlineNumbers, Deadlines
    <3>3. holder' = None
      BY <1>1, <1>6, <2>4
    <3>4. idle' + Left(i)' < TTL + Period
      BY <1>0, <2>4, <3>2
    <3> QED
      BY <3>2, <3>3, <3>4 DEF Deadline, Period
  <2> QED
    BY <1>6, <2>2, <2>3, <2>4
<1> QED
  BY <1>4, <1>5, <1>6 DEF Deadline

(* A unit of time uses up one of the deadline that is running, or the one of  *)
(* a lease that is gone is over and that of the next script begins.           *)
LEMMA TickDeadline ==
  ASSUME TypeOK, TypeOK', Deadline, Tick, Leaders = {}
  PROVE  Deadline' /\ HandOver'
<1> USE LeaseAssumption
<1>0. /\ idle \in Nat /\ ttl \in 0..TTL /\ (holder = None <=> ttl = 0) /\ idle' = idle + 1
      /\ Period \in Nat \ {0} /\ MaxMisses * Round \in Nat
      /\ ttl' = (IF ttl = 0 THEN 0 ELSE ttl - 1) /\ holder' = (IF ttl <= 1 THEN None ELSE holder)
  <2>1. Period \in Nat \ {0}
    <3>1. (MaxMisses + 1) * Round \in Nat /\ Round <= (MaxMisses + 1) * Round
      <4>1. 1 * Round <= (MaxMisses + 1) * Round /\ 1 * Round = Round
        BY Rounds
      <4> QED
        BY <4>1, Rounds
    <3> QED
      BY <3>1, Rounds DEF Period, Round
  <2> QED
    BY <2>1, Rounds DEF TypeOK, Tick, Expire
<1>1. HandOver' <=> idle' < Limit
  BY DEF HandOver, Limit, Round, Period
<1>2. ASSUME NEW i \in Instances, Secured(i), idle + Lead(i) < Limit
      PROVE  Deadline' /\ HandOver'
  <2>1. Up(i) /\ holder = i /\ Left(i) < ttl
    BY <1>2 DEF Secured
  <2>2. /\ Left(i) \in Nat /\ Left(i) > 0 /\ Left(i)' = Left(i) - 1
        /\ Lead(i) \in Nat /\ Lead(i) > 0 /\ Lead(i)' = Lead(i) - 1 /\ Up(i)'
    BY <2>1, Deadlines, TickCloser
  <2>3. holder' = i /\ Left(i)' < ttl'
    BY <1>0, <2>1, <2>2
  <2>4. idle' + Lead(i)' < Limit /\ idle' < Limit
    BY <1>0, <1>2, <2>2 DEF Limit
  <2> QED
    BY <1>1, <2>2, <2>3, <2>4 DEF Deadline, Secured, Limit
<1>3. ASSUME holder' = None, idle' <= TTL PROVE Deadline' /\ HandOver'
  <2>1. PICK i \in Instances : Up(i)
    BY DEF Tick
  <2>2. Left(i) \in Nat /\ Left(i) <= Period /\ Left(i)' = Left(i) - 1 /\ Up(i)'
    BY <2>1, Deadlines, TickCloser
  <2>3. idle' + Left(i)' < TTL + Period
    BY <1>0, <1>3, <2>2
  <2>4. idle' < Limit
    BY <1>0, <1>3 DEF Limit
  <2> QED
    BY <1>1, <1>3, <2>2, <2>3, <2>4 DEF Deadline, Period
<1>4. ASSUME holder # None, idle + ttl <= TTL PROVE Deadline' /\ HandOver'
  <2>1. CASE ttl = 1
    BY <1>0, <1>3, <1>4, <2>1
  <2>2. CASE ttl > 1
    <3>1. holder' # None /\ idle' + ttl' <= TTL /\ idle' <= TTL
      BY <1>0, <1>4, <2>2
    <3>2. idle' < Limit
      BY <1>0, <3>1 DEF Limit
    <3> QED
      BY <1>1, <3>1, <3>2 DEF Deadline
  <2> QED
    BY <1>0, <1>4, <2>1, <2>2
<1>5. CASE holder = None /\ idle = 0
  BY <1>0, <1>3, <1>5
<1>6. ASSUME holder = None, NEW i \in Instances, Up(i), idle + Left(i) < TTL + Period
      PROVE  Deadline' /\ HandOver'
  <2>1. Left(i) \in Nat /\ Left(i) > 0 /\ Left(i)' = Left(i) - 1 /\ Up(i)'
    BY <1>6, Deadlines, TickCloser
  <2>2. holder' = None /\ idle' + Left(i)' < TTL + Period /\ idle' < TTL + Period
    BY <1>0, <1>6, <2>1
  <2>3. idle' < Limit
    BY <1>0, <2>2 DEF Limit
  <2> QED
    BY <1>1, <2>1, <2>2, <2>3 DEF Deadline, Period
<1> QED
  BY <1>2, <1>4, <1>5, <1>6 DEF Deadline

(* Every step keeps the deadline: the loops and the clock by the two lemmas   *)
(* above, a stop because it starts the count of leaderless ticks again.       *)
LEMMA HandOverStep ==
  ASSUME InTime, TypeOK, TypeOK', LeaseCovers, HandOverInv, [Next]_vars
  PROVE  HandOverInv'
<1> USE LeaseAssumption
<1>0. /\ idle \in Nat /\ ttl' \in 0..TTL /\ HolderToldYes /\ HandOver
      /\ (Leaders = {} => Deadline) /\ Limit \in Nat /\ 0 < Limit
  <2>1. (MaxMisses + 1) * Round \in Nat /\ MaxMisses * Round \in Nat /\ Round \in Nat
    BY Rounds
  <2>2. Limit \in Nat /\ 0 < Limit
    BY <2>1 DEF Limit, Period, Round
  <2> QED
    BY <2>2 DEF HandOverInv, TypeOK
<1>1. (HandOver <=> idle < Limit) /\ (HandOver' <=> idle' < Limit)
  BY DEF HandOver, Limit, Round, Period
<1>2. HolderToldYes'
  BY <1>0 DEF HolderToldYes, Next, Start, Eval, Acquire, Answer, ApplyLeadership, Sleep, Miss,
      Wake, Stop, Tick, Expire, vars, TypeOK
<1>3. CASE \E j \in Instances : LoopStep(j)
  <2>1. PICK j \in Instances : LoopStep(j)
    BY <1>3
  <2>2. idle' = idle
    BY <2>1 DEF LoopStep, Start, Eval, Answer, Miss, Wake
  <2>3. Leaders' = {} => Deadline'
    BY <1>0, <2>1, LeadersStay, LoopDeadline
  <2> QED
    BY <1>0, <1>1, <1>2, <2>2, <2>3 DEF HandOverInv
<1>4. CASE \E j \in Instances : Stop(j)
  <2>1. idle' = 0
    BY <1>4 DEF Stop
  <2>2. idle' + ttl' <= TTL
    <3>1. ttl' \in 0..TTL
      BY DEF TypeOK
    <3> DEFINE i == idle'  t == ttl'
    <3>2. i = 0 /\ t \in 0..TTL
      BY <2>1, <3>1
    <3> HIDE DEF i, t
    <3>3. i + t <= TTL
      BY <3>2
    <3> QED
      BY <3>3 DEF i, t
  <2>3. Deadline'
    BY <2>1, <2>2 DEF Deadline
  <2> QED
    BY <1>0, <1>1, <1>2, <2>1, <2>3 DEF HandOverInv
<1>5. CASE Tick
  <2>1. CASE Leaders = {}
    BY <1>0, <1>2, <1>5, <2>1, TickDeadline DEF HandOverInv
  <2>2. CASE Leaders # {}
    <3>1. idle' = 0 /\ Leaders' = Leaders
      BY <1>5, <2>2 DEF Tick, Leaders
    <3> QED
      BY <1>0, <1>1, <1>2, <2>2, <3>1 DEF HandOverInv
  <2> QED
    BY <2>1, <2>2
<1>6. CASE UNCHANGED vars
  BY <1>6 DEF vars, HandOverInv, HolderToldYes, Leaders, Deadline, Secured, Up, Left, Lead, HandOver
<1> QED
  BY <1>3, <1>4, <1>5, <1>6 DEF Next, LoopStep

(* A leader that is gone is replaced in bounded time, for every number of     *)
(* instances and whatever raises or stops: with an instance up, nobody leads  *)
(* for less than the lease, the gap between two scripts, and the latency and  *)
(* lost answers of the one that gets the lease.                               *)
THEOREM HandedOver == ASSUME InTime PROVE Spec => []HandOver
<1>1. Init => HandOverInv
  <2>1. (MaxMisses + 1) * Round \in Nat /\ MaxMisses * Round \in Nat /\ Round \in Nat
    BY Rounds, LeaseAssumption
  <2>2. Init => HandOver
    BY <2>1, LeaseAssumption DEF Init, HandOver, Period, Round
  <2> QED
    BY <2>2 DEF Init, HandOverInv, HolderToldYes, Deadline
<1>2. Init => LeaseCovers
  BY DEF Init, LeaseCovers, Covers, Claims
<1>3. TypeOK /\ TypeOK' /\ LeaseCovers /\ [Next]_vars => LeaseCovers'
  BY CoversStep
<1>4. TypeOK /\ TypeOK' /\ LeaseCovers /\ HandOverInv /\ [Next]_vars => HandOverInv'
  BY HandOverStep
<1>5. HandOverInv => HandOver
  BY DEF HandOverInv
<1> QED
  BY LeaseTypeCorrect, <1>1, <1>2, <1>3, <1>4, <1>5, PTL DEF Spec

================================================================================
