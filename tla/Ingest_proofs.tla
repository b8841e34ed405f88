------------------------- MODULE Ingest_proofs -------------------------
(***************************************************************************)
(* Proofs about what comes in: the relay of a probe (SyslogRelay), whose a *)
(* line is (SyslogServer) and the units that collect (Integrations), for   *)
(* every size of lines, every limit of the buffer, the batches and the     *)
(* connections, every number of messages and failures, and any tenants,    *)
(* sites, hosts and configs.                                               *)
(*                                                                         *)
(* The bytes of a buffer and what requeue_front leaves are recursive       *)
(* functions; that they exist, and what they compute, is shown by the      *)
(* smallest place at which it would fail (Iteration, SumsFacts,            *)
(* RefilledFacts).  The invariant RelayInv has three parts that are kept   *)
(* apart: the lines, the counters and the listeners.  HostsInv says what   *)
(* the caches were filed from, and FlightInv that every unit's configs are *)
(* in flight; no step of one component touches another (IngestMove).       *)
(***************************************************************************)
EXTENDS MCIngest, Integers, Sequences, FiniteSets, NaturalsInduction, FiniteSetTheorems, FunctionTheorems, TLAPS

(* A set of numbers has a smallest.                                        *)
LEMMA SmallestNat ==
    ASSUME NEW Q \in SUBSET Nat, Q # {}
    PROVE  \E m \in Q : \A k \in Q : m <= k
<1>1. PICK x \in Q : \A y \in Q : ~(<<y, x>> \in OpToRel(<, Nat))
  BY NatLessThanWellFounded, WFMin, Zenon
<1>2. \A y \in Q : ~(y < x)
  BY <1>1 DEF OpToRel
<1> QED
  BY <1>2

(* A function defined by what each of its values makes of the one before   *)
(* exists.                                                                 *)
Iterates(N, V, v0, Fn) ==
    \E f \in [0..N -> V] : f[0] = v0 /\ \A n \in 1..N : f[n] = Fn[n][f[n - 1]]

(* By the smallest counterexample: up to which the function exists, and    *)
(* can be continued.                                                       *)
LEMMA Iteration ==
    ASSUME NEW N \in Nat, NEW V, NEW v0 \in V, NEW Fn \in [1..N -> [V -> V]]
    PROVE  Iterates(N, V, v0, Fn)
<1> DEFINE Good(k) == \E f \in [0..k -> V] : f[0] = v0 /\ \A n \in 1..k : f[n] = Fn[n][f[n - 1]]
           Bad == {k \in 0..N : ~Good(k)}
<1>1. Good(0)
  <2> DEFINE f == [x \in 0..0 |-> v0]
  <2>1. f \in [0..0 -> V] /\ f[0] = v0
    OBVIOUS
  <2>2. \A n \in 1..0 : f[n] = Fn[n][f[n - 1]]
    OBVIOUS
  <2> HIDE DEF f
  <2> QED
    BY <2>1, <2>2
<1>2. ASSUME NEW m \in 1..N, Good(m - 1)
      PROVE  Good(m)
  <2>1. PICK f \in [0..(m - 1) -> V] : f[0] = v0 /\ \A n \in 1..(m - 1) : f[n] = Fn[n][f[n - 1]]
    BY <1>2
  <2> DEFINE g == [x \in 0..m |-> IF x = m THEN Fn[m][f[m - 1]] ELSE f[x]]
  <2>2. Fn[m][f[m - 1]] \in V
    OBVIOUS
  <2>3. g \in [0..m -> V]
    BY <2>2
  <2>4. g[0] = v0
    BY <2>1
  <2>5. \A n \in 1..m : g[n] = Fn[n][g[n - 1]]
    BY <2>1
  <2> QED
    BY <2>3, <2>4, <2>5
<1>3. Bad = {}
  <2> SUFFICES ASSUME Bad # {} PROVE FALSE
    OBVIOUS
  <2> HIDE DEF Good
  <2>1. Bad \in SUBSET Nat
    OBVIOUS
  <2>2. PICK m \in Bad : \A k \in Bad : m <= k
    BY <2>1, SmallestNat
  <2>3. m \in 0..N /\ ~Good(m) /\ m # 0
    BY <1>1
  <2>4. Good(m - 1)
    BY <2>2, <2>3
  <2> QED
    BY <1>2, <2>3, <2>4
<1>4. Good(N)
  <2> HIDE DEF Good
  <2> QED
    BY <1>3
<1> QED
  BY <1>4 DEF Iterates

(* The running byte count of a buffer is what its recursive definition     *)
(* says.                                                                   *)
LEMMA SumsFacts ==
    ASSUME RelayAssumption, NEW s \in Seq(Entry)
    PROVE  /\ Sums(s) \in [0..Len(s) -> Nat]
           /\ Sums(s)[0] = 0
           /\ \A n \in 1..Len(s) : Sums(s)[n] = Sums(s)[n - 1] + s[n].size
           /\ \A n \in 1..Len(s) : s[n].size \in Nat \ {0} /\ s[n].id \in 1..MaxMessages
           /\ Bytes(s) \in Nat
<1>1. \A n \in 1..Len(s) : s[n] \in Entry
  OBVIOUS
<1>2. \A n \in 1..Len(s) : s[n].size \in Nat \ {0} /\ s[n].id \in 1..MaxMessages
  BY <1>1 DEF Entry, RelayAssumption
<1> DEFINE Fn == [n \in 1..Len(s) |-> [v \in Nat |-> v + s[n].size]]
<1>3. Len(s) \in Nat
  OBVIOUS
<1>4. Fn \in [1..Len(s) -> [Nat -> Nat]]
  BY <1>2
<1>5. PICK f \in [0..Len(s) -> Nat] : f[0] = 0 /\ \A n \in 1..Len(s) : f[n] = Fn[n][f[n - 1]]
  <2> HIDE DEF Fn
  <2>1. Iterates(Len(s), Nat, 0, Fn)
    BY <1>3, <1>4, Iteration
  <2> QED
    BY <2>1 DEF Iterates
<1>6. f = [n \in 0..Len(s) |-> IF n = 0 THEN 0 ELSE f[n - 1] + s[n].size]
  <2>1. ASSUME NEW n \in 0..Len(s)
        PROVE  f[n] = IF n = 0 THEN 0 ELSE f[n - 1] + s[n].size
    <3>1. CASE n = 0
      BY <3>1, <1>5
    <3>2. CASE n # 0
      <4>1. n \in 1..Len(s) /\ n - 1 \in 0..Len(s)
        BY <1>3, <3>2
      <4>2. f[n - 1] \in Nat /\ f[n] = Fn[n][f[n - 1]]
        BY <4>1, <1>5
      <4> QED
        BY <4>1, <4>2, <3>2
    <3> QED
      BY <3>1, <3>2
  <2> QED
    BY <2>1
<1>7. Sums(s) = [n \in 0..Len(s) |-> IF n = 0 THEN 0 ELSE Sums(s)[n - 1] + s[n].size]
  BY <1>6, Zenon DEF Sums
<1>8. \A n \in 0..Len(s) : Sums(s)[n] = IF n = 0 THEN 0 ELSE Sums(s)[n - 1] + s[n].size
  BY <1>7
<1>9. /\ Sums(s)[0] = 0
      /\ \A n \in 1..Len(s) : Sums(s)[n] = Sums(s)[n - 1] + s[n].size
  BY <1>3, <1>8
<1> DEFINE Bad == {n \in 0..Len(s) : Sums(s)[n] \notin Nat}
<1>10. Bad = {}
  <2> SUFFICES ASSUME Bad # {} PROVE FALSE
    OBVIOUS
  <2>1. Bad \in SUBSET Nat
    BY <1>3
  <2>2. PICK m \in Bad : \A k \in Bad : m <= k
    BY <2>1, SmallestNat
  <2>3. m \in 1..Len(s)
    BY <1>3, <1>9
  <2>4. m - 1 \in 0..Len(s) /\ m - 1 \notin Bad
    BY <1>3, <2>2, <2>3
  <2>5. Sums(s)[m - 1] \in Nat /\ s[m].size \in Nat /\ Sums(s)[m] = Sums(s)[m - 1] + s[m].size
    BY <1>2, <1>9, <2>3, <2>4
  <2>6. Sums(s)[m] \notin Nat
    OBVIOUS
  <2> HIDE DEF Bad
  <2> QED
    BY <2>5, <2>6
<1>11. Sums(s) \in [0..Len(s) -> Nat]
  BY <1>7, <1>10
<1> QED
  BY <1>2, <1>3, <1>9, <1>11 DEF Bytes

(* What a part of s weighs.                                                *)
LEMMA PartBytes ==
    ASSUME RelayAssumption, NEW s \in Seq(Entry), NEW t \in Seq(Entry),
           NEW d \in Nat, d + Len(t) <= Len(s),
           \A i \in 1..Len(t) : t[i] = s[d + i]
    PROVE  Bytes(t) = Sums(s)[d + Len(t)] - Sums(s)[d]
<1> DEFINE Bad == {n \in 0..Len(t) : Sums(t)[n] # Sums(s)[d + n] - Sums(s)[d]}
<1>1. Len(s) \in Nat /\ Len(t) \in Nat
  OBVIOUS
<1>2. /\ Sums(s) \in [0..Len(s) -> Nat] /\ Sums(t) \in [0..Len(t) -> Nat]
      /\ Sums(t)[0] = 0
      /\ \A n \in 1..Len(s) : Sums(s)[n] = Sums(s)[n - 1] + s[n].size
      /\ \A n \in 1..Len(t) : Sums(t)[n] = Sums(t)[n - 1] + t[n].size
      /\ \A n \in 1..Len(t) : t[n].size \in Nat
  BY SumsFacts
<1>3. Bad = {}
  <2> SUFFICES ASSUME Bad # {} PROVE FALSE
    OBVIOUS
  <2>1. Bad \in SUBSET Nat
    BY <1>1
  <2>2. PICK m \in Bad : \A k \in Bad : m <= k
    BY <2>1, SmallestNat
  <2>0. 0 \notin Bad
    <3>1. Sums(s)[d + 0] \in Nat /\ d + 0 = d
      BY <1>1, <1>2
    <3> QED
      BY <3>1, <1>2
  <2>3. m \in 1..Len(t)
    BY <1>1, <2>0, <2>2, SMTT(30)
  <2>4. m - 1 \in 0..Len(t) /\ m - 1 \notin Bad /\ d + m \in 1..Len(s) /\ d + m - 1 \in 0..Len(s)
    BY <1>1, <2>2, <2>3
  <2>5. Sums(t)[m - 1] = Sums(s)[d + m - 1] - Sums(s)[d]
    BY <2>3, <2>4
  <2>6. Sums(s)[d + m] = Sums(s)[d + m - 1] + t[m].size
    <3>1. t[m] = s[d + m]
      BY <2>3
    <3>2. Sums(s)[d + m] = Sums(s)[d + m - 1] + s[d + m].size
      BY <1>2, <2>4
    <3> QED
      BY <3>1, <3>2
  <2>7. Sums(s)[d + m - 1] \in Nat /\ Sums(s)[d] \in Nat /\ t[m].size \in Nat
    <3>1. d \in 0..Len(s)
      BY <1>1
    <3>2. Sums(s)[d + m - 1] \in Nat /\ Sums(s)[d] \in Nat
      BY <3>1, <1>2, <2>4
    <3>3. t[m].size \in Nat
      BY <1>2, <2>3
    <3> QED
      BY <3>2, <3>3
  <2>8. Sums(t)[m] = Sums(t)[m - 1] + t[m].size
    BY <1>2, <2>3
  <2>9. Sums(t)[m] # Sums(s)[d + m] - Sums(s)[d]
    OBVIOUS
  <2> HIDE DEF Bad
  <2> QED
    BY <2>5, <2>6, <2>7, <2>8, <2>9
<1>4. Len(t) \in 0..Len(t)
  BY <1>1
<1> QED
  BY <1>3, <1>4 DEF Bytes

-----------------------------------------------------------------------------
(* The cuts and joins the buffer is made of.                               *)

(* The first n entries.                                                    *)
LEMMA Prefix ==
    ASSUME RelayAssumption, NEW s \in Seq(Entry), NEW n \in 0..Len(s)
    PROVE  /\ SubSeq(s, 1, n) \in Seq(Entry) /\ Len(SubSeq(s, 1, n)) = n
           /\ \A i \in 1..n : SubSeq(s, 1, n)[i] = s[i]
           /\ Bytes(SubSeq(s, 1, n)) = Sums(s)[n]
<1>1. /\ SubSeq(s, 1, n) \in Seq(Entry) /\ Len(SubSeq(s, 1, n)) = n /\ Len(s) \in Nat
      /\ \A i \in 1..n : SubSeq(s, 1, n)[i] = s[i]
  OBVIOUS
<1>2. Bytes(SubSeq(s, 1, n)) = Sums(s)[0 + n] - Sums(s)[0]
  <2> DEFINE t == SubSeq(s, 1, n)
  <2>1. t \in Seq(Entry) /\ Len(t) = n /\ 0 \in Nat /\ 0 + Len(t) <= Len(s)
        /\ \A i \in 1..Len(t) : t[i] = s[0 + i]
    BY <1>1
  <2> HIDE DEF t
  <2>2. Bytes(t) = Sums(s)[0 + Len(t)] - Sums(s)[0]
    BY <2>1, PartBytes
  <2> QED
    BY <2>1, <2>2 DEF t
<1>3. Sums(s)[n] \in Nat /\ Sums(s)[0] = 0
  BY SumsFacts
<1> QED
  BY <1>1, <1>2, <1>3

(* What is left without the first n entries.                               *)
LEMMA Suffix ==
    ASSUME RelayAssumption, NEW s \in Seq(Entry), NEW n \in 0..Len(s)
    PROVE  /\ DropFirst(s, n) \in Seq(Entry) /\ Len(DropFirst(s, n)) = Len(s) - n
           /\ \A i \in 1..(Len(s) - n) : DropFirst(s, n)[i] = s[n + i]
           /\ Bytes(DropFirst(s, n)) = Bytes(s) - Sums(s)[n]
           /\ Sums(s)[n] \in Nat /\ Sums(s)[n] <= Bytes(s)
<1>1. /\ DropFirst(s, n) \in Seq(Entry) /\ Len(DropFirst(s, n)) = Len(s) - n /\ Len(s) \in Nat
      /\ \A i \in 1..(Len(s) - n) : DropFirst(s, n)[i] = s[n + i]
  BY DEF DropFirst
<1>2. Bytes(DropFirst(s, n)) = Sums(s)[Len(s)] - Sums(s)[n]
  <2> DEFINE t == DropFirst(s, n)
  <2>1. t \in Seq(Entry) /\ n + Len(t) = Len(s) /\ n \in Nat
        /\ \A i \in 1..Len(t) : t[i] = s[n + i]
    BY <1>1
  <2> HIDE DEF t
  <2>2. n + Len(t) <= Len(s)
    BY <1>1, <2>1
  <2>3. Bytes(t) = Sums(s)[n + Len(t)] - Sums(s)[n]
    BY <2>1, <2>2, PartBytes
  <2> QED
    BY <2>1, <2>3 DEF t
<1>3. Sums(s)[n] \in Nat /\ Bytes(s) \in Nat /\ Bytes(DropFirst(s, n)) \in Nat
  BY <1>1, SumsFacts
<1> QED
  BY <1>1, <1>2, <1>3 DEF Bytes

(* One more entry at the end.                                              *)
LEMMA AtEnd ==
    ASSUME RelayAssumption, NEW s \in Seq(Entry), NEW e \in Entry
    PROVE  /\ Append(s, e) \in Seq(Entry) /\ Len(Append(s, e)) = Len(s) + 1
           /\ \A i \in 1..Len(s) : Append(s, e)[i] = s[i]
           /\ Append(s, e)[Len(s) + 1] = e
           /\ Bytes(Append(s, e)) = Bytes(s) + e.size
<1> DEFINE t == Append(s, e)
<1>1. /\ t \in Seq(Entry) /\ Len(t) = Len(s) + 1 /\ Len(s) \in Nat
      /\ \A i \in 1..Len(s) : t[i] = s[i]
      /\ t[Len(s) + 1] = e
  OBVIOUS
<1> HIDE DEF t
<1>2. Bytes(s) = Sums(t)[0 + Len(s)] - Sums(t)[0]
  <2>1. 0 + Len(s) <= Len(t) /\ \A i \in 1..Len(s) : s[i] = t[0 + i]
    BY <1>1
  <2> QED
    BY <1>1, <2>1, PartBytes
<1>3. Sums(t)[0] = 0 /\ Sums(t)[Len(s) + 1] = Sums(t)[Len(s)] + e.size /\ Sums(t)[Len(s)] \in Nat
  <2>1. Len(s) + 1 \in 1..Len(t) /\ Len(s) \in 0..Len(t) /\ Len(s) + 1 - 1 = Len(s)
    BY <1>1
  <2>2. /\ Sums(t) \in [0..Len(t) -> Nat] /\ Sums(t)[0] = 0
        /\ \A n \in 1..Len(t) : Sums(t)[n] = Sums(t)[n - 1] + t[n].size
    BY <1>1, SumsFacts
  <2> QED
    BY <1>1, <2>1, <2>2
<1>4. Bytes(t) = Bytes(s) + e.size
  BY <1>1, <1>2, <1>3 DEF Bytes
<1> QED
  BY <1>1, <1>4 DEF t

(* One more entry in front.                                                *)
LEMMA AtFront ==
    ASSUME RelayAssumption, NEW s \in Seq(Entry), NEW e \in Entry
    PROVE  /\ <<e>> \o s \in Seq(Entry) /\ Len(<<e>> \o s) = Len(s) + 1
           /\ \A i \in 1..Len(s) : (<<e>> \o s)[i + 1] = s[i]
           /\ (<<e>> \o s)[1] = e
           /\ Bytes(<<e>> \o s) = Bytes(s) + e.size
<1> DEFINE t == <<e>> \o s
<1>1. /\ t \in Seq(Entry) /\ Len(t) = Len(s) + 1 /\ Len(s) \in Nat
      /\ \A i \in 1..Len(s) : t[i + 1] = s[i]
      /\ t[1] = e
  OBVIOUS
<1> HIDE DEF t
<1>2. Bytes(s) = Sums(t)[1 + Len(s)] - Sums(t)[1]
  <2>1. 1 + Len(s) <= Len(t) /\ 1 \in Nat /\ \A i \in 1..Len(s) : s[i] = t[1 + i]
    BY <1>1
  <2> QED
    BY <1>1, <2>1, PartBytes
<1>3. Sums(t)[1] = e.size /\ e.size \in Nat /\ Sums(t)[1 + Len(s)] \in Nat
  <2>1. 1 \in 1..Len(t) /\ 1 + Len(s) \in 0..Len(t) /\ 1 - 1 = 0
    BY <1>1
  <2>2. /\ Sums(t) \in [0..Len(t) -> Nat] /\ Sums(t)[0] = 0
        /\ \A n \in 1..Len(t) : Sums(t)[n] = Sums(t)[n - 1] + t[n].size /\ t[n].size \in Nat
    BY <1>1, SumsFacts
  <2> QED
    BY <1>1, <2>1, <2>2
<1>4. Bytes(t) = Bytes(s) + e.size
  BY <1>1, <1>2, <1>3 DEF Bytes
<1> QED
  BY <1>1, <1>4 DEF t

-----------------------------------------------------------------------------
(* Numbers of the lines.                                                   *)

Ascending(s) == \A i, j \in 1..Len(s) : i < j => s[i].id < s[j].id
Before(M, N) == \A x \in M : \A y \in N : x < y

(* The numbers of a sequence are those of its elements.                    *)
LEMMA IdsOf ==
    ASSUME NEW s \in Seq(Entry)
    PROVE  /\ \A i \in 1..Len(s) : s[i].id \in Ids(s)
           /\ \A x \in Ids(s) : \E i \in 1..Len(s) : x = s[i].id
           /\ Ids(s) \subseteq 1..MaxMessages
<1>1. DOMAIN s = 1..Len(s) /\ \A i \in 1..Len(s) : s[i] \in Entry
  OBVIOUS
<1>2. ToSet(s) = {s[i] : i \in 1..Len(s)}
  BY <1>1 DEF ToSet
<1>3. \A i \in 1..Len(s) : s[i].id \in Ids(s)
  BY <1>2 DEF Ids
<1>4. \A x \in Ids(s) : \E i \in 1..Len(s) : x = s[i].id
  BY <1>2 DEF Ids
<1>5. \A i \in 1..Len(s) : s[i].id \in 1..MaxMessages
  BY <1>1 DEF Entry
<1> QED
  BY <1>3, <1>4, <1>5

(* Numbered upwards, no two entries have the same number.                  *)
LEMMA IdsCount ==
    ASSUME RelayAssumption, NEW s \in Seq(Entry), Ascending(s)
    PROVE  IsFiniteSet(Ids(s)) /\ Cardinality(Ids(s)) = Len(s)
<1> DEFINE f == [i \in 1..Len(s) |-> s[i].id]
<1>1. Len(s) \in Nat /\ \A i \in 1..Len(s) : s[i].id \in Nat
  BY SumsFacts
<1>2. \A i \in 1..Len(s) : f[i] \in Ids(s)
  BY IdsOf
<1>3. \A x \in Ids(s) : \E i \in 1..Len(s) : f[i] = x
  BY IdsOf
<1>4. \A i, j \in 1..Len(s) : f[i] = f[j] => i = j
  <2> SUFFICES ASSUME NEW i \in 1..Len(s), NEW j \in 1..Len(s), f[i] = f[j], i # j
               PROVE  FALSE
    OBVIOUS
  <2>1. s[i].id = s[j].id /\ s[i].id \in Nat /\ s[j].id \in Nat
    BY <1>1
  <2>2. s[i].id < s[j].id \/ s[j].id < s[i].id
    BY <1>1 DEF Ascending
  <2> QED
    BY <2>1, <2>2
<1>5. f \in Bijection(1..Len(s), Ids(s))
  <2>1. f \in [1..Len(s) -> Ids(s)]
    BY <1>2
  <2> HIDE DEF f
  <2> QED
    BY <1>3, <1>4, <2>1 DEF Bijection, Injection, Surjection, IsInjective
<1>6. ExistsBijection(1..Len(s), Ids(s))
  BY <1>5 DEF ExistsBijection
<1>7. IsFiniteSet(1..Len(s)) /\ Cardinality(1..Len(s)) = Len(s)
  <2>1. 1 \in Int /\ Len(s) \in Int /\ Len(s) >= 0
    BY <1>1
  <2>2. /\ IsFiniteSet(1..Len(s))
        /\ Cardinality(1..Len(s)) = IF 1 > Len(s) THEN 0 ELSE Len(s) - 1 + 1
    BY <2>1, FS_Interval, Zenon
  <2> QED
    BY <2>1, <2>2
<1> QED
  BY <1>6, <1>7, FS_Bijection

(* Cut in two, and numbered upwards.                                       *)
LEMMA CutIds ==
    ASSUME RelayAssumption, NEW s \in Seq(Entry), NEW n \in 0..Len(s), Ascending(s)
    PROVE  /\ Ids(SubSeq(s, 1, n)) \cup Ids(DropFirst(s, n)) = Ids(s)
           /\ Before(Ids(SubSeq(s, 1, n)), Ids(DropFirst(s, n)))
           /\ Ids(SubSeq(s, 1, n)) \cap Ids(DropFirst(s, n)) = {}
           /\ Ascending(SubSeq(s, 1, n)) /\ Ascending(DropFirst(s, n))
<1> DEFINE a == SubSeq(s, 1, n)
           b == DropFirst(s, n)
<1>1. a \in Seq(Entry) /\ Len(a) = n /\ \A i \in 1..n : a[i] = s[i]
  BY Prefix
<1>2. b \in Seq(Entry) /\ Len(b) = Len(s) - n /\ \A i \in 1..(Len(s) - n) : b[i] = s[n + i]
  BY Suffix
<1>3. Len(s) \in Nat /\ \A i \in 1..Len(s) : s[i].id \in Nat
  BY SumsFacts
<1> HIDE DEF a, b
<1>4. ASSUME NEW x \in Ids(a) PROVE \E i \in 1..n : x = s[i].id
  BY <1>1, IdsOf
<1>5. ASSUME NEW x \in Ids(b) PROVE \E i \in (n + 1)..Len(s) : x = s[i].id
  <2>1. PICK i \in 1..(Len(s) - n) : x = b[i].id
    BY <1>2, IdsOf
  <2>2. n + i \in (n + 1)..Len(s) /\ b[i] = s[n + i]
    BY <1>2, <1>3
  <2> QED
    BY <2>1, <2>2
<1>6. Ids(a) \cup Ids(b) = Ids(s)
  <2>1. ASSUME NEW x \in Ids(s) PROVE x \in Ids(a) \cup Ids(b)
    <3>1. PICK i \in 1..Len(s) : x = s[i].id
      BY IdsOf
    <3>2. CASE i <= n
      <4>1. i \in 1..Len(a) /\ a[i] = s[i]
        BY <1>1, <3>2
      <4> QED
        BY <1>1, <3>1, <4>1, IdsOf
    <3>3. CASE i > n
      <4>1. i - n \in 1..Len(b) /\ n + (i - n) = i
        BY <1>2, <1>3, <3>3
      <4>2. b[i - n] = s[i]
        BY <1>2, <4>1
      <4> QED
        BY <1>2, <3>1, <4>1, <4>2, IdsOf
    <3> QED
      BY <1>3, <3>2, <3>3
  <2>2. ASSUME NEW x \in Ids(a) PROVE x \in Ids(s)
    <3>1. PICK i \in 1..n : x = s[i].id
      BY <1>4
    <3>2. i \in 1..Len(s)
      BY <1>3
    <3> QED
      BY <3>1, <3>2, IdsOf
  <2>3. ASSUME NEW x \in Ids(b) PROVE x \in Ids(s)
    <3>1. PICK i \in (n + 1)..Len(s) : x = s[i].id
      BY <1>5
    <3>2. i \in 1..Len(s)
      BY <1>3
    <3> QED
      BY <3>1, <3>2, IdsOf
  <2> QED
    BY <2>1, <2>2, <2>3
<1>7. Before(Ids(a), Ids(b))
  <2> SUFFICES ASSUME NEW x \in Ids(a), NEW y \in Ids(b) PROVE x < y
    BY DEF Before
  <2>1. PICK i \in 1..n : x = s[i].id
    BY <1>4
  <2>2. PICK j \in (n + 1)..Len(s) : y = s[j].id
    BY <1>5
  <2>3. i \in 1..Len(s) /\ j \in 1..Len(s) /\ i < j
    BY <1>3
  <2> QED
    BY <2>1, <2>2, <2>3 DEF Ascending
<1>8. Ids(a) \cap Ids(b) = {}
  <2> SUFFICES ASSUME NEW x \in Ids(a), x \in Ids(b) PROVE FALSE
    OBVIOUS
  <2>1. x < x
    BY <1>7 DEF Before
  <2>2. x \in Nat
    BY <1>4, <1>3
  <2> QED
    BY <2>1, <2>2
<1>9. Ascending(a)
  <2> SUFFICES ASSUME NEW i \in 1..n, NEW j \in 1..n, i < j PROVE a[i].id < a[j].id
    BY <1>1 DEF Ascending
  <2>1. a[i] = s[i] /\ a[j] = s[j] /\ i \in 1..Len(s) /\ j \in 1..Len(s)
    BY <1>1, <1>3
  <2> QED
    BY <2>1 DEF Ascending
<1>10. Ascending(b)
  <2> SUFFICES ASSUME NEW i \in 1..(Len(s) - n), NEW j \in 1..(Len(s) - n), i < j
               PROVE  b[i].id < b[j].id
    BY <1>2 DEF Ascending
  <2>1. b[i] = s[n + i] /\ b[j] = s[n + j]
    BY <1>2
  <2>2. n + i \in 1..Len(s) /\ n + j \in 1..Len(s) /\ n + i < n + j
    BY <1>3
  <2> QED
    BY <2>1, <2>2 DEF Ascending
<1> QED
  BY <1>6, <1>7, <1>8, <1>9, <1>10 DEF a, b

(* A newer line at the end keeps the order.                                *)
LEMMA EndIds ==
    ASSUME RelayAssumption, NEW s \in Seq(Entry), NEW e \in Entry, Ascending(s),
           Before(Ids(s), {e.id})
    PROVE  Ids(Append(s, e)) = Ids(s) \cup {e.id} /\ Ascending(Append(s, e))
<1> DEFINE t == Append(s, e)
<1>1. /\ t \in Seq(Entry) /\ Len(t) = Len(s) + 1 /\ t[Len(s) + 1] = e
      /\ \A i \in 1..Len(s) : t[i] = s[i]
  BY AtEnd
<1>2. Len(s) \in Nat
  OBVIOUS
<1> HIDE DEF t
<1>3. \A i \in 1..Len(t) : (i \in 1..Len(s) /\ t[i] = s[i]) \/ (i = Len(s) + 1 /\ t[i] = e)
  BY <1>1, <1>2
<1>4. \A x \in Ids(t) : x \in Ids(s) \/ x = e.id
  BY <1>1, <1>3, IdsOf
<1>5. \A x \in Ids(s) : x \in Ids(t)
  <2> SUFFICES ASSUME NEW x \in Ids(s) PROVE x \in Ids(t)
    OBVIOUS
  <2>1. PICK i \in 1..Len(s) : x = s[i].id
    BY IdsOf
  <2>2. i \in 1..Len(t) /\ t[i] = s[i]
    BY <1>1, <1>2
  <2> QED
    BY <1>1, <2>1, <2>2, IdsOf
<1>6. e.id \in Ids(t)
  <2>1. Len(s) + 1 \in 1..Len(t)
    BY <1>1, <1>2
  <2> QED
    BY <1>1, <2>1, IdsOf
<1>7. Ascending(t)
  <2> SUFFICES ASSUME NEW i \in 1..Len(t), NEW j \in 1..Len(t), i < j PROVE t[i].id < t[j].id
    BY DEF Ascending
  <2>1. i \in 1..Len(s) /\ t[i] = s[i]
    BY <1>1, <1>2, <1>3
  <2>2. CASE j \in 1..Len(s)
    BY <1>1, <2>1, <2>2 DEF Ascending
  <2>3. CASE j = Len(s) + 1
    <3>1. s[i].id \in Ids(s)
      BY <2>1, IdsOf
    <3> QED
      BY <1>1, <2>1, <2>3, <3>1 DEF Before
  <2> QED
    BY <1>1, <1>2, <2>2, <2>3
<1> QED
  BY <1>4, <1>5, <1>6, <1>7 DEF t

(* An older line in front keeps the order.                                 *)
LEMMA FrontIds ==
    ASSUME RelayAssumption, NEW s \in Seq(Entry), NEW e \in Entry, Ascending(s),
           Before({e.id}, Ids(s))
    PROVE  Ids(<<e>> \o s) = Ids(s) \cup {e.id} /\ Ascending(<<e>> \o s)
<1> DEFINE t == <<e>> \o s
<1>1. /\ t \in Seq(Entry) /\ Len(t) = Len(s) + 1 /\ t[1] = e
      /\ \A i \in 1..Len(s) : t[i + 1] = s[i]
  BY AtFront
<1>2. Len(s) \in Nat
  OBVIOUS
<1> HIDE DEF t
<1>3. \A i \in 1..Len(t) : (i = 1 /\ t[i] = e) \/ (i - 1 \in 1..Len(s) /\ t[i] = s[i - 1])
  <2> SUFFICES ASSUME NEW i \in 1..Len(t), i # 1 PROVE i - 1 \in 1..Len(s) /\ t[i] = s[i - 1]
    BY <1>1
  <2>1. i - 1 \in 1..Len(s) /\ (i - 1) + 1 = i
    BY <1>1, <1>2
  <2> QED
    BY <1>1, <2>1
<1>4. ASSUME NEW x \in Ids(t) PROVE x \in Ids(s) \/ x = e.id
  <2>1. PICK i \in 1..Len(t) : x = t[i].id
    BY <1>1, IdsOf
  <2>2. (i = 1 /\ t[i] = e) \/ (i - 1 \in 1..Len(s) /\ t[i] = s[i - 1])
    BY <1>3
  <2> QED
    BY <2>1, <2>2, IdsOf
<1>5. \A x \in Ids(s) : x \in Ids(t)
  <2> SUFFICES ASSUME NEW x \in Ids(s) PROVE x \in Ids(t)
    OBVIOUS
  <2>1. PICK i \in 1..Len(s) : x = s[i].id
    BY IdsOf
  <2>2. i + 1 \in 1..Len(t) /\ t[i + 1] = s[i]
    BY <1>1, <1>2
  <2> QED
    BY <1>1, <2>1, <2>2, IdsOf
<1>6. e.id \in Ids(t)
  <2>1. 1 \in 1..Len(t)
    BY <1>1, <1>2
  <2> QED
    BY <1>1, <2>1, IdsOf
<1>7. Ascending(t)
  <2> SUFFICES ASSUME NEW i \in 1..Len(t), NEW j \in 1..Len(t), i < j PROVE t[i].id < t[j].id
    BY DEF Ascending
  <2>1. j - 1 \in 1..Len(s) /\ t[j] = s[j - 1]
    BY <1>1, <1>2, <1>3
  <2>2. CASE i = 1
    <3>1. s[j - 1].id \in Ids(s)
      BY <2>1, IdsOf
    <3> QED
      BY <1>1, <2>1, <2>2, <3>1 DEF Before
  <2>3. CASE i # 1
    <3>1. i - 1 \in 1..Len(s) /\ t[i] = s[i - 1] /\ i - 1 < j - 1
      BY <1>2, <1>3, <2>3, <1>1
    <3> QED
      BY <2>1, <3>1 DEF Ascending
  <2> QED
    BY <2>2, <2>3
<1> QED
  BY <1>4, <1>5, <1>6, <1>7 DEF t

-----------------------------------------------------------------------------
(* push, take_batch and requeue_front.                                     *)

(* push drops as many of the oldest as it takes, or all.                   *)
LEMMA PushCut ==
    ASSUME NEW s \in Seq(Entry), NEW e \in Entry
    PROVE  /\ PushDrops(s, e) \in 0..Len(s)
           /\ PushDrops(s, e) = Len(s) \/ Fits(DropFirst(s, PushDrops(s, e)), e.size)
<1> DEFINE Q == {n \in 0..Len(s) : n = Len(s) \/ Fits(DropFirst(s, n), e.size)}
<1>1. Len(s) \in Nat
  OBVIOUS
<1>2. Len(s) \in Q /\ Q \in SUBSET Nat
  BY <1>1
<1>3. PICK n \in Q : \A k \in Q : n <= k
  <2> HIDE DEF Q
  <2> QED
    BY <1>2, SmallestNat
<1>4. /\ n \in 0..Len(s)
      /\ n = Len(s) \/ Fits(DropFirst(s, n), e.size)
  BY <1>3
<1>5. \A m \in 0..(n - 1) : ~Fits(DropFirst(s, m), e.size)
  <2> SUFFICES ASSUME NEW m \in 0..(n - 1), Fits(DropFirst(s, m), e.size) PROVE FALSE
    OBVIOUS
  <2>1. m \in 0..Len(s) /\ ~(n <= m)
    BY <1>1, <1>4
  <2>2. m \in Q
    BY <2>1
  <2> QED
    BY <1>3, <2>1, <2>2
<1> HIDE DEF Q
<1> QED
  BY <1>4, <1>5, Zenon DEF PushDrops

(* take_batch takes at least one line, and no more than the caps allow.    *)
LEMMA BatchCut ==
    ASSUME RelayAssumption, NEW s \in Seq(Entry), s # <<>>
    PROVE  /\ BatchLen(s) \in 1..Len(s) /\ BatchLen(s) <= RelayBatch
           /\ BatchLen(s) > 1 => Bytes(SubSeq(s, 1, BatchLen(s))) <= BatchMaxBytes
<1> DEFINE K == Min2(Len(s), RelayBatch)
           Light(n) == n <= 1 \/ Bytes(SubSeq(s, 1, n)) <= BatchMaxBytes
           Q == {m \in 0..K : Light(K - m)}
<1>1. Len(s) \in Nat \ {0} /\ RelayBatch \in Nat \ {0}
  BY DEF RelayAssumption
<1>2. K \in 1..Len(s) /\ K <= RelayBatch
  BY <1>1 DEF Min2
<1> HIDE DEF K
<1>3. BatchMaxBytes \in Nat /\ \A n \in 0..K : Bytes(SubSeq(s, 1, n)) \in Nat
  <2>1. \A n \in 0..K : n \in 0..Len(s)
    BY <1>1, <1>2
  <2>2. \A n \in 0..Len(s) : SubSeq(s, 1, n) \in Seq(Entry)
    BY Prefix
  <2> QED
    BY <2>1, <2>2, SumsFacts DEF RelayAssumption
<1>4. K - 1 \in Q /\ Q \in SUBSET Nat
  BY <1>1, <1>2
<1>5. PICK m \in Q : \A k \in Q : m <= k
  <2> HIDE DEF Q
  <2> QED
    BY <1>4, SmallestNat
<1> DEFINE n == K - m
<1>6. n \in 0..K /\ Light(n)
  BY <1>2, <1>5
<1>7. ASSUME NEW k \in (n + 1)..K PROVE k > 1 /\ Bytes(SubSeq(s, 1, k)) > BatchMaxBytes
  <2>1. K - k \in 0..K /\ ~(m <= K - k) /\ k \in 0..K /\ K - (K - k) = k
    BY <1>2, <1>6
  <2>2. K - k \notin Q
    BY <1>5, <2>1
  <2>3. ~Light(k)
    BY <2>1, <2>2
  <2> QED
    BY <1>3, <2>1, <2>3
<1>8. \E x \in 0..K :
        /\ x <= 1 \/ Bytes(SubSeq(s, 1, x)) <= BatchMaxBytes
        /\ \A k \in (x + 1)..K : k > 1 /\ Bytes(SubSeq(s, 1, k)) > BatchMaxBytes
  <2> HIDE DEF n
  <2> QED
    BY <1>6, <1>7
<1>9. /\ BatchLen(s) \in 0..K
      /\ BatchLen(s) <= 1 \/ Bytes(SubSeq(s, 1, BatchLen(s))) <= BatchMaxBytes
      /\ \A k \in (BatchLen(s) + 1)..K : k > 1 /\ Bytes(SubSeq(s, 1, k)) > BatchMaxBytes
  BY <1>8, Zenon DEF BatchLen, K
<1>10. BatchLen(s) # 0
  <2> SUFFICES ASSUME BatchLen(s) = 0 PROVE FALSE
    OBVIOUS
  <2>1. 1 \in (BatchLen(s) + 1)..K
    BY <1>2
  <2> QED
    BY <1>9, <2>1
<1> QED
  BY <1>1, <1>2, <1>9, <1>10

(* The caps of the buffer.                                                 *)
Capped(s) == Len(s) <= MaxEntries /\ (Bytes(s) <= MaxBytes \/ Len(s) = 1)

(* requeue_front keeps what was buffered, adds only lines of the batch, in *)
(* front and in their order, and respects the caps.                        *)
LEMMA RefilledFacts ==
    ASSUME RelayAssumption, NEW b \in Seq(Entry), NEW s \in Seq(Entry),
           Ascending(b), Ascending(s), Before(Ids(b), Ids(s)), Capped(s)
    PROVE  /\ RequeueFront(b, s) \in Seq(Entry)
           /\ Ids(s) \subseteq Ids(RequeueFront(b, s))
           /\ Ids(RequeueFront(b, s)) \subseteq Ids(b) \cup Ids(s)
           /\ Ascending(RequeueFront(b, s))
           /\ Capped(RequeueFront(b, s))
<1> DEFINE N == Len(b)
           V == Seq(Entry)
           Step(n, rest) ==
               IF Fits(rest, b[N - n + 1].size) THEN <<b[N - n + 1]>> \o rest ELSE rest
           Fn == [n \in 1..N |-> [rest \in V |-> Step(n, rest)]]
           R == Refilled(b, s)
<1>1. N \in Nat
  OBVIOUS
<1>2. \A n \in 1..N : N - n + 1 \in 1..N /\ b[N - n + 1] \in Entry
  OBVIOUS
<1>3. \A n \in 1..N, rest \in V : Step(n, rest) \in V
  BY <1>2, AtFront
<1>4. Fn \in [1..N -> [V -> V]]
  <2> HIDE DEF N, V, Step
  <2> QED
    BY <1>3
<1>5. Iterates(N, V, s, Fn)
  <2> HIDE DEF Fn, N
  <2> QED
    BY <1>1, <1>4, Iteration
<1>6. PICK f \in [0..N -> V] : f[0] = s /\ \A n \in 1..N : f[n] = Fn[n][f[n - 1]]
  <2> HIDE DEF Fn, N, V
  <2> QED
    BY <1>5 DEF Iterates
<1>7. f = [n \in 0..N |-> IF n = 0 THEN s ELSE Step(n, f[n - 1])]
  <2> HIDE DEF N, V, Step
  <2>1. ASSUME NEW n \in 0..N PROVE f[n] = IF n = 0 THEN s ELSE Step(n, f[n - 1])
    <3>1. CASE n = 0
      BY <3>1, <1>6
    <3>2. CASE n # 0
      <4>1. n \in 1..N /\ n - 1 \in 0..N
        BY <1>1, <3>2
      <4>2. f[n - 1] \in V /\ f[n] = Fn[n][f[n - 1]]
        BY <4>1, <1>6
      <4> QED
        BY <4>1, <4>2, <3>2
    <3> QED
      BY <3>1, <3>2
  <2> QED
    BY <2>1
<1>8. R = [n \in 0..N |-> IF n = 0 THEN s ELSE Step(n, R[n - 1])]
  BY <1>7, Zenon DEF Refilled
<1>9. \A n \in 0..N : R[n] = IF n = 0 THEN s ELSE Step(n, R[n - 1])
  <2> HIDE DEF R, Step, N
  <2> QED
    BY <1>8
<1>10. R[0] = s /\ \A n \in 1..N : R[n] = Step(n, R[n - 1])
  <2> HIDE DEF R, Step, N
  <2> QED
    BY <1>1, <1>9
<1> HIDE DEF R, Fn
<1> DEFINE Fine(n) ==
        /\ R[n] \in Seq(Entry)
        /\ Ids(s) \subseteq Ids(R[n])
        /\ \A x \in Ids(R[n]) : x \in Ids(s) \/ \E i \in (N - n + 1)..N : x = b[i].id
        /\ Ascending(R[n])
        /\ Capped(R[n])
<1>11. Fine(0)
  BY <1>10
<1>12. ASSUME NEW n \in 1..N, Fine(n - 1) PROVE Fine(n)
  <2> DEFINE e == b[N - n + 1]
             r == R[n - 1]
  <2>1. r \in Seq(Entry) /\ Ids(s) \subseteq Ids(r) /\ Ascending(r) /\ Capped(r)
        /\ \A x \in Ids(r) : x \in Ids(s) \/ \E i \in (N - (n - 1) + 1)..N : x = b[i].id
    BY <1>12
  <2>2. e \in Entry /\ N - n + 1 \in 1..N
    BY <1>2
  <2>3. R[n] = IF Fits(r, e.size) THEN <<e>> \o r ELSE r
    BY <1>10
  <2> HIDE DEF e, r
  <2>4. ASSUME NEW x \in Ids(r)
        PROVE  x \in Ids(s) \/ \E i \in (N - n + 1)..N : x = b[i].id
    <3>1. CASE x \in Ids(s)
      BY <3>1
    <3>2. CASE \E i \in (N - (n - 1) + 1)..N : x = b[i].id
      <4>1. PICK i \in (N - (n - 1) + 1)..N : x = b[i].id
        BY <3>2
      <4>2. i \in (N - n + 1)..N
        BY <1>1
      <4> QED
        BY <4>1, <4>2
    <3> QED
      BY <2>1, <3>1, <3>2
  <2>5. CASE ~Fits(r, e.size)
    BY <2>1, <2>3, <2>4, <2>5
  <2>6. CASE Fits(r, e.size)
    <3>1. Before({e.id}, Ids(r))
      <4> SUFFICES ASSUME NEW x \in Ids(r) PROVE e.id < x
        BY DEF Before
      <4>1. CASE x \in Ids(s)
        <5>1. e.id \in Ids(b)
          BY <2>2, IdsOf DEF e
        <5> QED
          BY <4>1, <5>1 DEF Before
      <4>2. CASE \E i \in (N - (n - 1) + 1)..N : x = b[i].id
        <5>1. PICK i \in (N - (n - 1) + 1)..N : x = b[i].id
          BY <4>2
        <5>2. i \in 1..N /\ N - n + 1 < i
          BY <1>1
        <5> QED
          BY <2>2, <5>1, <5>2 DEF Ascending, e
      <4> QED
        BY <2>1, <4>1, <4>2
    <3>2. Ids(R[n]) = Ids(r) \cup {e.id} /\ Ascending(R[n])
      BY <2>1, <2>2, <2>3, <2>6, <3>1, FrontIds
    <3>3. R[n] \in Seq(Entry) /\ Len(R[n]) = Len(r) + 1 /\ Bytes(R[n]) = Bytes(r) + e.size
      BY <2>1, <2>2, <2>3, <2>6, AtFront
    <3>4. Capped(R[n])
      <4>1. Len(r) < MaxEntries /\ Bytes(r) + e.size <= MaxBytes
        BY <2>6 DEF Fits
      <4>2. Len(r) \in Nat /\ MaxEntries \in Nat
        BY <2>1 DEF RelayAssumption
      <4> QED
        BY <3>3, <4>1, <4>2 DEF Capped
    <3>5. e.id = b[N - n + 1].id /\ N - n + 1 \in (N - n + 1)..N
      BY <2>2 DEF e
    <3>6. \A x \in Ids(R[n]) : x \in Ids(s) \/ \E i \in (N - n + 1)..N : x = b[i].id
      BY <2>4, <3>2, <3>5
    <3> QED
      BY <2>1, <3>2, <3>3, <3>4, <3>6
  <2> QED
    BY <2>5, <2>6
<1> DEFINE Bad == {n \in 0..N : ~Fine(n)}
<1>13. Bad = {}
  <2> SUFFICES ASSUME Bad # {} PROVE FALSE
    OBVIOUS
  <2> HIDE DEF Fine, N
  <2>1. Bad \in SUBSET Nat
    BY <1>1
  <2>2. PICK m \in Bad : \A k \in Bad : m <= k
    BY <2>1, SmallestNat
  <2>3. m \in 1..N /\ ~Fine(m)
    BY <1>1, <1>11
  <2>4. Fine(m - 1)
    BY <1>1, <2>2, <2>3
  <2> QED
    BY <1>12, <2>3, <2>4
<1>14. Fine(N)
  <2> HIDE DEF Fine, N
  <2>1. N \in 0..N
    BY <1>1
  <2> QED
    BY <1>13, <2>1, Zenon
<1>15. R[N] = RequeueFront(b, s)
  BY DEF R, RequeueFront
<1>16. ASSUME NEW x \in Ids(R[N]) PROVE x \in Ids(b) \cup Ids(s)
  <2>1. x \in Ids(s) \/ \E i \in (N - N + 1)..N : x = b[i].id
    BY <1>14
  <2>2. \A i \in (N - N + 1)..N : i \in 1..N
    BY <1>1
  <2> QED
    BY <2>1, <2>2, IdsOf
<1> QED
  BY <1>14, <1>15, <1>16

-----------------------------------------------------------------------------
(* The invariant.                                                          *)

(* What is under way and buffered was received and is not settled, in the  *)
(* order of its numbers.                                                   *)
Numbered ==
    /\ Ascending(batch) /\ Ascending(entries)
    /\ Before(Ids(batch), Ids(entries))
    /\ Ids(batch) \cup Ids(entries) \subseteq (1..received) \ settled

BufferInv ==
    /\ entries \in Seq(Entry) /\ batch \in Seq(Entry)
    /\ received \in 0..MaxMessages /\ stored \subseteq 1..received /\ settled \subseteq 1..received
    /\ bytes = Bytes(entries) /\ Capped(entries)
    /\ BatchWithinLimits
    /\ Numbered

CountInv ==
    /\ forwarded \in Nat /\ rejected \in Nat /\ dropped \in Nat
    /\ sendFailures \in Nat /\ uncounted \in Nat
    /\ strays \in 0..MaxStrays
    /\ Accounted

SwitchInv ==
    /\ failing \in BOOLEAN /\ forwarder \in BOOLEAN
    /\ backoff \in FlushInterval..RetryBackoffMax
    /\ current \in Ports \cup {NoRelay} /\ listening \in {NoRelay, current}
    /\ conns \in 0..MaxConnections /\ tails \in 0..MaxConnections
    /\ ConnectionsBounded

RelayInv == BufferInv /\ CountInv /\ SwitchInv

(* The empty buffer.                                                       *)
LEMMA NoIds ==
    ASSUME RelayAssumption
    PROVE  /\ Ids(<<>>) = {} /\ Ascending(<<>>) /\ Bytes(<<>>) = 0
           /\ <<>> \in Seq(Entry) /\ Len(<<>>) = 0
<1>1. <<>> \in Seq(Entry) /\ Len(<<>>) = 0
  OBVIOUS
<1>2. ToSet(<<>>) = {}
  BY <1>1 DEF ToSet
<1>3. Ids(<<>>) = {}
  BY <1>2 DEF Ids
<1>4. Ascending(<<>>)
  BY <1>1 DEF Ascending
<1>5. Bytes(<<>>) = 0
  <2>1. Sums(<<>>)[0] = 0
    BY <1>1, SumsFacts
  <2> QED
    BY <1>1, <2>1 DEF Bytes
<1> QED
  BY <1>1, <1>3, <1>4, <1>5

(* The relay starts with the invariant.                                    *)
LEMMA RelayBegin == RelayAssumption /\ RelayInit => RelayInv
<1> SUFFICES ASSUME RelayAssumption, RelayInit PROVE RelayInv
  OBVIOUS
<1>1. /\ entries = <<>> /\ batch = <<>> /\ bytes = 0 /\ received = 0
      /\ stored = {} /\ settled = {}
  BY DEF RelayInit
<1>2. /\ Bytes(<<>>) = 0 /\ Ids(<<>>) = {} /\ Ascending(<<>>)
      /\ <<>> \in Seq(Entry) /\ Len(<<>>) = 0
  BY NoIds
<1>3. MaxEntries \in Nat /\ MaxBytes \in Nat /\ RelayBatch \in Nat /\ MaxMessages \in Nat
  BY DEF RelayAssumption
<1>4. Numbered
  BY <1>1, <1>2 DEF Numbered, Before
<1>5. BufferInv
  BY <1>1, <1>2, <1>3, <1>4 DEF BufferInv, Capped, BatchWithinLimits
<1>6. CountInv
  BY <1>1, <1>2 DEF CountInv, Accounted, RelayInit, RelayAssumption
<1>7. SwitchInv
  <2>1. failing \in BOOLEAN /\ forwarder \in BOOLEAN
    BY Zenon DEF RelayInit
  <2>2. /\ backoff \in FlushInterval..RetryBackoffMax
        /\ conns \in 0..MaxConnections /\ tails \in 0..MaxConnections
        /\ conns + tails <= MaxConnections
    BY DEF RelayInit, RelayAssumption
  <2>3. current \in Ports \cup {NoRelay} /\ listening \in {NoRelay, current}
    BY DEF RelayInit
  <2> QED
    BY <2>1, <2>2, <2>3 DEF SwitchInv, ConnectionsBounded
<1> QED
  BY <1>5, <1>6, <1>7 DEF RelayInv

(* A received line pushes out the oldest, as many as it takes.             *)
LEMMA ReceiveFacts ==
    ASSUME RelayAssumption, BufferInv, NEW size \in Sizes, Receive(size)
    PROVE  LET n == PushDrops(entries, [id |-> received + 1, size |-> size])
               D == Ids(SubSeq(entries, 1, n))
           IN  /\ n \in 0..Len(entries)
               /\ entries' \in Seq(Entry) /\ Len(entries') = Len(entries) - n + 1
               /\ D \subseteq Ids(entries)
               /\ Ids(entries') = (Ids(entries) \ D) \cup {received + 1}
               /\ Ascending(entries') /\ Capped(entries') /\ bytes' = Bytes(entries')
               /\ received' = received + 1 /\ received' \in 1..MaxMessages
               /\ settled' = settled \cup D /\ uncounted' = uncounted + n
               /\ UNCHANGED <<batch, stored>>
<1> DEFINE e == [id |-> received + 1, size |-> size]
           n == PushDrops(entries, e)
           old == SubSeq(entries, 1, n)
           rest == DropFirst(entries, n)
           D == Ids(old)
<1>1. /\ received < MaxMessages /\ received' = received + 1
      /\ entries' = Append(rest, e)
      /\ bytes' = bytes + size - Bytes(old)
      /\ uncounted' = uncounted + n
      /\ settled' = settled \cup D
      /\ UNCHANGED <<batch, stored>>
  BY DEF Receive, Push, fwd
<1>2. received \in 0..MaxMessages /\ entries \in Seq(Entry) /\ MaxMessages \in Nat
      /\ bytes = Bytes(entries) /\ Capped(entries) /\ Len(entries) \in Nat
  BY DEF BufferInv, RelayAssumption
<1>3. received + 1 \in 1..MaxMessages
  BY <1>1, <1>2
<1>4. e \in Entry /\ e.size = size /\ e.id = received + 1 /\ size \in Nat
  BY <1>3 DEF Entry, RelayAssumption
<1> HIDE DEF e
<1>5. n \in 0..Len(entries) /\ (n = Len(entries) \/ Fits(rest, size))
  BY <1>2, <1>4, PushCut
<1> HIDE DEF n
<1>6. old \in Seq(Entry) /\ Bytes(old) = Sums(entries)[n]
  BY <1>2, <1>5, Prefix
<1>7. /\ rest \in Seq(Entry) /\ Len(rest) = Len(entries) - n
      /\ Bytes(rest) = Bytes(entries) - Sums(entries)[n]
      /\ Sums(entries)[n] \in Nat
  BY <1>2, <1>5, Suffix
<1>8. /\ D \cup Ids(rest) = Ids(entries) /\ D \cap Ids(rest) = {} /\ Ascending(rest)
  BY <1>2, <1>5, CutIds DEF BufferInv, Numbered
<1> HIDE DEF old, rest
<1>9. Before(Ids(rest), {received + 1})
  <2> SUFFICES ASSUME NEW x \in Ids(rest) PROVE x < received + 1
    BY DEF Before
  <2>1. x \in 1..received
    BY <1>8 DEF BufferInv, Numbered
  <2> QED
    BY <1>2, <2>1
<1>10. Ids(entries') = Ids(rest) \cup {received + 1} /\ Ascending(entries')
  BY <1>1, <1>4, <1>7, <1>8, <1>9, EndIds
<1>11. /\ entries' \in Seq(Entry) /\ Len(entries') = Len(rest) + 1
       /\ Bytes(entries') = Bytes(rest) + size
  BY <1>1, <1>4, <1>7, AtEnd
<1>12. Bytes(entries) \in Nat /\ Bytes(rest) \in Nat
  BY <1>2, <1>7, SumsFacts
<1>13. bytes' = Bytes(entries')
  BY <1>1, <1>2, <1>4, <1>6, <1>7, <1>11, <1>12
<1>14. Capped(entries')
  <2>1. MaxEntries \in Nat \ {0}
    BY DEF RelayAssumption
  <2>2. CASE n = Len(entries)
    <3>1. Len(entries') = 1
      BY <1>2, <1>7, <1>11, <2>2
    <3> QED
      BY <2>1, <3>1 DEF Capped
  <2>3. CASE Fits(rest, size)
    <3>1. Len(rest) < MaxEntries /\ Bytes(rest) + size <= MaxBytes
      BY <2>3 DEF Fits
    <3>2. Len(rest) \in Nat
      BY <1>7
    <3> QED
      BY <1>11, <2>1, <3>1, <3>2 DEF Capped
  <2> QED
    BY <1>5, <2>2, <2>3
<1>15. Ids(entries') = (Ids(entries) \ D) \cup {received + 1} /\ D \subseteq Ids(entries)
  BY <1>8, <1>10
<1>16. Len(entries') = Len(entries) - n + 1
  BY <1>7, <1>11
<1> QED
  BY <1>1, <1>3, <1>5, <1>10, <1>11, <1>13, <1>14, <1>15, <1>16 DEF e, n, old

(* A batch is taken from the front.                                        *)
LEMMA TakeFacts ==
    ASSUME RelayAssumption, BufferInv, TakeBatch
    PROVE  /\ entries' \in Seq(Entry) /\ batch' \in Seq(Entry) /\ batch = <<>>
           /\ Len(batch') + Len(entries') = Len(entries)
           /\ Ids(batch') \cup Ids(entries') = Ids(entries)
           /\ Before(Ids(batch'), Ids(entries'))
           /\ Ascending(batch') /\ Ascending(entries')
           /\ Capped(entries') /\ bytes' = Bytes(entries')
           /\ Len(batch') <= RelayBatch /\ (Len(batch') > 1 => Bytes(batch') <= BatchMaxBytes)
           /\ UNCHANGED <<counters, aux>>
<1> DEFINE n == BatchLen(entries)
<1>1. /\ batch = <<>> /\ entries # <<>>
      /\ batch' = SubSeq(entries, 1, n)
      /\ entries' = DropFirst(entries, n)
      /\ bytes' = bytes - Bytes(SubSeq(entries, 1, n))
      /\ UNCHANGED <<counters, aux>>
  BY DEF TakeBatch
<1>2. /\ entries \in Seq(Entry) /\ bytes = Bytes(entries) /\ Capped(entries) /\ Ascending(entries)
      /\ Len(entries) \in Nat
  BY DEF BufferInv, Numbered
<1>3. /\ n \in 1..Len(entries) /\ n <= RelayBatch
      /\ n > 1 => Bytes(SubSeq(entries, 1, n)) <= BatchMaxBytes
  BY <1>1, <1>2, BatchCut
<1> HIDE DEF n
<1>4. n \in 0..Len(entries)
  BY <1>2, <1>3
<1>5. batch' \in Seq(Entry) /\ Len(batch') = n /\ Bytes(batch') = Sums(entries)[n]
  BY <1>1, <1>2, <1>4, Prefix
<1>6. /\ entries' \in Seq(Entry) /\ Len(entries') = Len(entries) - n
      /\ Bytes(entries') = Bytes(entries) - Sums(entries)[n]
      /\ Sums(entries)[n] \in Nat
  BY <1>1, <1>2, <1>4, Suffix
<1>7. /\ Ids(batch') \cup Ids(entries') = Ids(entries)
      /\ Before(Ids(batch'), Ids(entries'))
      /\ Ascending(batch') /\ Ascending(entries')
  BY <1>1, <1>2, <1>4, CutIds
<1>8. Bytes(entries) \in Nat
  BY <1>2, SumsFacts
<1>9. bytes' = Bytes(entries')
  BY <1>1, <1>2, <1>5, <1>6
<1>10. Capped(entries')
  <2>1. MaxEntries \in Nat /\ MaxBytes \in Nat
    BY DEF RelayAssumption
  <2>2. Len(entries') <= MaxEntries
    BY <1>2, <1>3, <1>6, <2>1 DEF Capped
  <2>3. CASE Len(entries) = 1
    <3>1. entries' = <<>>
      BY <1>3, <1>6, <2>3
    <3> QED
      BY <2>1, <2>2, <3>1, NoIds DEF Capped
  <2>4. CASE Bytes(entries) <= MaxBytes
    BY <1>6, <1>8, <2>1, <2>2, <2>4 DEF Capped
  <2> QED
    BY <1>2, <2>3, <2>4 DEF Capped
<1>11. Len(batch') + Len(entries') = Len(entries)
  BY <1>2, <1>3, <1>5, <1>6
<1> QED
  BY <1>1, <1>3, <1>5, <1>6, <1>7, <1>9, <1>10, <1>11

(* What leaves and what the batch consists of can be counted.              *)
LEMMA BatchCount ==
    ASSUME RelayAssumption, BufferInv, NEW W \in SUBSET Ids(batch)
    PROVE  Cardinality(W) \in Nat /\ Cardinality(W) <= Len(batch)
<1>1. IsFiniteSet(Ids(batch)) /\ Cardinality(Ids(batch)) = Len(batch)
  BY IdsCount DEF BufferInv, Numbered
<1> QED
  BY <1>1, FS_Subset, FS_CardinalityType

(* A failed batch goes back in front, what does not fit is lost.           *)
LEMMA BackFacts ==
    ASSUME RelayAssumption, BufferInv, SendFails
    PROVE  LET lost == Ids(batch) \ Ids(entries')
           IN  /\ entries' \in Seq(Entry) /\ batch' = <<>>
               /\ Ids(entries') = (Ids(batch) \cup Ids(entries)) \ lost
               /\ Ascending(entries') /\ Capped(entries') /\ bytes' = Bytes(entries')
               /\ Cardinality(lost) \in Nat
               /\ Len(entries') + Cardinality(lost) = Len(batch) + Len(entries)
               /\ dropped' = dropped + Cardinality(lost) /\ settled' = settled \cup lost
               /\ stored' = stored \/ stored' = stored \cup Ids(batch)
               /\ UNCHANGED <<received, forwarded, rejected, uncounted, strays>>
<1> DEFINE lost == Ids(batch) \ Ids(entries')
           A == Ids(batch) \cup Ids(entries)
           B == Ids(entries')
<1>1. /\ entries' = RequeueFront(batch, entries) /\ bytes' = Bytes(entries') /\ batch' = <<>>
      /\ dropped' = dropped + Cardinality(lost) /\ settled' = settled \cup lost
      /\ stored' = stored \/ stored' = stored \cup Ids(batch)
      /\ UNCHANGED <<received, forwarded, rejected, uncounted, strays>>
  BY DEF SendFails
<1>2. /\ batch \in Seq(Entry) /\ entries \in Seq(Entry)
      /\ Ascending(batch) /\ Ascending(entries) /\ Before(Ids(batch), Ids(entries))
      /\ Capped(entries)
  BY DEF BufferInv, Numbered
<1>3. /\ entries' \in Seq(Entry)
      /\ Ids(entries) \subseteq B /\ B \subseteq A
      /\ Ascending(entries') /\ Capped(entries')
  BY <1>1, <1>2, RefilledFacts
<1>4. B = A \ lost /\ lost = A \ B
  BY <1>3
<1>5. /\ IsFiniteSet(Ids(batch)) /\ Cardinality(Ids(batch)) = Len(batch)
      /\ IsFiniteSet(Ids(entries)) /\ Cardinality(Ids(entries)) = Len(entries)
      /\ IsFiniteSet(B) /\ Cardinality(B) = Len(entries')
  BY <1>2, <1>3, IdsCount
<1>6. Ids(batch) \cap Ids(entries) = {}
  <2> SUFFICES ASSUME NEW x \in Ids(batch), x \in Ids(entries) PROVE FALSE
    OBVIOUS
  <2>1. x < x
    BY <1>2 DEF Before
  <2>2. x \in 1..MaxMessages
    BY <1>2, IdsOf
  <2> QED
    BY <2>1, <2>2 DEF RelayAssumption
<1>7. IsFiniteSet(A) /\ Cardinality(A) = Len(batch) + Len(entries)
  <2>1. /\ IsFiniteSet(A)
        /\ Cardinality(A) = Len(batch) + Len(entries) - Cardinality(Ids(batch) \cap Ids(entries))
    BY <1>5, FS_Union
  <2>2. Cardinality(Ids(batch) \cap Ids(entries)) = 0
    BY <1>6, FS_EmptySet
  <2>3. Len(batch) \in Nat /\ Len(entries) \in Nat
    BY <1>2
  <2> QED
    BY <2>1, <2>2, <2>3
<1>8. IsFiniteSet(lost) /\ Cardinality(lost) \in Nat
  BY <1>5, FS_Subset, FS_CardinalityType
<1>9. Cardinality(A) = Cardinality(B) + Cardinality(lost)
  <2>1. B \cup lost = A /\ B \cap lost = {}
    BY <1>3, <1>4
  <2> HIDE DEF A, B, lost
  <2>2. Cardinality(A) = Cardinality(B) + Cardinality(lost) - Cardinality(B \cap lost)
    BY <1>5, <1>8, <2>1, FS_Union
  <2>3. Cardinality(B \cap lost) = 0
    BY <2>1, FS_EmptySet
  <2>4. Cardinality(B) \in Nat
    BY <1>5, FS_CardinalityType
  <2> QED
    BY <1>8, <2>2, <2>3, <2>4
<1> QED
  BY <1>1, <1>3, <1>4, <1>5, <1>7, <1>8, <1>9

-----------------------------------------------------------------------------
(* Every step keeps the invariant.                                         *)

(* The batch was answered: it leaves, W of it stored, the rest settled.    *)
LEMMA SettledBuffer ==
    ASSUME RelayAssumption, BufferInv, Settle, NEW W \in SUBSET Ids(batch),
           stored' = stored \cup W, settled' = settled \cup (Ids(batch) \ W)
    PROVE  BufferInv'
<1>1. batch' = <<>> /\ UNCHANGED <<entries, bytes, received>>
  BY DEF Settle, buffer
<1>2. Ids(batch) \cap Ids(entries) = {} /\ Ids(batch) \subseteq 1..received
  <2>1. \A x \in Ids(batch) : x \in Nat /\ x \in 1..received
    BY DEF BufferInv, Numbered
  <2>2. \A x \in Ids(batch), y \in Ids(entries) : x < y
    BY DEF BufferInv, Numbered, Before
  <2>3. \A x \in Ids(batch) : x \notin Ids(entries)
    BY <2>1, <2>2
  <2> QED
    BY <2>1, <2>3
<1>3. Ids(<<>>) = {} /\ Ascending(<<>>) /\ <<>> \in Seq(Entry) /\ Len(<<>>) = 0
  BY NoIds
<1>4. (Ids(entries))' = Ids(entries) /\ (Ids(batch))' = {} /\ (Ascending(entries))' = Ascending(entries)
      /\ (Ascending(batch))' /\ (Capped(entries))' = Capped(entries)
      /\ (Bytes(entries))' = Bytes(entries)
  BY <1>1, <1>3 DEF Ids, Ascending, Capped, Bytes, Sums
<1>5. Numbered'
  BY <1>1, <1>2, <1>4 DEF BufferInv, Numbered, Before
<1>6. BatchWithinLimits'
  BY <1>1, <1>3 DEF BatchWithinLimits, RelayAssumption
<1> QED
  BY <1>1, <1>2, <1>3, <1>4, <1>5, <1>6 DEF BufferInv

(* A step that moves no line.                                              *)
LEMMA SameBuffer ==
    ASSUME BufferInv, UNCHANGED <<entries, bytes, batch, received, stored, settled>>
    PROVE  BufferInv'
BY DEF BufferInv, Numbered, Ascending, Before, Capped, Bytes, Sums, Ids, BatchWithinLimits

(* Lines are moved, never copied or lost without being settled.            *)
LEMMA BufferStep == RelayAssumption /\ BufferInv /\ [RelayNext]_relayVars => BufferInv'
<1> SUFFICES ASSUME RelayAssumption, BufferInv, [RelayNext]_relayVars PROVE BufferInv'
  OBVIOUS
<1>1. CASE \E size \in Sizes : Receive(size)
  <2>1. PICK size \in Sizes : Receive(size)
    BY <1>1
  <2> DEFINE n == PushDrops(entries, [id |-> received + 1, size |-> size])
             D == Ids(SubSeq(entries, 1, n))
  <2>2. /\ entries' \in Seq(Entry) /\ D \subseteq Ids(entries)
        /\ Ids(entries') = (Ids(entries) \ D) \cup {received + 1}
        /\ Ascending(entries') /\ Capped(entries') /\ bytes' = Bytes(entries')
        /\ received' = received + 1 /\ received' \in 1..MaxMessages
        /\ settled' = settled \cup D
        /\ UNCHANGED <<batch, stored>>
    BY <2>1, ReceiveFacts
  <2> HIDE DEF D
  <2>3. received \in Nat /\ received' \in 0..MaxMessages
    BY <2>2 DEF BufferInv, RelayAssumption
  <2>4. 1..received \subseteq 1..received' /\ received + 1 \in 1..received' /\ received + 1 \notin 1..received
    BY <2>2, <2>3
  <2>5. stored' \subseteq 1..received' /\ settled' \subseteq 1..received'
    BY <2>2, <2>4 DEF BufferInv, Numbered
  <2>6. \A x \in Ids(batch) : x \in 1..received /\ x \notin settled /\ x < received + 1
    BY <2>3 DEF BufferInv, Numbered
  <2>7. \A x \in Ids(batch), y \in Ids(entries) : x < y
    BY DEF BufferInv, Numbered, Before
  <2>8. \A x \in Ids(batch) : x \notin D
    <3>1. \A x \in Ids(batch) : x \notin Ids(entries)
      BY <2>3, <2>6, <2>7
    <3> QED
      BY <2>2, <3>1
  <2>9. Before(Ids(batch), Ids(entries'))
    BY <2>2, <2>6, <2>7 DEF Before
  <2>10. Ids(batch) \cup Ids(entries') \subseteq (1..received') \ settled'
    <3>1. \A x \in Ids(batch) : x \in 1..received' /\ x \notin settled'
      BY <2>2, <2>4, <2>6, <2>8
    <3>2. received + 1 \notin settled'
      BY <2>2, <2>4 DEF BufferInv, Numbered
    <3>3. \A x \in Ids(entries) \ D : x \in 1..received' /\ x \notin settled'
      BY <2>2, <2>4 DEF BufferInv, Numbered
    <3> QED
      BY <2>2, <2>4, <3>1, <3>2, <3>3
  <2>11. Numbered'
    <3>1. batch' = batch
      BY <2>2
    <3>2. Ascending(batch)
      BY DEF BufferInv, Numbered
    <3> QED
      BY <2>2, <2>9, <2>10, <3>1, <3>2 DEF Numbered
  <2>12. BatchWithinLimits' /\ batch' \in Seq(Entry)
    BY <2>2 DEF BufferInv, BatchWithinLimits
  <2> QED
    BY <2>2, <2>3, <2>5, <2>11, <2>12 DEF BufferInv
<1>2. CASE TakeBatch
  <2>1. /\ entries' \in Seq(Entry) /\ batch' \in Seq(Entry) /\ batch = <<>>
        /\ Ids(batch') \cup Ids(entries') = Ids(entries)
        /\ Before(Ids(batch'), Ids(entries'))
        /\ Ascending(batch') /\ Ascending(entries')
        /\ Capped(entries') /\ bytes' = Bytes(entries')
        /\ Len(batch') <= RelayBatch /\ (Len(batch') > 1 => Bytes(batch') <= BatchMaxBytes)
        /\ UNCHANGED <<counters, aux>>
    BY <1>2, TakeFacts
  <2>2. UNCHANGED <<received, stored, settled>>
    BY <2>1 DEF counters, aux
  <2>3. Numbered'
    BY <2>1, <2>2 DEF BufferInv, Numbered
  <2>4. BatchWithinLimits'
    BY <2>1 DEF BatchWithinLimits
  <2> QED
    BY <2>1, <2>2, <2>3, <2>4 DEF BufferInv
<1>3. CASE Done
  <2>1. PICK W \in SUBSET Ids(batch) :
          stored' = stored \cup W /\ settled' = settled \cup (Ids(batch) \ W)
    BY <1>3 DEF Done
  <2>2. Settle
    BY <1>3 DEF Done
  <2> QED
    BY <2>1, <2>2, SettledBuffer
<1>4. CASE Refused
  <2>1. Settle /\ stored' = stored \cup {} /\ settled' = settled \cup (Ids(batch) \ {})
        /\ {} \in SUBSET Ids(batch)
    BY <1>4 DEF Refused
  <2> QED
    BY <2>1, SettledBuffer
<1>5. CASE SendFails
  <2> DEFINE lost == Ids(batch) \ Ids(entries')
  <2>1. /\ entries' \in Seq(Entry) /\ batch' = <<>>
        /\ Ids(entries') = (Ids(batch) \cup Ids(entries)) \ lost
        /\ Ascending(entries') /\ Capped(entries') /\ bytes' = Bytes(entries')
        /\ settled' = settled \cup lost
        /\ stored' = stored \/ stored' = stored \cup Ids(batch)
        /\ received' = received
    BY <1>5, BackFacts
  <2> HIDE DEF lost
  <2>2. Ids(<<>>) = {} /\ Ascending(<<>>) /\ <<>> \in Seq(Entry) /\ Len(<<>>) = 0
    BY NoIds
  <2>3. lost \subseteq Ids(batch) /\ Ids(batch) \subseteq 1..received
        /\ Ids(batch) \cup Ids(entries) \subseteq (1..received) \ settled
    BY DEF lost, BufferInv, Numbered
  <2>4. Ids(batch') = {} /\ Ascending(batch') /\ batch' \in Seq(Entry) /\ Len(batch') = 0
    BY <2>1, <2>2
  <2>5. Ids(batch') \cup Ids(entries') \subseteq (1..received') \ settled'
    BY <2>1, <2>3, <2>4
  <2>6. Numbered'
    BY <2>1, <2>4, <2>5 DEF Numbered, Before
  <2>7. BatchWithinLimits'
    BY <2>4 DEF BatchWithinLimits, RelayAssumption
  <2>8. stored' \subseteq 1..received' /\ settled' \subseteq 1..received'
    BY <2>1, <2>3 DEF BufferInv
  <2>9. received' \in 0..MaxMessages
    BY <2>1 DEF BufferInv
  <2> QED
    BY <2>1, <2>4, <2>6, <2>7, <2>8, <2>9 DEF BufferInv
<1>6. CASE CountDropped \/ DropStray \/ Connect \/ Disconnect
          \/ (\E cfg \in Ports \cup {NoRelay} : Apply(cfg)) \/ Waiting \/ UNCHANGED relayVars
  <2>1. UNCHANGED <<entries, bytes, batch, received, stored, settled>>
    BY <1>6 DEF CountDropped, DropStray, Connect, Disconnect, Apply, Waiting,
                relayVars, buffer, fwd, counters, aux
  <2> QED
    BY <2>1, SameBuffer
<1> QED
  BY <1>1, <1>2, <1>3, <1>4, <1>5, <1>6 DEF RelayNext

(* Every line that leaves is counted once.                                 *)
LEMMA CountStep ==
    RelayAssumption /\ BufferInv /\ CountInv /\ [RelayNext]_relayVars => CountInv'
<1> SUFFICES ASSUME RelayAssumption, BufferInv, CountInv, [RelayNext]_relayVars PROVE CountInv'
  OBVIOUS
<1>0. /\ forwarded \in Nat /\ rejected \in Nat /\ dropped \in Nat /\ sendFailures \in Nat
      /\ uncounted \in Nat /\ strays \in 0..MaxStrays /\ received \in Nat /\ MaxStrays \in Nat
      /\ Len(entries) \in Nat /\ Len(batch) \in Nat
      /\ received + strays =
            forwarded + rejected + dropped + uncounted + Len(entries) + Len(batch)
  BY DEF CountInv, Accounted, BufferInv, RelayAssumption
<1>1. CASE \E size \in Sizes : Receive(size)
  <2>1. PICK size \in Sizes : Receive(size)
    BY <1>1
  <2> DEFINE n == PushDrops(entries, [id |-> received + 1, size |-> size])
  <2>2. /\ n \in 0..Len(entries) /\ Len(entries') = Len(entries) - n + 1
        /\ received' = received + 1 /\ uncounted' = uncounted + n /\ batch' = batch
    BY <2>1, ReceiveFacts
  <2>3. UNCHANGED <<forwarded, rejected, dropped, sendFailures, strays>>
    BY <2>1 DEF Receive
  <2> HIDE DEF n
  <2> QED
    BY <1>0, <2>2, <2>3 DEF CountInv, Accounted
<1>2. CASE TakeBatch
  <2>1. /\ batch = <<>> /\ Len(batch') + Len(entries') = Len(entries)
        /\ entries' \in Seq(Entry) /\ batch' \in Seq(Entry)
        /\ UNCHANGED <<counters, aux>>
    BY <1>2, TakeFacts
  <2>2. Len(batch) = 0 /\ Len(batch') \in Nat /\ Len(entries') \in Nat
    BY <2>1
  <2>3. UNCHANGED <<received, forwarded, rejected, dropped, sendFailures, uncounted, strays>>
    BY <2>1 DEF counters
  <2> QED
    BY <1>0, <2>1, <2>2, <2>3 DEF CountInv, Accounted
<1>3. CASE Done
  <2>0. PICK W \in SUBSET Ids(batch) : \E accepted \in {Cardinality(W), Len(batch)} :
          forwarded' = forwarded + accepted /\ rejected' = rejected + (Len(batch) - accepted)
    BY <1>3 DEF Done
  <2>1. PICK accepted \in {Cardinality(W), Len(batch)} :
          forwarded' = forwarded + accepted /\ rejected' = rejected + (Len(batch) - accepted)
    BY <2>0
  <2>2. accepted \in Nat /\ accepted <= Len(batch)
    BY <1>0, <2>1, BatchCount
  <2>3. batch' = <<>> /\ UNCHANGED <<entries, received, dropped, sendFailures, uncounted, strays>>
    BY <1>3 DEF Done, Settle, buffer
  <2>4. Len(batch') = 0
    BY <2>3
  <2> QED
    BY <1>0, <2>1, <2>2, <2>3, <2>4 DEF CountInv, Accounted
<1>4. CASE Refused
  <2>1. /\ rejected' = rejected + Len(batch) /\ batch' = <<>>
        /\ UNCHANGED <<forwarded, entries, received, dropped, sendFailures, uncounted, strays>>
    BY <1>4 DEF Refused, Settle, buffer
  <2>2. Len(batch') = 0
    BY <2>1
  <2> QED
    BY <1>0, <2>1, <2>2 DEF CountInv, Accounted
<1>5. CASE SendFails
  <2> DEFINE lost == Ids(batch) \ Ids(entries')
  <2>1. /\ entries' \in Seq(Entry) /\ batch' = <<>>
        /\ Cardinality(lost) \in Nat
        /\ Len(entries') + Cardinality(lost) = Len(batch) + Len(entries)
        /\ dropped' = dropped + Cardinality(lost)
        /\ UNCHANGED <<received, forwarded, rejected, uncounted, strays>>
    BY <1>5, BackFacts
  <2>2. sendFailures' = sendFailures + 1 /\ Len(batch') = 0 /\ Len(entries') \in Nat
    BY <1>5, <2>1 DEF SendFails
  <2> DEFINE c == Cardinality(lost)
  <2>3. c \in Nat /\ Len(entries') + c = Len(batch) + Len(entries) /\ dropped' = dropped + c
    BY <2>1
  <2> HIDE DEF c, lost
  <2>4. dropped' \in Nat /\ sendFailures' \in Nat
    BY <1>0, <2>2, <2>3
  <2>5. received + strays =
          forwarded + rejected + dropped' + uncounted + Len(entries') + Len(batch')
    BY <1>0, <2>2, <2>3
  <2> QED
    BY <1>0, <2>1, <2>4, <2>5 DEF CountInv, Accounted
<1>6. CASE CountDropped
  <2>1. /\ dropped' = dropped + uncounted /\ uncounted' = 0
        /\ UNCHANGED <<received, forwarded, rejected, sendFailures, strays, entries, batch>>
    BY <1>6 DEF CountDropped, buffer, fwd
  <2> QED
    BY <1>0, <2>1 DEF CountInv, Accounted
<1>7. CASE DropStray
  <2>1. /\ strays < MaxStrays /\ strays' = strays + 1 /\ dropped' = dropped + 1
        /\ UNCHANGED <<received, forwarded, rejected, sendFailures, uncounted, entries, batch>>
    BY <1>7 DEF DropStray, buffer, fwd
  <2> QED
    BY <1>0, <2>1 DEF CountInv, Accounted
<1>8. CASE Connect
  <2>1. /\ \/ strays < MaxStrays /\ strays' = strays + 1 /\ dropped' = dropped + 1
           \/ UNCHANGED <<strays, dropped>>
        /\ UNCHANGED <<received, forwarded, rejected, sendFailures, uncounted, entries, batch>>
    BY <1>8 DEF Connect, buffer, fwd
  <2>2. CASE strays < MaxStrays /\ strays' = strays + 1 /\ dropped' = dropped + 1
    BY <1>0, <2>1, <2>2 DEF CountInv, Accounted
  <2>3. CASE UNCHANGED <<strays, dropped>>
    BY <1>0, <2>1, <2>3 DEF CountInv, Accounted
  <2> QED
    BY <2>1, <2>2, <2>3
<1>9. CASE Disconnect \/ (\E cfg \in Ports \cup {NoRelay} : Apply(cfg)) \/ Waiting
          \/ UNCHANGED relayVars
  <2>1. UNCHANGED <<received, forwarded, rejected, dropped, sendFailures, uncounted, strays,
                    entries, batch>>
    BY <1>9 DEF Disconnect, Apply, Waiting, relayVars, buffer, fwd, counters
  <2> QED
    BY <1>0, <2>1 DEF CountInv, Accounted
<1> QED
  BY <1>1, <1>2, <1>3, <1>4, <1>5, <1>6, <1>7, <1>8, <1>9 DEF RelayNext

(* Two shares of a limit.                                                  *)
LEMMA ShareOf ==
    ASSUME NEW a \in Nat, NEW b \in Nat, NEW m \in Nat, a + b <= m
    PROVE  a \in 0..m /\ b \in 0..m
OBVIOUS

(* Listeners, connections and backoff stay within their limits.            *)
LEMMA SwitchStep == RelayAssumption /\ SwitchInv /\ [RelayNext]_relayVars => SwitchInv'
<1> SUFFICES ASSUME RelayAssumption, SwitchInv, [RelayNext]_relayVars PROVE SwitchInv'
  OBVIOUS
<1>0. /\ failing \in BOOLEAN /\ forwarder \in BOOLEAN
      /\ backoff \in FlushInterval..RetryBackoffMax
      /\ current \in Ports \cup {NoRelay} /\ listening \in {NoRelay, current}
      /\ conns \in Nat /\ tails \in Nat /\ conns + tails <= MaxConnections
      /\ MaxConnections \in Nat /\ FlushInterval \in Nat /\ RetryBackoffMax \in Nat
      /\ FlushInterval <= RetryBackoffMax
  BY DEF SwitchInv, ConnectionsBounded, RelayAssumption
<1>1. CASE Connect
  <2>1. /\ conns' \in Nat /\ conns' + tails <= MaxConnections
        /\ UNCHANGED <<failing, backoff, current, listening, forwarder, tails>>
    BY <1>0, <1>1 DEF Connect, fwd
  <2>2. conns' \in 0..MaxConnections /\ tails' \in 0..MaxConnections /\ conns' + tails' <= MaxConnections
    <3>1. /\ conns' \in Nat /\ tails' \in Nat /\ MaxConnections \in Nat
          /\ conns' + tails' <= MaxConnections
      BY <1>0, <2>1
    <3> QED
      BY <3>1, ShareOf
  <2>3. failing' \in BOOLEAN /\ forwarder' \in BOOLEAN /\ backoff' \in FlushInterval..RetryBackoffMax
        /\ current' \in Ports \cup {NoRelay} /\ listening' \in {NoRelay, current'}
    BY <1>0, <2>1
  <2> QED
    BY <2>2, <2>3 DEF SwitchInv, ConnectionsBounded
<1>2. CASE Disconnect
  <2>1. /\ conns' \in Nat /\ tails' \in Nat /\ conns' + tails' <= MaxConnections
        /\ UNCHANGED <<failing, backoff, current, listening, forwarder>>
    BY <1>0, <1>2 DEF Disconnect, fwd
  <2>2. conns' \in 0..MaxConnections /\ tails' \in 0..MaxConnections
    <3>1. MaxConnections \in Nat
      BY <1>0
    <3> QED
      BY <2>1, <3>1, ShareOf
  <2>3. failing' \in BOOLEAN /\ forwarder' \in BOOLEAN /\ backoff' \in FlushInterval..RetryBackoffMax
        /\ current' \in Ports \cup {NoRelay} /\ listening' \in {NoRelay, current'}
    BY <1>0, <2>1
  <2> QED
    BY <2>1, <2>2, <2>3 DEF SwitchInv, ConnectionsBounded
<1>3. CASE \E cfg \in Ports \cup {NoRelay} : Apply(cfg)
  <2>1. PICK cfg \in Ports \cup {NoRelay} : Apply(cfg)
    BY <1>3
  <2>2. /\ current' = cfg /\ tails' = tails + conns /\ conns' = 0
        /\ UNCHANGED <<failing, backoff>>
    BY <2>1 DEF Apply, fwd
  <2>3. listening' \in {NoRelay, cfg}
    BY <2>1 DEF Apply
  <2>4. forwarder' = TRUE \/ forwarder' = forwarder
    BY <2>1 DEF Apply
  <2>5. forwarder' \in BOOLEAN /\ failing' \in BOOLEAN
    BY <1>0, <2>2, <2>4
  <2>6. /\ conns' \in 0..MaxConnections /\ tails' \in 0..MaxConnections
        /\ conns' + tails' <= MaxConnections
    BY <1>0, <2>2
  <2> QED
    BY <1>0, <2>2, <2>3, <2>5, <2>6 DEF SwitchInv, ConnectionsBounded
<1>4. CASE Done \/ Refused \/ SendFails
  <2>1. UNCHANGED <<current, listening, forwarder, conns, tails>>
    BY <1>4 DEF Done, Refused, SendFails, Settle, net
  <2>2. failing' \in BOOLEAN
    BY <1>4 DEF Done, Refused, SendFails, Settle
  <2>3. backoff' \in FlushInterval..RetryBackoffMax
    BY <1>0, <1>4 DEF Done, Refused, SendFails, Settle, NextBackoff, Min2
  <2> QED
    BY <1>0, <2>1, <2>2, <2>3 DEF SwitchInv, ConnectionsBounded
<1>5. CASE (\E size \in Sizes : Receive(size)) \/ CountDropped \/ DropStray \/ TakeBatch
          \/ Waiting \/ UNCHANGED relayVars
  <2>1. UNCHANGED <<failing, backoff, current, listening, forwarder, conns, tails>>
    BY <1>5 DEF Receive, CountDropped, DropStray, TakeBatch, Waiting, relayVars, fwd, net
  <2> QED
    BY <1>0, <2>1 DEF SwitchInv, ConnectionsBounded
<1> QED
  BY <1>1, <1>2, <1>3, <1>4, <1>5 DEF RelayNext

-----------------------------------------------------------------------------
(* The invariant is kept by every step.                                    *)
LEMMA RelayStep == RelayAssumption /\ RelayInv /\ [RelayNext]_relayVars => RelayInv'
BY BufferStep, CountStep, SwitchStep DEF RelayInv

(* The invariant is inductive; what the relay promises follows from it.    *)
LEMMA RelayInductive == ASSUME RelayAssumption PROVE RelaySpec => []RelayInv
BY RelayBegin, RelayStep, PTL DEF RelaySpec

(* The relay's records are well formed, with exact byte counts.            *)
THEOREM RelayTypeCorrect == ASSUME RelayAssumption PROVE RelaySpec => []RelayTypeOK
<1>1. RelayInv => RelayTypeOK
  <2> SUFFICES ASSUME RelayInv PROVE RelayTypeOK
    OBVIOUS
  <2>1. bytes \in Nat
    BY SumsFacts DEF RelayInv, BufferInv
  <2>2. {forwarded, rejected, dropped, sendFailures, uncounted} \subseteq Nat
    BY DEF RelayInv, CountInv
  <2> QED
    BY <2>1, <2>2 DEF RelayInv, BufferInv, CountInv, SwitchInv, RelayTypeOK
<1> QED
  BY <1>1, RelayInductive, PTL

(* In the states of the invariant the counters add up and the caps hold    *)
(* ...                                                                     *)
LEMMA RelaySound == RelayInv => BufferSound
BY DEF RelayInv, BufferInv, CountInv, SwitchInv, BufferSound, BufferBounded, Capped

(* ... and what the relay holds is in the order received.                  *)
LEMMA RelayOrdered == RelayInv => InOrder
<1> SUFFICES ASSUME RelayInv, NEW i \in 1..Len(batch \o entries), NEW j \in 1..Len(batch \o entries),
                    i < j
             PROVE  (batch \o entries)[i].id < (batch \o entries)[j].id
  BY DEF InOrder
<1> DEFINE line == batch \o entries
<1>1. batch \in Seq(Entry) /\ entries \in Seq(Entry)
      /\ Ascending(batch) /\ Ascending(entries) /\ Before(Ids(batch), Ids(entries))
  BY DEF RelayInv, BufferInv, Numbered
<1>2. Len(line) = Len(batch) + Len(entries) /\ Len(batch) \in Nat /\ Len(entries) \in Nat
  BY <1>1
<1>3. \A k \in 1..Len(line) :
        \/ k \in 1..Len(batch) /\ line[k] = batch[k]
        \/ k > Len(batch) /\ k - Len(batch) \in 1..Len(entries)
           /\ line[k] = entries[k - Len(batch)]
  BY <1>1, <1>2
<1> HIDE DEF line
<1>4. CASE j \in 1..Len(batch)
  <2>1. i \in 1..Len(batch) /\ line[i] = batch[i] /\ line[j] = batch[j]
    BY <1>2, <1>3, <1>4 DEF line
  <2> QED
    BY <1>1, <1>4, <2>1 DEF Ascending, line
<1>5. CASE i \in 1..Len(batch) /\ j > Len(batch)
  <2>1. /\ line[i] = batch[i] /\ j - Len(batch) \in 1..Len(entries)
        /\ line[j] = entries[j - Len(batch)]
    BY <1>2, <1>3, <1>5 DEF line
  <2>2. batch[i].id \in Ids(batch) /\ entries[j - Len(batch)].id \in Ids(entries)
    BY <1>1, <1>5, <2>1, IdsOf
  <2>3. batch[i].id < entries[j - Len(batch)].id
    BY <1>1, <2>2 DEF Before
  <2> QED
    BY <2>1, <2>3 DEF line
<1>6. CASE i > Len(batch)
  <2>1. /\ i - Len(batch) \in 1..Len(entries) /\ line[i] = entries[i - Len(batch)]
        /\ j - Len(batch) \in 1..Len(entries) /\ line[j] = entries[j - Len(batch)]
        /\ i - Len(batch) < j - Len(batch)
    BY <1>2, <1>3, <1>6 DEF line
  <2> QED
    BY <1>1, <2>1 DEF Ascending, line
<1> QED
  BY <1>2, <1>4, <1>5, <1>6 DEF line

(* The heartbeat's counters add up and every cap holds, whatever is sent,  *)
(* fails, is put back, overflows or is switched off.                       *)
THEOREM RelayBufferSound == ASSUME RelayAssumption PROVE RelaySpec => []BufferSound
BY RelaySound, RelayInductive, PTL

(* Lines leave the probe in the order they came, also after batches were   *)
(* put back.                                                               *)
THEOREM RelayInOrder == ASSUME RelayAssumption PROVE RelaySpec => []InOrder
BY RelayOrdered, RelayInductive, PTL

-----------------------------------------------------------------------------
(* The relay implements the delivery contract.                             *)

(* The relay starts where the contract does.                               *)
LEMMA ContractBegin == ASSUME RelayAssumption, RelayInit PROVE Contract!Init
<1>1. entries = <<>> /\ batch = <<>> /\ stored = {} /\ settled = {}
  BY DEF RelayInit
<1>2. Ids(<<>>) = {}
  BY NoIds
<1> QED
  BY <1>1, <1>2 DEF Contract!Init

(* What leaves is stored, or counted as discarded.                         *)
LEMMA HandedOver ==
    ASSUME NEW W \in SUBSET (Ids(entries) \cup Ids(batch)),
           NEW R \in SUBSET (Ids(entries) \cup Ids(batch)),
           (Ids(entries) \cup Ids(batch)) \cap settled = {},
           Ids(entries') \cup Ids(batch') = (Ids(entries) \cup Ids(batch)) \ R,
           stored' = stored \cup W, settled' \ stored' = (settled \cup R) \ stored'
    PROVE  Contract!Next
<1>1. settled' \ stored' = (settled \ stored) \cup (R \ stored')
  OBVIOUS
<1>2. Contract!HandOver(W, R)
  BY <1>1 DEF Contract!HandOver
<1> QED
  BY <1>2 DEF Contract!Next

(* Every step of the relay is a step of the contract, or changes nothing   *)
(* it speaks of.                                                           *)
LEMMA ContractStep ==
    ASSUME RelayAssumption, BufferInv, [RelayNext]_relayVars
    PROVE  [Contract!Next]_(Contract!dvars)
<1> DEFINE P == Ids(entries) \cup Ids(batch)
<1>0. P \cap settled = {} /\ P \subseteq 1..received
  BY DEF BufferInv, Numbered
<1>1. CASE \E size \in Sizes : Receive(size)
  <2>1. PICK size \in Sizes : Receive(size)
    BY <1>1
  <2> DEFINE n == PushDrops(entries, [id |-> received + 1, size |-> size])
             D == Ids(SubSeq(entries, 1, n))
  <2>2. /\ D \subseteq Ids(entries)
        /\ Ids(entries') = (Ids(entries) \ D) \cup {received + 1}
        /\ received + 1 \in 1..MaxMessages
        /\ settled' = settled \cup D
        /\ UNCHANGED <<batch, stored>>
    BY <2>1, ReceiveFacts
  <2> HIDE DEF D
  <2>3. /\ received \in Nat /\ received \in 0..MaxMessages /\ MaxMessages \in Nat
        /\ stored \subseteq 1..received /\ settled \subseteq 1..received
    BY DEF BufferInv, RelayAssumption
  <2>4. received + 1 \notin 1..received /\ 1..received \subseteq 1..MaxMessages
    BY <2>3
  <2>5. Ids(batch) \cap Ids(entries) = {}
    <3>1. \A x \in Ids(batch), y \in Ids(entries) : x < y
      BY DEF BufferInv, Numbered, Before
    <3>2. \A x \in Ids(batch) : x \in Nat
      BY <1>0
    <3>3. \A x \in Ids(batch) : x \notin Ids(entries)
      BY <3>1, <3>2
    <3> QED
      BY <3>3
  <2>6. Ids(entries') \cup Ids(batch') = (P \cup {received + 1}) \ D
    <3>1. received + 1 \notin D
      BY <1>0, <2>2, <2>4
    <3> QED
      BY <2>2, <2>5, <3>1
  <2>7. Contract!Accept({received + 1}, D)
    <3>1. {received + 1} \subseteq (1..MaxMessages) \ (P \cup stored \cup (settled \ stored))
      BY <1>0, <2>2, <2>3, <2>4
    <3>2. D \subseteq P \cup {received + 1}
      BY <2>2
    <3>3. settled' \ stored' = (settled \ stored) \cup (D \ stored) /\ stored' = stored
      BY <2>2
    <3> QED
      BY <2>6, <3>1, <3>2, <3>3 DEF Contract!Accept
  <2>8. {received + 1} \in SUBSET (1..MaxMessages) /\ D \in SUBSET (1..MaxMessages)
    BY <1>0, <2>2, <2>4
  <2> QED
    BY <2>7, <2>8 DEF Contract!Next
<1>2. CASE TakeBatch
  <2>1. /\ batch = <<>> /\ Ids(batch') \cup Ids(entries') = Ids(entries)
        /\ UNCHANGED <<stored, settled>>
    BY <1>2, TakeFacts DEF aux
  <2>2. Ids(batch) = {}
    BY <2>1, NoIds
  <2> QED
    BY <2>1, <2>2 DEF Contract!dvars
<1>3. CASE Done \/ Refused
  <2>1. PICK W \in SUBSET Ids(batch) :
          stored' = stored \cup W /\ settled' = settled \cup (Ids(batch) \ W)
    <3>1. CASE Done
      BY <3>1 DEF Done
    <3>2. CASE Refused
      <4>1. {} \in SUBSET Ids(batch) /\ stored' = stored \cup {}
            /\ settled' = settled \cup (Ids(batch) \ {})
        BY <3>2 DEF Refused
      <4> QED
        BY <4>1
    <3> QED
      BY <1>3, <3>1, <3>2
  <2>2. batch' = <<>> /\ entries' = entries
    BY <1>3 DEF Done, Refused, Settle, buffer
  <2>3. Ids(batch') = {}
    BY <2>2, NoIds
  <2>4. Ids(entries) \cap Ids(batch) = {}
    <3>1. \A x \in Ids(batch), y \in Ids(entries) : x < y
      BY DEF BufferInv, Numbered, Before
    <3>2. \A x \in Ids(batch) : x \in Nat
      BY <1>0
    <3>3. \A x \in Ids(batch) : x \notin Ids(entries)
      BY <3>1, <3>2
    <3> QED
      BY <3>3
  <2>5. Ids(entries') \cup Ids(batch') = (Ids(entries) \cup Ids(batch)) \ Ids(batch)
    BY <2>2, <2>3, <2>4
  <2>6. settled' \ stored' = (settled \cup Ids(batch)) \ stored'
    BY <2>1
  <2>7. W \in SUBSET (Ids(entries) \cup Ids(batch)) /\ Ids(batch) \in SUBSET (Ids(entries) \cup Ids(batch))
    OBVIOUS
  <2>8. (Ids(entries) \cup Ids(batch)) \cap settled = {}
    BY <1>0
  <2> QED
    BY <2>1, <2>5, <2>6, <2>7, <2>8, HandedOver
<1>4. CASE SendFails
  <2> DEFINE lost == Ids(batch) \ Ids(entries')
  <2>1. /\ batch' = <<>>
        /\ Ids(entries') = (Ids(batch) \cup Ids(entries)) \ lost
        /\ settled' = settled \cup lost
        /\ stored' = stored \/ stored' = stored \cup Ids(batch)
    BY <1>4, BackFacts
  <2>2. lost \in SUBSET (Ids(entries) \cup Ids(batch))
    OBVIOUS
  <2> HIDE DEF lost
  <2>3. PICK W \in SUBSET (Ids(entries) \cup Ids(batch)) : stored' = stored \cup W
    <3>1. {} \in SUBSET (Ids(entries) \cup Ids(batch)) /\ stored = stored \cup {}
          /\ Ids(batch) \in SUBSET (Ids(entries) \cup Ids(batch))
      OBVIOUS
    <3> QED
      BY <2>1, <3>1
  <2>4. Ids(batch') = {}
    BY <2>1, NoIds
  <2>5. Ids(entries') \cup Ids(batch') = (Ids(entries) \cup Ids(batch)) \ lost
    BY <2>1, <2>4
  <2>6. settled' \ stored' = (settled \cup lost) \ stored'
    BY <2>1
  <2>7. (Ids(entries) \cup Ids(batch)) \cap settled = {}
    BY <1>0
  <2> QED
    BY <2>2, <2>3, <2>5, <2>6, <2>7, HandedOver
<1>5. CASE CountDropped \/ DropStray \/ Connect \/ Disconnect
          \/ (\E cfg \in Ports \cup {NoRelay} : Apply(cfg)) \/ Waiting \/ UNCHANGED relayVars
  <2>1. UNCHANGED <<entries, batch, stored, settled>>
    BY <1>5 DEF CountDropped, DropStray, Connect, Disconnect, Apply, Waiting,
                relayVars, buffer, fwd, aux
  <2>2. Ids(entries') = Ids(entries) /\ Ids(batch') = Ids(batch)
    BY <2>1
  <2> QED
    BY <2>1, <2>2 DEF Contract!dvars
<1> QED
  BY <1>1, <1>2, <1>3, <1>4, <1>5 DEF RelayNext

(* The relay implements the delivery contract: no line a probe received    *)
(* disappears without having been stored or counted as discarded.          *)
THEOREM RelayDelivers == ASSUME RelayAssumption PROVE RelaySpec => AtLeastOnce
<1>1. RelayInit => Contract!Init
  BY ContractBegin
<1>2. BufferInv /\ [RelayNext]_relayVars => [Contract!Next]_(Contract!dvars)
  BY ContractStep
<1>3. RelayInv => BufferInv
  BY DEF RelayInv
<1> QED
  BY <1>1, <1>2, <1>3, RelayInductive, PTL DEF RelaySpec, AtLeastOnce, Contract!Spec

-----------------------------------------------------------------------------
(* Whose a line is.                                                        *)

(* Some of finitely many numbers is the greatest.                          *)
LEMMA GreatestOf ==
    ASSUME NEW X, IsFiniteSet(X), X \subseteq Nat, X # {}
    PROVE  \E m \in X : \A x \in X : x <= m
<1> DEFINE Bad == {Y \in SUBSET X : Y # {} /\ ~\E m \in Y : \A x \in Y : x <= m}
           Cards == {Cardinality(Y) : Y \in Bad}
<1>1. \A Y \in SUBSET X : IsFiniteSet(Y) /\ Cardinality(Y) \in Nat
  BY FS_Subset, FS_CardinalityType
<1>2. ASSUME Bad # {} PROVE FALSE
  <2>1. Cards \in SUBSET Nat /\ Cards # {}
    BY <1>1, <1>2
  <2>2. PICK n \in Cards : \A k \in Cards : n <= k
    BY <2>1, SmallestNat
  <2>3. PICK Y \in Bad : Cardinality(Y) = n
    BY <2>2
  <2>4. PICK y \in Y : TRUE
    BY <2>3
  <2> DEFINE Z == Y \ {y}
  <2>5. Cardinality(Z) = n - 1 /\ n \in Nat /\ Z \in SUBSET X
    BY <1>1, <2>3, <2>4, FS_RemoveElement
  <2>6. ASSUME Z \in Bad PROVE FALSE
    <3>1. Cardinality(Z) \in Cards
      BY <2>6
    <3>2. n <= n - 1
      BY <2>2, <2>5, <3>1
    <3> QED BY <2>5, <3>2
  <2>7. CASE Z = {}
    BY <2>3, <2>4, <2>7
  <2>8. CASE Z # {}
    <3>1. PICK m \in Z : \A x \in Z : x <= m
      BY <2>5, <2>6, <2>8
    <3>2. m \in Nat /\ y \in Nat
      BY <2>3, <2>4, <3>1
    <3>3. CASE m <= y
      <4>1. \A x \in Y : x <= y
        BY <2>3, <3>1, <3>2, <3>3
      <4> QED BY <2>3, <2>4, <4>1
    <3>4. CASE ~(m <= y)
      <4>1. \A x \in Y : x <= m
        BY <2>3, <3>1, <3>2, <3>4
      <4> QED BY <2>3, <3>1, <4>1
    <3> QED BY <3>3, <3>4
  <2> QED BY <2>7, <2>8
<1> QED BY <1>2

(* The hosts are finitely many.                                            *)
LEMMA HostsFinite == ASSUME S!HostsAssumption PROVE IsFiniteSet(Hosts)
BY Zenon DEF S!HostsAssumption, S!IsFiniteSet, IsFiniteSet

(* The last host filed under a key is one that is filed under it.          *)
LEMMA LastIsFiled ==
    ASSUME S!HostsAssumption, NEW X \in SUBSET Hosts, S!LastOf(X) # 0
    PROVE  S!LastOf(X) \in X
<1>1. X # {} /\ S!LastOf(X) = S!Max(X)
  BY DEF S!LastOf
<1>2. IsFiniteSet(X) /\ X \subseteq Nat
  <2>1. IsFiniteSet(X)
    BY HostsFinite, FS_Subset
  <2>2. X \subseteq Nat
    BY DEF S!HostsAssumption
  <2> QED BY <2>1, <2>2
<1>3. \E m \in X : \A x \in X : x <= m
  BY <1>1, <1>2, GreatestOf
<1>4. \E m \in X : \A x \in X : m >= x
  BY <1>2, <1>3
<1> QED BY <1>1, <1>4 DEF S!Max

Filed == filed \in [Hosts -> S!Records]

(* The caches hold hosts; those with a key are the ones that carry it, by  *)
(* its first label only when one does.                                     *)
LEMMA OwnersCarry ==
    ASSUME S!HostsAssumption, Filed, NEW t, NEW k, NEW h \in S!Owners(t, k)
    PROVE  /\ h \in Hosts /\ filed[h].tenant = t /\ S!Carries(h, k)
           /\ k \notin {filed[h].name, filed[h].address} => \A g \in S!OfTenant(t) \ {h} : ~S!Carries(g, k)
           /\ \A g \in S!OfTenant(t) : k \in {filed[g].name, filed[g].address} => g \in S!Owners(t, k)
<1> DEFINE exact == S!Exact(t, k)
           labelled == S!Labelled(t, k)
<1>1. CASE exact = {} /\ S!Cardinality(labelled) = 1
  <2>1. S!Owners(t, k) = labelled
    BY <1>1 DEF S!Owners
  <2>2. labelled \subseteq Hosts
    BY DEF S!Labelled
  <2>3. IsFiniteSet(labelled) /\ Cardinality(labelled) = 1
    <3>1. IsFiniteSet(labelled)
      BY <2>2, HostsFinite, FS_Subset
    <3>2. Cardinality(labelled) = 1
      BY <1>1 DEF S!Cardinality, Cardinality
    <3> QED BY <3>1, <3>2
  <2>4. PICK x : labelled = {x}
    BY <2>3, FS_Singleton
  <2>5. h \in Hosts /\ filed[h].tenant = t /\ S!Label(filed[h].name) = k /\ labelled = {h}
    BY <2>1, <2>4 DEF S!Labelled
  <2>6. \A g \in S!OfTenant(t) : k \notin {filed[g].name, filed[g].address}
    BY <1>1 DEF S!Exact, S!OfTenant
  <2>7. \A g \in S!OfTenant(t) \ {h} : S!Label(filed[g].name) # k
    BY <2>5 DEF S!Labelled, S!OfTenant
  <2> QED BY <2>5, <2>6, <2>7 DEF S!Carries
<1>2. CASE ~(exact = {} /\ S!Cardinality(labelled) = 1)
  <2>1. S!Owners(t, k) = exact
    BY <1>2 DEF S!Owners
  <2>2. h \in Hosts /\ filed[h].tenant = t /\ k \in {filed[h].name, filed[h].address}
    BY <2>1 DEF S!Exact
  <2>3. \A g \in S!OfTenant(t) : k \in {filed[g].name, filed[g].address} => g \in exact
    BY DEF S!Exact, S!OfTenant
  <2> QED BY <2>1, <2>2, <2>3 DEF S!Carries
<1> QED BY <1>1, <1>2

(* A host in the caches of a tenant has one of the names and addresses.    *)
LEMMA OwnersNamed ==
    ASSUME S!HostsAssumption, Filed, NEW t \in Tenants, NEW h \in Hosts, filed[h].tenant = t
    PROVE  /\ filed[h].name \in S!Names /\ filed[h].address \in S!Addresses
           /\ S!Label(filed[h].name) \in {"gw", "no label"}
<1>1. filed[h] \in S!Records /\ filed[h].tenant # 0
  BY DEF Filed, S!HostsAssumption
<1>2. filed[h] \in [tenant: Tenants, site: Sites, name: S!Names, address: S!Addresses]
  BY <1>1 DEF S!Records, S!Absent
<1> QED BY <1>2 DEF S!Label

(* A key that is not filed for one site alone, and no private address, is  *)
(* given to a host of another site ...                                     *)
LEMMA SiteHost ==
    ASSUME S!HostsAssumption, Filed, NEW t \in Tenants, NEW s, NEW k, S!SiteCache(t, s, k) # 0
    PROVE  LET h == S!SiteCache(t, s, k) IN
           h \in S!Owners(t, k) /\ filed[h].site = s /\ S!RightHost(t, s, h, k)
<1> DEFINE X == {x \in S!Owners(t, k) : filed[x].site = s}
           h == S!SiteCache(t, s, k)
<1>1. X \subseteq Hosts
  BY OwnersCarry
<1>2. h \in X
  BY <1>1, LastIsFiled DEF S!SiteCache
<1> QED BY <1>2, OwnersCarry DEF S!RightHost

LEMMA TenantHost ==
    ASSUME S!HostsAssumption, Filed, NEW t \in Tenants, NEW k, S!HostCache(t, k) # 0
    PROVE  S!HostCache(t, k) \in S!Owners(t, k)
<1>1. S!Owners(t, k) \subseteq Hosts
  BY OwnersCarry
<1> QED BY <1>1, LastIsFiled DEF S!HostCache

(* ... when all that have the key are in one site.                         *)
LEMMA OneSite ==
    ASSUME S!HostsAssumption, Filed, NEW X \in SUBSET Hosts,
           ~(S!Cardinality({filed[h].site : h \in X}) > 1), NEW g \in X, NEW h \in X
    PROVE  filed[g].site = filed[h].site
<1> DEFINE Y == {filed[x].site : x \in X}
<1>1. IsFiniteSet(X)
  BY HostsFinite, FS_Subset
<1>2. IsFiniteSet(Y)
  <2> DEFINE f == [x \in X |-> filed[x].site]
  <2>1. f \in Surjection(X, Y)
    BY DEF Surjection
  <2> QED BY <1>1, <2>1, FS_Surjection
<1>3. Cardinality(Y) \in Nat /\ ~(Cardinality(Y) > 1)
  BY <1>2, FS_CardinalityType DEF S!Cardinality, Cardinality
<1>4. filed[g].site \in Y /\ filed[h].site \in Y
  OBVIOUS
<1>5. Cardinality(Y) # 0
  BY <1>2, <1>4, FS_EmptySet
<1>6. Cardinality(Y) = 1
  BY <1>3, <1>5
<1>7. PICK y : Y = {y}
  BY <1>2, <1>6, FS_Singleton
<1> QED BY <1>4, <1>7

LEMMA FallbackHost ==
    ASSUME S!HostsAssumption, Filed, NEW t \in Tenants, NEW s, NEW k, S!Fallback(t, k) # 0
    PROVE  LET h == S!Fallback(t, k) IN h \in S!Owners(t, k) /\ S!RightHost(t, s, h, k)
<1> DEFINE h == S!HostCache(t, k)
<1>1. S!SiteFallbackOk(t, k) /\ S!Fallback(t, k) = h /\ h # 0
  BY DEF S!Fallback
<1>2. h \in S!Owners(t, k) /\ k # "private" /\ ~S!CrossSite(t, k)
  BY <1>1, TenantHost DEF S!SiteFallbackOk
<1>3. S!Owners(t, k) \subseteq Hosts
  BY OwnersCarry
<1>4. ASSUME NEW g \in S!Owners(t, k) PROVE filed[g].site = filed[h].site
  BY <1>2, <1>3, <1>4, OneSite DEF S!CrossSite
<1>5. /\ filed[h].tenant = t /\ S!Carries(h, k)
      /\ k \notin {filed[h].name, filed[h].address} => \A g \in S!OfTenant(t) \ {h} : ~S!Carries(g, k)
      /\ \A g \in S!OfTenant(t) : k \in {filed[g].name, filed[g].address} => g \in S!Owners(t, k)
  BY <1>2, OwnersCarry
<1>6. \A g \in S!OfTenant(t) : k \in {filed[g].name, filed[g].address} => filed[g].site = filed[h].site
  BY <1>4, <1>5
<1> QED BY <1>1, <1>2, <1>5, <1>6 DEF S!RightHost

(* The host of a relayed line: right by its name or by its address.        *)
LEMMA RelayedRight ==
    ASSUME S!HostsAssumption, Filed, NEW t \in Tenants, NEW s, NEW n, NEW a, S!RelayedHost(t, s, n, a) # 0
    PROVE  LET h == S!RelayedHost(t, s, n, a) IN
           \/ h \in S!Owners(t, n) /\ S!RightHost(t, s, h, n)
           \/ h \in S!Owners(t, a) /\ S!RightHost(t, s, h, a)
<1> DEFINE h == S!RelayedHost(t, s, n, a)
<1>1. \/ h = S!SiteCache(t, s, n) \/ h = S!SiteCache(t, s, a)
      \/ h = S!Fallback(t, n) \/ h = S!Fallback(t, a)
  BY DEF S!RelayedHost, S!Lookup
<1>2. CASE h = S!SiteCache(t, s, n)
  BY <1>2, SiteHost
<1>3. CASE h = S!SiteCache(t, s, a)
  BY <1>3, SiteHost
<1>4. CASE h = S!Fallback(t, n)
  BY <1>4, FallbackHost
<1>5. CASE h = S!Fallback(t, a)
  BY <1>5, FallbackHost
<1> QED BY <1>1, <1>2, <1>3, <1>4, <1>5

(* Each line is attributed to a host of its tenant that carries its name   *)
(* or address, of another site only where the key is of one site.          *)
LEMMA AttributionRight ==
    ASSUME S!HostsAssumption, Filed PROVE S!Attributed
<1> SUFFICES ASSUME NEW t \in Tenants, NEW s \in Sites, NEW n \in S!Names \cup {"none"}, NEW a \in S!Addresses
             PROVE  /\ LET h == S!RelayedHost(t, s, n, a)
                       IN h # 0 => S!RightHost(t, s, h, n) \/ S!RightHost(t, s, h, a)
                    /\ LET h == S!AgentHost(t, s, n, a) IN h # 0 => S!RightAgent(t, s, n, a, h)
  BY DEF S!Attributed
<1>1. S!RelayedHost(t, s, n, a) # 0 =>
        S!RightHost(t, s, S!RelayedHost(t, s, n, a), n) \/ S!RightHost(t, s, S!RelayedHost(t, s, n, a), a)
  BY RelayedRight
<1> DEFINE h == S!AgentHost(t, s, n, a)
           named == S!RelayedHost(t, s, n, "none")
<1>2. ASSUME h # 0 PROVE S!RightAgent(t, s, n, a, h)
  <2>1. CASE named # 0
    <3>1. h = named
      BY <2>1 DEF S!AgentHost
    <3>2. h \notin S!Owners(t, "none")
      <4>1. SUFFICES ASSUME h \in S!Owners(t, "none") PROVE FALSE
        OBVIOUS
      <4>2. h \in Hosts /\ filed[h].tenant = t /\ S!Carries(h, "none")
        BY <4>1, OwnersCarry
      <4>3. filed[h].name \in S!Names /\ filed[h].address \in S!Addresses /\ S!Label(filed[h].name) \in {"gw", "no label"}
        BY <4>2, OwnersNamed
      <4> QED BY <4>2, <4>3 DEF S!Carries, S!Names, S!Addresses
    <3>3. S!RightHost(t, s, h, n)
      BY <2>1, <3>1, <3>2, RelayedRight
    <3> QED BY <3>3 DEF S!RightAgent
  <2>2. CASE named = 0
    <3> DEFINE X == {g \in Hosts : filed[g].tenant = t}
    <3>1. h = S!SiteCache(t, s, a) /\ ~(a = "public" /\ S!Cardinality({filed[g].site : g \in X}) > 1)
      BY <1>2, <2>2 DEF S!AgentHost
    <3>2. h \in S!Owners(t, a) /\ filed[h].site = s
      BY <1>2, <3>1, SiteHost
    <3>3. h \in Hosts /\ filed[h].tenant = t /\ S!Carries(h, a)
      BY <3>2, OwnersCarry
    <3>4. filed[h].address = a
      BY <3>3, OwnersNamed DEF S!Carries, S!Names, S!Addresses
    <3>5. ASSUME a = "public", NEW g \in S!OfTenant(t) PROVE filed[g].site = s
      <4>1. g \in X /\ h \in X /\ X \in SUBSET Hosts
        BY <3>3 DEF S!OfTenant
      <4>2. ~(S!Cardinality({filed[x].site : x \in X}) > 1)
        BY <3>1, <3>5
      <4>3. filed[g].site = filed[h].site
        BY <4>1, <4>2, OneSite
      <4> QED BY <3>2, <4>3
    <3> QED BY <3>2, <3>3, <3>4, <3>5 DEF S!RightAgent
  <2> QED BY <2>1, <2>2
<1> QED BY <1>1, <1>2

(* With the allowlist on, an address is accepted for a host that has it.   *)
LEMMA AllowlistRight ==
    ASSUME S!HostsAssumption, Filed PROVE S!AllowlistHolds
<1> SUFFICES ASSUME enforced, NEW t \in Tenants, NEW s \in Sites, NEW a \in S!Addresses, S!Allowed(t, s, a)
             PROVE  \E h \in S!OfTenant(t) : filed[h].address = a /\ (a = "private" => filed[h].site = s)
  BY DEF S!AllowlistHolds
<1>1. ASSUME NEW h \in S!Owners(t, a) PROVE h \in S!OfTenant(t) /\ filed[h].address = a
  <2>1. h \in Hosts /\ filed[h].tenant = t /\ S!Carries(h, a)
    BY <1>1, OwnersCarry
  <2> QED BY <2>1, OwnersNamed DEF S!Carries, S!Names, S!Addresses, S!OfTenant
<1>2. CASE S!SiteCache(t, s, a) # 0
  <2>1. S!SiteCache(t, s, a) \in S!Owners(t, a) /\ filed[S!SiteCache(t, s, a)].site = s
    BY <1>2, SiteHost
  <2> QED BY <1>1, <2>1
<1>3. CASE S!SiteFallbackOk(t, a) /\ S!HostCache(t, a) # 0
  <2>1. S!HostCache(t, a) \in S!Owners(t, a) /\ a # "private"
    BY <1>3, TenantHost DEF S!SiteFallbackOk
  <2> QED BY <1>1, <2>1
<1> QED BY <1>2, <1>3 DEF S!Allowed

HostsInv ==
    /\ hosts \in [Hosts -> S!Records] /\ Filed
    /\ active \in {1, 2} /\ known = hosts_seen /\ hosts_seen \in 0..2 /\ enforced \in BOOLEAN

LEMMA HostsStart == ASSUME S!HostsAssumption, S!HostsInit PROVE HostsInv
<1>1. S!Absent \in S!Records
  BY DEF S!Records
<1>2. filed \in [Hosts -> S!Records]
  BY <1>1 DEF S!HostsInit
<1>3. active \in {1, 2} /\ known = hosts_seen /\ hosts_seen \in 0..2
  BY DEF S!HostsInit
<1>4. enforced \in BOOLEAN /\ hosts \in [Hosts -> S!Records]
  BY Zenon DEF S!HostsInit
<1> QED BY <1>2, <1>3, <1>4 DEF HostsInv, Filed

LEMMA HostsStep ==
    ASSUME S!HostsAssumption, HostsInv, S!HostsNext \/ UNCHANGED S!hostsVars PROVE HostsInv'
<1>1. CASE S!Refresh
  BY <1>1 DEF S!Refresh, HostsInv, Filed, S!HostsAssumption
<1>2. CASE S!TenantChange
  BY <1>2 DEF S!TenantChange, HostsInv, Filed
<1>3. ASSUME NEW h \in Hosts, S!Change(h) PROVE HostsInv'
  <2>1. hosts[h] \in [tenant: Tenants, site: Sites, name: S!Names, address: S!Addresses]
    BY <1>3 DEF S!Change, HostsInv, S!Records
  <2>2. \A s \in Sites : [hosts[h] EXCEPT !.site = s] \in S!Records
    BY <2>1 DEF S!Records
  <2>3. S!Absent \in S!Records
    BY DEF S!Records
  <2>4. hosts' \in [Hosts -> S!Records]
    BY <1>3, <2>2, <2>3 DEF S!Change, HostsInv
  <2> QED BY <1>3, <2>4 DEF S!Change, HostsInv, Filed
<1>4. CASE UNCHANGED S!hostsVars
  BY <1>4 DEF S!hostsVars, HostsInv, Filed
<1> QED BY <1>1, <1>2, <1>3, <1>4 DEF S!HostsNext

LEMMA HostsSafe ==
    ASSUME S!HostsAssumption, HostsInv PROVE S!Attributed /\ S!AllowlistHolds /\ S!ListenerCloses
<1>1. S!ListenerCloses
  BY DEF HostsInv, S!ListenerCloses, S!ListenerAccepts
<1> QED BY <1>1, AttributionRight, AllowlistRight DEF HostsInv

-----------------------------------------------------------------------------
(* The units that collect: each config that one has taken is in flight,    *)
(* and none has a config of another.                                       *)
Shape(u) == "of" \in DOMAIN u
FlightInv == (\A u \in units : Shape(u) /\ u.of \subseteq inflight) /\ I!PolledOnce

(* A new cycle takes only what no unit has.                                *)
LEMMA CycleApart ==
    ASSUME FlightInv, NEW due, I!Cycle(due) PROVE FlightInv'
<1> DEFINE d == due \ sealed
           g == d \cap grouped
           New == {I!Unit({c}) : c \in d \ g} \cup (IF g = {} THEN {} ELSE {I!Unit(g)})
<1>1. units' = units \cup New /\ inflight' = inflight \cup d
  BY DEF I!Cycle
<1>2. d \cap inflight = {}
  BY DEF I!Cycle, I!Ready
<1>3. \A u \in New : u = I!Unit(g) \/ \E c \in d \ g : u = I!Unit({c})
  OBVIOUS
<1>4. \A X : Shape(I!Unit(X)) /\ I!Unit(X).of = X
  BY DEF Shape, I!Unit
<1>5. ASSUME NEW u \in New PROVE Shape(u) /\ u.of \subseteq d
  <2>1. CASE u = I!Unit(g)
    <3>1. Shape(I!Unit(g)) /\ I!Unit(g).of = g
      BY <1>4
    <3> QED BY <2>1, <3>1, Zenon
  <2>2. ASSUME NEW c \in d \ g, u = I!Unit({c}) PROVE Shape(u) /\ u.of = {c}
    <3>1. Shape(I!Unit({c})) /\ I!Unit({c}).of = {c}
      BY <1>4
    <3> QED BY <2>2, <3>1, Zenon
  <2>3. ASSUME NEW c \in d \ g, u = I!Unit({c}) PROVE Shape(u) /\ u.of \subseteq d
    BY <2>2, <2>3
  <2> QED BY <1>3, <2>1, <2>3
<1>6. ASSUME NEW u \in New, NEW w \in New, u # w PROVE u.of \cap w.of = {}
  <2>1. ASSUME NEW x \in New, x # I!Unit(g) PROVE \E c \in d \ g : x = I!Unit({c}) /\ x.of = {c}
    <3>1. PICK c \in d \ g : x = I!Unit({c})
      BY <1>3, <2>1
    <3>2. I!Unit({c}).of = {c}
      BY <1>4
    <3>3. x.of = {c}
      BY <3>1, <3>2, Zenon
    <3> QED BY <3>1, <3>3
  <2>2. I!Unit(g).of = g
    BY <1>4
  <2>3. CASE u = I!Unit(g)
    <3>1. u.of = g
      BY <2>2, <2>3, Zenon
    <3>2. w # I!Unit(g)
      BY <1>6, <2>3
    <3> QED BY <2>1, <3>1, <3>2
  <2>4. CASE w = I!Unit(g)
    <3>1. w.of = g
      BY <2>2, <2>4, Zenon
    <3>2. u # I!Unit(g)
      BY <1>6, <2>4
    <3> QED BY <2>1, <3>1, <3>2
  <2>5. CASE u # I!Unit(g) /\ w # I!Unit(g)
    <3>1. PICK c \in d \ g : u = I!Unit({c}) /\ u.of = {c}
      BY <2>1, <2>5
    <3>2. PICK e \in d \ g : w = I!Unit({e}) /\ w.of = {e}
      BY <2>1, <2>5
    <3>3. c # e
      BY <1>6, <3>1, <3>2, Zenon
    <3> QED BY <3>1, <3>2, <3>3
  <2> QED BY <2>3, <2>4, <2>5
<1>7. \A u \in units : Shape(u) /\ u.of \subseteq inflight
  BY DEF FlightInv
<1>8. \A u, w \in units' : u # w => u.of \cap w.of = {}
  <2>1. \A u, w \in units : u # w => u.of \cap w.of = {}
    BY DEF FlightInv, I!PolledOnce
  <2> QED BY <1>1, <1>2, <1>5, <1>6, <1>7, <2>1
<1> QED BY <1>1, <1>5, <1>7, <1>8 DEF FlightInv, I!PolledOnce

(* A unit that goes on keeps its configs ...                               *)
LEMMA UnitGoesOn ==
    ASSUME FlightInv, NEW u \in units, NEW v, Shape(v), v.of = u.of, I!Change(u, v), inflight' = inflight
    PROVE  FlightInv'
<1>1. units' = (units \ {u}) \cup {v}
  BY DEF I!Change
<1>2. \A w \in units' : Shape(w) /\ w.of \subseteq inflight'
  BY <1>1 DEF FlightInv
<1>3. \A w, x \in units' : w # x => w.of \cap x.of = {}
  BY <1>1 DEF FlightInv, I!PolledOnce
<1> QED BY <1>2, <1>3 DEF FlightInv, I!PolledOnce

(* ... and one that ends gives up its own.                                 *)
LEMMA UnitEnds ==
    ASSUME FlightInv, NEW u \in units, units' = units \ {u}, inflight' = inflight \ u.of
    PROVE  FlightInv'
<1>1. \A w \in units' : Shape(w) /\ w.of \subseteq inflight'
  BY DEF FlightInv, I!PolledOnce
<1> QED BY <1>1 DEF FlightInv, I!PolledOnce

LEMMA FlightStart == I!Init => FlightInv
BY DEF I!Init, FlightInv, I!PolledOnce

LEMMA FlightStep ==
    ASSUME FlightInv, I!Next \/ UNCHANGED I!vars PROVE FlightInv'
<1>0. ASSUME units' = units, inflight' = inflight PROVE FlightInv'
  BY <1>0 DEF FlightInv, I!PolledOnce
<1>1. ASSUME NEW due, I!Cycle(due) PROVE FlightInv'
  BY <1>1, CycleApart
<1>2. ASSUME NEW u \in units, I!Collect(u) PROVE FlightInv'
  <2> DEFINE v == [u EXCEPT !.pc = "collected", !.ok = u.of \cap reach, !.alarm = alarm]
  <2>1. Shape(u)
    BY DEF FlightInv
  <2>2. Shape(v) /\ v.of = u.of
    BY <2>1 DEF Shape
  <2>3. I!Change(u, v) /\ inflight' = inflight
    BY <1>2 DEF I!Collect
  <2> QED BY <2>2, <2>3, UnitGoesOn
<1>3. ASSUME NEW u \in units, I!Check(u) PROVE FlightInv'
  <2> DEFINE v == [u EXCEPT !.pc = "write", !.accepted = {c \in u.of : I!Accepts(u, c)}]
  <2>1. Shape(u)
    BY DEF FlightInv
  <2>2. Shape(v) /\ v.of = u.of
    BY <2>1 DEF Shape
  <2>3. I!Change(u, v) /\ inflight' = inflight
    BY <1>3 DEF I!Check
  <2> QED BY <2>2, <2>3, UnitGoesOn
<1>4. ASSUME NEW u \in units, NEW on, I!Write(u, on) PROVE FlightInv'
  <2>1. units' = units \ {u} /\ inflight' = inflight \ u.of
    BY <1>4 DEF I!Write
  <2> QED BY <2>1, UnitEnds
<1>5. ASSUME NEW u \in units, I!WriteFails(u) PROVE FlightInv'
  <2>1. units' = units \ {u} /\ inflight' = inflight \ u.of
    BY <1>5 DEF I!WriteFails
  <2> QED BY <2>1, UnitEnds
<1>6. CASE I!Restart
  BY <1>6 DEF I!Restart, FlightInv, I!PolledOnce
<1>7. CASE I!Orphans \/ I!World
  BY <1>0, <1>7 DEF I!Orphans, I!World, I!memory
<1>8. ASSUME NEW c, I!Edit(c, TRUE) \/ I!Edit(c, FALSE) \/ I!Delete(c) \/ I!Ages(c) PROVE FlightInv'
  BY <1>0, <1>8 DEF I!Edit, I!Delete, I!Ages, I!memory
<1>9. ASSUME NEW i, I!Resolve(i) PROVE FlightInv'
  BY <1>0, <1>9 DEF I!Resolve, I!memory
<1>10. CASE UNCHANGED I!vars
  BY <1>0, <1>10 DEF I!vars, I!memory
<1> QED
  BY <1>1, <1>2, <1>3, <1>4, <1>5, <1>6, <1>7, <1>8, <1>9, <1>10 DEF I!Next, I!Step

-----------------------------------------------------------------------------
(* A step of the suite moves one component and leaves the others alone.    *)
LEMMA IngestMove ==
    ASSUME [Next]_vars
    PROVE  /\ [RelayNext]_relayVars
           /\ S!HostsNext \/ UNCHANGED S!hostsVars
           /\ I!Next \/ UNCHANGED I!vars
<1>1. /\ RelayNext \/ UNCHANGED relayVars
      /\ S!HostsNext \/ UNCHANGED hostsVars
      /\ I!Next \/ UNCHANGED integrationVars
  BY DEF Next, vars, relayOnly, serverOnly, hostsOnly, templatesOnly, baselinesOnly, integrationOnly, bandwidthOnly,
         fleetOnly, precursorOnly
<1>2. hostsVars = S!hostsVars /\ (hostsVars = S!hostsVars)'
  BY DEF hostsVars, S!hostsVars
<1>3. ASSUME UNCHANGED integrationVars PROVE UNCHANGED I!vars
  BY <1>3 DEF integrationVars, I!vars, I!configs, I!device, I!memory
<1> QED BY <1>1, <1>2, <1>3

(* What comes in is kept in order and within its limits by the relay, is   *)
(* attributed to a host of its own tenant and site, is taken only from an  *)
(* address that is allowed, by a listener that closes when it should, and  *)
(* is collected once: for any sizes and limits of the relay, any tenants,  *)
(* sites, hosts and configs, and any number of edits and failures.         *)
THEOREM IngestedSafely ==
    ASSUME RelayAssumption, S!HostsAssumption PROVE Spec => []Ingested
<1>1. Init => RelayInv /\ HostsInv /\ FlightInv
  BY RelayBegin, HostsStart, FlightStart DEF Init
<1>2. RelayInv /\ HostsInv /\ FlightInv /\ [Next]_vars => (RelayInv /\ HostsInv /\ FlightInv)'
  BY IngestMove, RelayStep, HostsStep, FlightStep
<1>3. RelayInv /\ HostsInv /\ FlightInv => Ingested
  BY RelaySound, RelayOrdered, HostsSafe DEF Ingested, FlightInv
<1> QED BY <1>1, <1>2, <1>3, PTL DEF Spec
=============================================================================
