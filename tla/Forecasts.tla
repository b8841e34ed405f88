----------------------------- MODULE Forecasts -----------------------------
(***************************************************************************)
(* When a disk will be full (services/predictions.py, services/_sampling   *)
(* and the disk history of scheduler.py).  The snapshots of a tenant's     *)
(* storage in the window are thinned out, a line is fitted through them,   *)
(* and the outcome is kept in a cache of the process for a while.  A job   *)
(* computes it anew, and so does a page that finds nothing fresh; both     *)
(* read first and store later, with the time of storing.  The history of   *)
(* the installation's own disk is one setting, cut to its newest samples.  *)
(*                                                                         *)
(* A tenant has one pool.  Levels are percents of a coarser scale, times   *)
(* are days.                                                               *)
(***************************************************************************)
EXTENDS Integers, Sequences, FiniteSets, FiniteSetsExt

CONSTANTS
    Tenants,
    Pages,                      \* requests that want a tenant's forecasts
    Full, Levels,               \* 100 percent, and the levels that are measured
    Window,                     \* days_back
    Budget, Newest,             \* PREDICTION_SAMPLE_BUDGET, PREDICTION_KEEP_NEWEST
    Ttl,                        \* INTEGRATION_CACHE_TTL
    MinHistory, MaxHistory,     \* samples for a trend of the own disk, DISK_HISTORY_MAX_SAMPLES
    Soon, Later,                \* days that make a trend critical, or a warning
    MaxTime, MaxComputed, MaxFaults \* bounds

VARIABLES
    now,
    taken,          \* tenant -> its good snapshots, by time: when and how full
    history,        \* disk_usage_history
    cache,          \* _pred_cache: tenant -> forecast and when it was stored
    work,           \* the job and the pages -> what they have computed
    shown,          \* tenant -> the forecast a page has shown last
    raced,          \* tenants two computations of which overlapped
    computed, faults

vars == <<now, taken, history, cache, work, shown, raced, computed, faults>>
Never == -1
NoDate == -1
None == [of |-> 0, days |-> NoDate, read |-> Never, took |-> 0]   \* no forecast
NoCache == [data |-> None, at |-> Never]
Idle == [at |-> "idle", tenant |-> 0, data |-> None]
Workers == Pages \cup {"job"}

(* select_sample_indices: the newest are all taken, and of the others as   *)
(* many as the budget leaves, evenly.  Indices from 1.                     *)
Spread_FromEnd(total, tail, left) == {total - Newest - i + 1 : i \in 1..left}
Spread(total, tail, left) == {((i * tail) \div left) + 1 : i \in 0..(left - 1)}
Sampled(total) ==
    IF total <= Budget THEN 1..total
    ELSE ((total - Newest + 1)..total) \cup Spread(total, total - Newest, Budget - Newest)
InWindow(s) == SelectSeq(s, LAMBDA x : x.at >= now - Window)
Thinned(s) == LET keep == Sampled(Len(s)) IN
    [k \in 1..Cardinality(keep) |-> s[CHOOSE i \in keep : Cardinality({j \in keep : j <= i}) = k]]

(* The regression: n * sum_xy - sum_x * sum_y, and the denominator.        *)
Sum(s, f) == FoldSet(LAMBDA i, sum : f[i] + sum, 0, DOMAIN s)
X(s) == [i \in DOMAIN s |-> s[i].at - s[1].at]
Y(s) == [i \in DOMAIN s |-> s[i].pct]
Over(s) ==
    LET x == X(s)
    IN  Len(s) * Sum(s, [i \in DOMAIN s |-> x[i] * x[i]]) - Sum(s, x) * Sum(s, x)
Rise_Mean(s) == Len(s) * (Y(s)[Len(s)] - Y(s)[1])
Rise(s) ==
    LET x == X(s)  y == Y(s)
    IN  Len(s) * Sum(s, [i \in DOMAIN s |-> x[i] * y[i]]) - Sum(s, x) * Sum(s, y)
(* round(): to the nearest, of two the even one.                           *)
Rounded(a, b) ==
    LET q == a \div b  twice == 2 * (a % b)
    IN  IF twice > b \/ (twice = b /\ q % 2 = 1) THEN q + 1 ELSE q
Left(s) == Full - Y(s)[Len(s)]
(* _linear_predict: no date for what does not grow.                        *)
DaysLeft_Always(s) == Rounded(Left(s) * Over(s), IF Rise(s) > 0 THEN Rise(s) ELSE 1 - Rise(s))
DaysLeft(s) == IF 1000 * Rise(s) <= Over(s) THEN NoDate ELSE Rounded(Left(s) * Over(s), Rise(s))
(* predict_disk_full.                                                      *)
Predicted(t) ==
    LET all == InWindow(taken[t])  s == Thinned(all)
    IN  IF Len(all) < 3 \/ Over(s) = 0 THEN None
        ELSE [of |-> t, days |-> DaysLeft(s), read |-> now, took |-> 0]
(* compute_disk_forecast: the days are rounded to a tenth.                 *)
Trend(s) ==
    IF Len(s) < MinHistory THEN "none"
    ELSE IF Over(s) = 0 \/ 1000 * Rise(s) <= Over(s) THEN "stable"
    ELSE LET tenths == Rounded(10 * Left(s) * Over(s), Rise(s))
         IN  IF tenths <= 10 * Soon THEN "critical" ELSE IF tenths <= 10 * Later THEN "warning" ELSE "normal"
Untouched == \A t \in Tenants : cache[t] = NoCache /\ shown[t] = None /\ \A w \in Workers : work[w] = Idle
Even == \A t \in Tenants : \A i \in DOMAIN taken[t] : taken[t][i].pct = Min(Levels)   \* bound: levels vary, or forecasts are kept
Computing(t) == \E w \in Workers : work[w].tenant = t
-----------------------------------------------------------------------------
Init ==
    /\ now = 0 /\ taken = [t \in Tenants |-> <<>>] /\ history = <<>>
    /\ cache = [t \in Tenants |-> NoCache]
    /\ work = [w \in Workers |-> Idle]
    /\ shown = [t \in Tenants |-> None] /\ raced = {} /\ computed = 0 /\ faults = 0

(* A day passes, and what was measured on it is stored, unless the collect *)
(* has failed.                                                             *)
Day(pct) ==
    /\ now < MaxTime /\ now' = now + 1
    /\ \E S \in (IF Untouched THEN {{}, Tenants} ELSE {Tenants}) :   \* bound: the tenants' disks fill alike
         /\ S # {} => history = <<>>   \* bound: the own disk has its behaviours to itself
         /\ Untouched \/ pct = Min(Levels)   \* bound: see Even
         /\ taken' = [t \in Tenants |-> IF t \in S THEN Append(taken[t], [at |-> now', pct |-> pct]) ELSE taken[t]]
    /\ UNCHANGED <<history, cache, work, shown, raced, computed, faults>>
(* check_disk_space, _record_disk_sample.                                  *)
Cut(s) == IF Len(s) > MaxHistory THEN SubSeq(s, Len(s) - MaxHistory + 1, Len(s)) ELSE s
RecordSample(pct) ==
    /\ history # <<>> => history[Len(history)].at < now
    /\ \A t \in Tenants : taken[t] = <<>> /\ ~Computing(t)   \* bound: see Day
    /\ history' = Cut(Append(history, [at |-> now, pct |-> pct]))
    /\ UNCHANGED <<now, taken, cache, work, shown, raced, computed, faults>>

(* cached_predictions.                                                     *)
Fresh_Always(t) == cache[t] # NoCache
Fresh(t) == cache[t] # NoCache /\ now - cache[t].at < Ttl
(* refresh_cache, and integration_predictions on a miss: the history is    *)
(* read ...                                                                *)
Compute(w, t) ==
    /\ Even /\ computed < MaxComputed /\ computed' = computed + 1
    /\ work[w] = Idle /\ (w \in Pages => ~Fresh(t))
    /\ work' = [work EXCEPT ![w] = [at |-> "store", tenant |-> t, data |-> Predicted(t)]]
    /\ raced' = IF Computing(t) THEN raced \cup {t} ELSE raced
    /\ UNCHANGED <<now, taken, history, cache, shown, faults>>
(* ... and store_predictions.  A page shows what it has computed.          *)
Key_Last(w, t) == {u \in Tenants : cache[u] # NoCache} \cup {t}
Key(w, t) == {t}
Store(w) ==
    LET t == work[w].tenant
        data == [work[w].data EXCEPT !.took = IF work[w].data = None THEN 0 ELSE now - work[w].data.read] IN
    /\ work[w].at = "store"
    /\ cache' = [u \in Tenants |-> IF u \in Key(w, t) THEN [data |-> data, at |-> now] ELSE cache[u]]
    /\ shown' = IF w \in Pages THEN [shown EXCEPT ![t] = data] ELSE shown
    /\ work' = [work EXCEPT ![w] = Idle]
    /\ UNCHANGED <<now, taken, history, raced, computed, faults>>
(* A page that finds something fresh.                                      *)
Hit(t) ==
    /\ Fresh(t) /\ shown' = [shown EXCEPT ![t] = cache[t].data]
    /\ UNCHANGED <<now, taken, history, cache, work, raced, computed, faults>>
(* The agents' disks are never computed for a page: it says they are not   *)
(* ready.                                                                  *)
NotReady(t) == ~Fresh(t) /\ UNCHANGED vars
(* The history cannot be read; the process starts anew.                    *)
ComputeBreaks(w) ==
    /\ work[w] # Idle /\ faults < MaxFaults /\ faults' = faults + 1
    /\ work' = [work EXCEPT ![w] = Idle]
    /\ UNCHANGED <<now, taken, history, cache, shown, raced, computed>>
Restart ==
    /\ faults < MaxFaults /\ faults' = faults + 1
    /\ cache' = [t \in Tenants |-> NoCache] /\ work' = [w \in Workers |-> Idle]
    /\ UNCHANGED <<now, taken, history, shown, raced, computed>>

Next ==
    \/ \E pct \in Levels : Day(pct) \/ RecordSample(pct)
    \/ \E w \in Workers : Store(w) \/ ComputeBreaks(w) \/ \E t \in Tenants : Compute(w, t)
    \/ \E t \in Tenants : Hit(t) \/ NotReady(t)
    \/ Restart
Spec == Init /\ [][Next]_vars
-----------------------------------------------------------------------------
Series == {s \in {taken[t] : t \in Tenants} \cup {history} : s # <<>>}
TypeOK ==
    /\ now \in 0..MaxTime /\ raced \subseteq Tenants /\ computed \in 0..MaxComputed /\ faults \in 0..MaxFaults
    /\ \A s \in Series : \A i \in DOMAIN s : s[i].at \in 0..MaxTime /\ s[i].pct \in Levels
    /\ \A t \in Tenants : cache[t].at \in -1..MaxTime /\ shown[t].of \in Tenants \cup {0}
    /\ \A w \in Workers : work[w].at \in {"idle", "store"}

(* Thinning keeps within the budget, takes the newest samples and the      *)
(* oldest, and leaves no larger gap than an even spread does.              *)
ThinnedEvenly == \A s \in Series :
    LET n == Len(s)  keep == Sampled(n)  gap == (n - Newest + Budget - Newest - 1) \div (Budget - Newest) IN
    /\ keep \subseteq 1..n /\ Cardinality(keep) = (IF n < Budget THEN n ELSE Budget)
    /\ 1 \in keep /\ \A i \in 1..n : n - i < Newest => i \in keep
    /\ n > Budget => \A i \in 1..n : \E j \in keep : i - gap < j /\ j <= i

(* A date is only given for a disk that fills, and lies between those the  *)
(* steepest and the flattest rise from one sample to another would give    *)
(* (to the rounding), although the fit has seen only some of the samples;  *)
(* and the trend of the own disk goes with it.                             *)
Rises(s) == {<<s[j].pct - s[i].pct, s[j].at - s[i].at>> : <<i, j>> \in {p \in (1..Len(s)) \X (1..Len(s)) : p[2] = p[1] + 1}}
DateHonest ==
    /\ \A t \in Tenants : LET s == InWindow(taken[t])  d == Predicted(t).days IN
         Predicted(t) # None =>
            /\ d = NoDate => \E p \in Rises(s) : p[1] * 1000 <= p[2]
            /\ d # NoDate => /\ \E p \in Rises(s) : 2 * Left(s) * p[2] <= (2 * d + 1) * p[1]
                             /\ \E p \in Rises(s) : (2 * d - 1) * p[1] <= 2 * Left(s) * p[2]
    /\ LET s == history IN
         /\ Trend(s) = "critical" => \E p \in Rises(s) : 20 * Left(s) * p[2] <= (20 * Soon + 1) * p[1]
         /\ Trend(s) \in {"warning", "normal"} => \E p \in Rises(s) : 20 * Left(s) * p[2] >= (20 * Soon - 1) * p[1]
         /\ Trend(s) = "stable" => \E p \in Rises(s) : p[1] * 1000 <= p[2]

(* A page shows its own tenant's forecast, no older than the time it may   *)
(* be kept and the time it took; and a later page shows no older one,      *)
(* unless two computations overlapped or the process started anew.         *)
AnswersOwn == \A t \in Tenants : shown[t] # None => shown[t].of = t
AnswersFresh == [][\A t \in Tenants : shown'[t] # shown[t] /\ shown'[t] # None =>
                     /\ now - shown'[t].read < Ttl + shown'[t].took
                     /\ shown'[t].read >= shown[t].read \/ t \in raced]_vars
=============================================================================
