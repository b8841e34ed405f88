------------------------------- MODULE Bandwidth -------------------------------
(***************************************************************************)
(* Rates of traffic (services/bandwidth.py and the bandwidth_metrics of    *)
(* services/clickhouse_client.py): a device sends the counter of an        *)
(* interface, and the rate stored with it is worked out from the newest    *)
(* sample that ClickHouse has.  A heartbeat of an agent is given the time  *)
(* at which it is handled, and two may be handled at once; what an         *)
(* integration collected carries the time of collecting, and is written    *)
(* under a lock.  Devices that report rates themselves need no history.    *)
(***************************************************************************)
EXTENDS Integers, FiniteSets, FiniteSetsExt

CONSTANTS
    SourceKinds,    \* kinds of source: "agent", "proxmox"
    Handlers,       \* requests handled at once
    Loads,          \* bytes that may go by in a unit of time
    MaxTime, MaxSamples, MaxResets, MaxLost

VARIABLES
    kind,
    now,
    counter,        \* of the interface, as the device counts
    carried,        \* bytes that went by in truth
    resets,         \* reboots of the device
    wire,           \* samples on their way: what was counted and when
    measured,       \* samples taken so far
    handler,        \* handler -> the sample it works on
    table,          \* bandwidth_metrics of the interface
    lost,           \* reads and inserts that failed
    overlapped, reordered

vars == <<kind, now, counter, carried, resets, wire, measured, handler, table, lost, overlapped, reordered>>
NoSample == [n |-> 0, count |-> 0, at |-> 0]
Exempt == overlapped \/ (kind = "agent" /\ reordered)
Apart == ~Exempt        \* bound: after that nothing new arrives
Idle == [at |-> "idle", sample |-> NoSample, ts |-> 0, rate |-> 0, since |-> 0]

(* _calc_rate_bps: bits per second, none when the counter went back or no  *)
(* time has passed.                                                        *)
Rate(before, count, seconds) ==
    IF seconds <= 0 \/ count < before THEN 0 ELSE ((count - before) * 8) \div seconds
(* get_previous_bandwidth_sample: the newest, any of them when several are *)
(* as new.                                                                 *)
Previous_Oldest(rows) == {r \in rows : \A q \in rows : r.ts <= q.ts}
Previous(rows) == {r \in rows : \A q \in rows : q.ts <= r.ts}

Init ==
    /\ kind \in SourceKinds
    /\ now = 1 /\ counter = 0 /\ carried = 0 /\ resets = 0
    /\ wire = {} /\ measured = 0
    /\ handler = [h \in Handlers |-> Idle]
    /\ table = {} /\ lost = 0
    /\ overlapped = FALSE /\ reordered = FALSE

(* The interface carries traffic; the device reboots and counts from zero. *)
Traffic(bytes) ==
    /\ Apart /\ now < MaxTime /\ now' = now + 1
    /\ counter' = counter + bytes /\ carried' = carried + bytes
    /\ UNCHANGED <<kind, resets, wire, measured, handler, table, lost, overlapped, reordered>>
Reboot ==
    /\ Apart /\ resets < MaxResets /\ resets' = resets + 1
    /\ counter' = 0
    /\ UNCHANGED <<kind, now, carried, wire, measured, handler, table, lost, overlapped, reordered>>
(* The device, or the collector, sends what it has counted.                *)
Measure ==
    /\ Apart /\ measured < MaxSamples /\ measured' = measured + 1
    /\ wire' = wire \cup {[n |-> measured + 1, count |-> counter, at |-> now]}
    /\ UNCHANGED <<kind, now, counter, carried, resets, handler, table, lost, overlapped, reordered>>
LoseSample(s) ==
    /\ Apart /\ s \in wire /\ wire' = wire \ {s}
    /\ lost < MaxLost /\ lost' = lost + 1
    /\ UNCHANGED <<kind, now, counter, carried, resets, measured, handler, table, overlapped, reordered>>

(* _handle_report and extract_agent_bandwidth up to the lookup; ingest and *)
(* extract_proxmox_bandwidth, one at a time.                               *)
Stamp(s) == IF kind = "agent" THEN now ELSE s.at
Take(h, s) ==
    /\ Apart /\ s \in wire /\ wire' = wire \ {s}
    /\ handler[h] = Idle
    /\ kind = "proxmox" => \A g \in Handlers : handler[g] = Idle
    /\ handler' = [handler EXCEPT ![h] = [Idle EXCEPT !.at = "look", !.sample = s, !.ts = Stamp(s)]]
    /\ overlapped' = (overlapped \/ \E g \in Handlers : handler[g] # Idle)
    /\ reordered' = (reordered \/ \E r \in table : r.n > s.n)
    /\ UNCHANGED <<kind, now, counter, carried, resets, measured, table, lost>>
(* _rate_from_history: a lookup that fails, and the first sample, have no  *)
(* rate.                                                                   *)
LookUp(h) ==
    /\ handler[h].at = "look"
    /\ \/ /\ table = {}
          /\ handler' = [handler EXCEPT ![h].at = "insert"]
       \/ \E p \in Previous(table) :
            LET since == handler[h].ts - p.ts IN
            handler' = [handler EXCEPT ![h] = [@ EXCEPT !.at = "insert", !.since = since,
                                                        !.rate = Rate(p.count, handler[h].sample.count, since)]]
    /\ UNCHANGED <<kind, now, counter, carried, resets, wire, measured, table, lost, overlapped, reordered>>
LookUpFails(h) ==
    /\ handler[h].at = "look"
    /\ handler' = [handler EXCEPT ![h].at = "insert"]
    /\ lost < MaxLost /\ lost' = lost + 1
    /\ UNCHANGED <<kind, now, counter, carried, resets, wire, measured, table, overlapped, reordered>>
(* insert_bandwidth_metrics; one that fails is logged and the sample lost. *)
Insert(h) == LET w == handler[h] IN
    /\ w.at = "insert"
    /\ \/ /\ table' = table \cup {[n |-> w.sample.n, ts |-> w.ts, count |-> w.sample.count, rate |-> w.rate, since |-> w.since]}
          /\ UNCHANGED lost
       \/ lost < MaxLost /\ lost' = lost + 1 /\ UNCHANGED table
    /\ handler' = [handler EXCEPT ![h] = Idle]
    /\ UNCHANGED <<kind, now, counter, carried, resets, wire, measured, overlapped, reordered>>

Next ==
    \/ \E bytes \in Loads : Traffic(bytes)
    \/ Reboot \/ Measure
    \/ \E s \in wire : LoseSample(s) \/ \E h \in Handlers : Take(h, s)
    \/ \E h \in Handlers : LookUp(h) \/ LookUpFails(h) \/ Insert(h)
    \/ (measured = MaxSamples \/ Exempt) /\ UNCHANGED vars
Spec == Init /\ [][Next]_vars
-----------------------------------------------------------------------------
Samples == [n : 0..MaxSamples, count : Nat, at : 0..MaxTime]
TypeOK ==
    /\ kind \in SourceKinds /\ now \in 1..MaxTime /\ counter \in 0..carried /\ carried \in Nat
    /\ resets \in 0..MaxResets /\ wire \subseteq Samples /\ measured \in 0..MaxSamples
    /\ handler \in [Handlers -> [at : {"idle", "look", "insert"}, sample : Samples, ts : 0..MaxTime, rate : Nat, since : Int]]
    /\ table \subseteq [n : 1..MaxSamples, ts : 1..MaxTime, count : Nat, rate : Nat, since : Int]
    /\ lost \in 0..MaxLost /\ overlapped \in BOOLEAN /\ reordered \in BOOLEAN

(* The rates never show more traffic than there was, through reboots, lost *)
(* samples, failed lookups and inserts, and samples as new as each other.  *)
(* Samples that carry the time they were taken may also come in any order; *)
(* heartbeats that overtake or overlap each other are counted twice.       *)
Counted(r) == r.rate * r.since
NotCountedTwice ==
    Exempt \/ MapThenSumSet(Counted, table) <= 8 * carried
=============================================================================
