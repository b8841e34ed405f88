-------------------------- MODULE MaintenanceWindows --------------------------
(***************************************************************************)
(* A maintenance window (services/maintenance.py, routers/maintenance.py). *)
(* Whether it is active is computed from its row whenever somebody asks:   *)
(* a weekly window in the wall-clock time of its zone, whose clock changes *)
(* once here, a one-off in UTC.  The row is edited by requests that read   *)
(* it, merge what they name into it, validate the whole and write the      *)
(* columns they have changed.  Time is counted from a day far enough back. *)
(***************************************************************************)
EXTENDS Integers, FiniteSets, FiniteSetsExt

CONSTANTS
    DayLen, WeekLen,     \* a day's ticks and a week's days
    Times,               \* when windows are looked at
    Change,              \* the instant at which the clock of the zone "local" changes
    Clocks, Jump,        \* whether it is kept, put forward or put back then, and by how much
    DaySets, StartTimes, Durations, Moments,   \* what requests ask for
    MaxDuration, MaxSpan,                      \* of a weekly window, and of a one-off
    Span,                \* MAX_OCCURRENCE_SPAN_DAYS, in ticks
    Hosts, Editors,
    MaxEdits             \* bound

VARIABLES
    clock,
    table,               \* the row, as a set of at most one
    hosts,               \* the hosts there are
    seen,                \* request -> the row it has read, as a set of at most one
    overlapped,          \* a request wrote over a row that another had changed since it was read
    edits

vars == <<clock, table, hosts, seen, overlapped, edits>>
None == -1
shift == CASE clock = "forward" -> Jump [] clock = "back" -> -Jump [] OTHER -> 0
Larger(a, b) == IF a > b THEN a ELSE b

(* ZoneInfo: the wall clock at an instant, and the instant of a wall-clock *)
(* time, which in a gap or a repeated hour is read with the earlier offset.*)
Local(z, t) == IF z = "local" /\ t >= Change THEN t + shift ELSE t
ToUtc(z, wall) == IF z = "local" /\ wall >= Change + Larger(0, shift) THEN wall - shift ELSE wall
DayOf(z, t) == Local(z, t) \div DayLen
StartOn(w, day) == ToUtc(w.zone, day * DayLen + w.start)
Falls(w, day) == (day % WeekLen) \in w.days

(* spec_from_row and the first tests of the three functions below.         *)
IsWeekly(w) == w.enabled /\ w.kind = "weekly" /\ w.days # {} /\ w.start # None /\ w.dur > 0
IsOnce(w) == w.enabled /\ w.kind = "once" /\ w.starts # None /\ w.ends # None

Lookback_Night(w) == 1
Lookback(w) == w.dur \div DayLen + 1
OccurrenceAt(w, t) ==
    CASE IsOnce(w) -> IF w.starts <= t /\ t < w.ends THEN {<<w.starts, w.ends>>} ELSE {}
      [] IsWeekly(w) ->
            LET hits == {back \in 0..Lookback(w) : LET day == DayOf(w.zone, t) - back IN
                            Falls(w, day) /\ StartOn(w, day) <= t /\ t < StartOn(w, day) + w.dur}
                at == StartOn(w, DayOf(w.zone, t) - Min(hits))
            IN  IF hits = {} THEN {} ELSE {<<at, at + w.dur>>}
      [] OTHER -> {}

NextOccurrence(w, t) ==
    CASE IsOnce(w) -> IF w.starts > t THEN {<<w.starts, w.ends>>} ELSE {}
      [] IsWeekly(w) ->
            LET hits == {ahead \in 0..WeekLen : LET day == DayOf(w.zone, t) + ahead IN
                            Falls(w, day) /\ StartOn(w, day) > t}
                at == StartOn(w, DayOf(w.zone, t) + Min(hits))
            IN  IF hits = {} THEN {} ELSE {<<at, at + w.dur>>}
      [] OTHER -> {}

OccurrencesBetween(w, a, b) == LET from == Larger(a, b - Span) IN
    CASE b <= a -> {}
      [] b > a /\ IsOnce(w) -> IF from <= w.starts /\ w.starts < b THEN {<<w.starts, w.ends>>} ELSE {}
      [] b > a /\ IsWeekly(w) ->
            {<<s, s + w.dur>> : s \in {StartOn(w, day) : day \in
                {d \in (DayOf(w.zone, from) - 1)..(DayOf(w.zone, b) + 1) :
                    Falls(w, d) /\ from <= StartOn(w, d) /\ StartOn(w, d) < b}}}
      [] OTHER -> {}
-----------------------------------------------------------------------------
(* to_naive_utc: a moment with its offset, or in the zone's wall clock.    *)
Naive(moment, z) == IF moment.utc THEN moment.v ELSE ToUtc(z, moment.v)
Unset == [v |-> None, utc |-> TRUE]
Marked_Local(v) == [v |-> v, utc |-> v = None]
Marked(v) == [v |-> v, utc |-> TRUE]
AsInput(r) == [r EXCEPT !.starts = Marked(@), !.ends = Marked(@)]

(* _validate: what it refuses, and the columns it makes of the rest.       *)
Accepts(d) ==
    /\ d.kind = "weekly" => d.days # {} /\ d.start # None /\ d.dur \in 1..MaxDuration
    /\ d.kind = "once" =>
         /\ d.starts # Unset /\ d.ends # Unset
         /\ LET span == Naive(d.ends, d.zone) - Naive(d.starts, d.zone) IN span > 0 /\ span <= MaxSpan
    /\ d.all \/ (d.hosts # {} /\ d.hosts \subseteq hosts)
Values(d) == LET weekly == d.kind = "weekly" IN
    [d EXCEPT !.days = IF weekly THEN @ ELSE {},
              !.start = IF weekly THEN @ ELSE None,
              !.dur = IF weekly THEN @ ELSE None,
              !.starts = IF weekly THEN None ELSE Naive(@, d.zone),
              !.ends = IF weekly THEN None ELSE Naive(@, d.zone),
              !.hosts = IF d.all THEN {} ELSE @]

Bodies ==
    {[enabled |-> TRUE, kind |-> "weekly", days |-> ds, start |-> s, dur |-> n, starts |-> Unset, ends |-> Unset,
      zone |-> z, all |-> FALSE, hosts |-> Hosts] : ds \in DaySets, s \in StartTimes, n \in Durations, z \in {"UTC", "local"}}
    \cup
    {[enabled |-> TRUE, kind |-> "once", days |-> {}, start |-> None, dur |-> None, starts |-> [v |-> a, utc |-> FALSE],
      ends |-> [v |-> b, utc |-> FALSE], zone |-> z, all |-> TRUE, hosts |-> {}] : a \in Moments, b \in Moments, z \in {"UTC", "local"}}
Patches ==
    {[dur |-> n] : n \in Durations} \cup {[days |-> ds] : ds \in DaySets} \cup {[zone |-> z] : z \in {"UTC", "local"}}
    \cup {[starts |-> [v |-> a, utc |-> FALSE]] : a \in Moments} \cup {[ends |-> [v |-> a, utc |-> FALSE]] : a \in Moments}
    \cup {[enabled |-> e] : e \in BOOLEAN} \cup {[all |-> TRUE], [all |-> FALSE, hosts |-> Hosts]}
    \cup {[kind |-> "weekly", days |-> ds, start |-> 0, dur |-> 1] : ds \in DaySets}
    \cup {[kind |-> "once", starts |-> [v |-> a, utc |-> FALSE], ends |-> [v |-> b, utc |-> FALSE]] : a \in Moments, b \in Moments}
Merged(r, p) == LET row == AsInput(r) IN [f \in DOMAIN r |-> IF f \in DOMAIN p THEN p[f] ELSE row[f]]

Init ==
    /\ clock \in Clocks
    /\ hosts = Hosts
    /\ table \in {{Values(d)} : d \in {b \in Bodies : Accepts(b)}}
    /\ seen = [q \in Editors |-> {}]
    /\ overlapped = FALSE
    /\ edits = 0

Bounded == edits < MaxEdits /\ edits' = edits + 1

(* create_window.                                                          *)
Create ==
    /\ Bounded
    /\ table = {}
    /\ \E d \in Bodies : Accepts(d) /\ table' = {Values(d)}
    /\ UNCHANGED <<clock, hosts, seen, overlapped>>

(* update_window: db.get, and after the body has arrived and the hosts     *)
(* were looked up, the UPDATE of the columns that differ from what was     *)
(* read.                                                                   *)
Open(q) ==
    /\ seen[q] = {} /\ edits < MaxEdits
    /\ seen' = [seen EXCEPT ![q] = table]
    /\ UNCHANGED <<clock, table, hosts, overlapped, edits>>
Save(q) ==
    /\ Bounded
    /\ \E old \in seen[q], p \in Patches : LET d == Merged(old, p)  new == Values(d) IN
         IF Accepts(d)
         THEN /\ table' = {[f \in DOMAIN r |-> IF new[f] # old[f] THEN new[f] ELSE r[f]] : r \in table}
              /\ overlapped' = (overlapped \/ table # {old})
         ELSE UNCHANGED <<table, overlapped>>
    /\ seen' = [seen EXCEPT ![q] = {}]
    /\ UNCHANGED <<clock, hosts>>

(* delete_window, and a host that is deleted: the windows still name it.   *)
Delete ==
    /\ Bounded
    /\ table # {} /\ table' = {}
    /\ UNCHANGED <<clock, hosts, seen, overlapped>>
DropHost(h) ==
    /\ Bounded
    /\ h \in hosts /\ hosts' = hosts \ {h}
    /\ UNCHANGED <<clock, table, seen, overlapped>>

Next ==
    \/ Create
    \/ \E q \in Editors : Open(q) \/ Save(q)
    \/ Delete
    \/ \E h \in Hosts : DropHost(h)
    \/ edits = MaxEdits /\ UNCHANGED vars
Spec == Init /\ [][Next]_vars
-----------------------------------------------------------------------------
Columns == [enabled : BOOLEAN, kind : {"weekly", "once"}, days : DaySets \cup {{}}, start : StartTimes \cup {None, 0},
            dur : Durations \cup {None, 1}, starts : Int, ends : Int, zone : {"UTC", "local"}, all : BOOLEAN, hosts : SUBSET Hosts]
TypeOK ==
    /\ clock \in Clocks /\ hosts \subseteq Hosts
    /\ table \in SUBSET Columns /\ Cardinality(table) <= 1
    /\ seen \in [Editors -> SUBSET Columns]
    /\ overlapped \in BOOLEAN /\ edits \in 0..MaxEdits

(* The occurrences a weekly window has, by the calendar.                   *)
Days == 0..(Max(Times) \div DayLen + WeekLen + 2)
Calendar(w) == IF IsOnce(w) THEN {<<w.starts, w.ends>>}
               ELSE IF IsWeekly(w) THEN {<<StartOn(w, d), StartOn(w, d) + w.dur>> : d \in {x \in Days : Falls(w, x)}} ELSE {}
(* An occurrence that the clock was put forward in, at its very end.       *)
CutShort(o, t) == shift > 0 /\ o[1] < Change /\ Change <= t /\ t >= o[2] - shift

(* A window is active exactly during its occurrences, over midnight, over  *)
(* several days and over a change of the clock, although only a few days   *)
(* are looked at, but for the hour an occurrence loses when the clock was  *)
(* put forward in it; the occurrence shown next is the first to start, and *)
(* the list of occurrences has those that start in the span.               *)
ScheduleRight == \A w \in table : LET cal == Calendar(w) IN
    /\ \A t \in Times :
         /\ OccurrenceAt(w, t) \subseteq {o \in cal : o[1] <= t /\ t < o[2]}
         /\ OccurrenceAt(w, t) = {} => \A o \in cal : o[1] <= t /\ t < o[2] => CutShort(o, t)
         /\ LET later == {o \in cal : o[1] > t} IN
              NextOccurrence(w, t) = {o \in later : \A p \in later : o[1] <= p[1]}
    /\ \A b \in Times : LET a == Min(Times) IN
         OccurrencesBetween(w, a, b) = {o \in cal : a <= o[1] /\ b - Span <= o[1] /\ o[1] < b}

(* Saving a window as it is changes nothing: what was accepted is accepted *)
(* again and its moments stay where they are, unless a host it names has   *)
(* been deleted or two edits overlapped, each of which was validated       *)
(* against a row that the other was changing.                              *)
RoundTrip == \A r \in table : ~overlapped /\ r.hosts \subseteq hosts => Accepts(AsInput(r)) /\ Values(AsInput(r)) = r
=============================================================================
