------------------------------ MODULE Licensing ------------------------------
(***************************************************************************)
(* The licence of an installation (ee: licensing.py, license_runtime.py;   *)
(* extensions.py, ee_loader.py).  NODEGLOW_LICENSE wins over the settings  *)
(* row.  Every process keeps what it has read for CACHE_TTL, judges it     *)
(* anew at every call, and decides once, at its start, whether it takes    *)
(* part in the election of a scheduler leader.                             *)
(*                                                                         *)
(* A licence is a text: "short" runs out, "long" does not, "bad" is one    *)
(* that is not signed, or for another installation.                        *)
(***************************************************************************)
EXTENDS Naturals

CONSTANTS
    Procs,
    Envs,           \* what NODEGLOW_LICENSE may be set to
    Term, Grace,    \* ticks "short" runs, and its grace period
    TTL,            \* CACHE_TTL
    MaxChanges      \* bound: uploads, removals, failed reads, restarts

VARIABLES
    env, row,       \* NODEGLOW_LICENSE, and the setting ee_license
    clock,          \* at most one tick after the grace period
    cache,          \* process -> text and ticks since _loaded_at
    reading,        \* process -> what a refresh under way has read, or Idle
    storing,        \* process -> what a request has committed, or Idle
    mode,           \* process -> "down", "starting", "election" or "alone"
    since,          \* text -> ticks since it was in force
    blind,          \* processes whose last read failed
    first,          \* process -> what its first read found, or "unread"
    changes

vars == <<env, row, clock, cache, reading, storing, mode, since, blind, first, changes>>
Texts == {"none", "bad", "short", "long"}
LicensingAssumption == Envs \subseteq Texts /\ Term \in Nat /\ Grace \in Nat /\ TTL \in Nat
Idle == "idle"
Never == TTL + 1
Change == changes < MaxChanges /\ changes' = changes + 1
Next1(n, top) == IF n >= top THEN top ELSE n + 1

(* verify_license, evaluate.                                               *)
Verified(text) == text \in {"short", "long"}
Evaluate(text) ==
    CASE text = "none" -> "missing"
      [] ~Verified(text) /\ text # "none" -> "invalid"
      [] text = "long" \/ (text = "short" /\ clock <= Term) -> "valid"
      [] text = "short" /\ clock > Term /\ clock <= Term + Grace -> "grace"
      [] OTHER -> "expired"
(* LicenseStatus.feature_mode; ha_scheduler is in EXPIRY_EXEMPT.           *)
(* Mutant: it is not.                                                      *)
FeatureMode_Expires(text, feature) ==
    CASE Evaluate(text) \in {"missing", "invalid"} -> "off" [] Evaluate(text) = "expired" -> "read_only" [] OTHER -> "full"
FeatureMode(text, feature) ==
    CASE Evaluate(text) \in {"missing", "invalid"} -> "off"
      [] Evaluate(text) = "expired" /\ feature # "ha_scheduler" -> "read_only"
      [] OTHER -> "full"

InForce == IF env # "none" THEN env ELSE row
Now(text, old) == [x \in Texts |-> IF x \in {text, old} THEN 0 ELSE since[x]]
Keep(p, text) == cache' = [cache EXCEPT ![p] = [text |-> text, age |-> 0]]
Up(p) == mode[p] \in {"election", "alone"}

(* refresh, by a call after CACHE_TTL, by the settings page or at a start: *)
(* the row is read ...                                                     *)
Due(p) == cache[p].age > TTL
Read(p, page) ==
    /\ reading[p] = Idle /\ (mode[p] = "starting" \/ (Up(p) /\ (page \/ Due(p))))
    /\ reading' = [reading EXCEPT ![p] = row]
    /\ UNCHANGED <<env, row, clock, cache, storing, mode, since, blind, first, changes>>
(* ... and kept.  HA is decided right after the refresh of a start.        *)
(* Mutant: a row that is gone is not noticed.                              *)
Refreshed_Kept(p, text) == IF env # "none" THEN env ELSE IF text = "none" THEN cache[p].text ELSE text
Refreshed(p, text) == IF env # "none" THEN env ELSE text
Decided(p, text) ==
    IF mode[p] # "starting" THEN mode
    ELSE [mode EXCEPT ![p] = IF FeatureMode(text, "ha_scheduler") = "full" THEN "election" ELSE "alone"]
ReadEnds(p) ==
    LET text == Refreshed(p, reading[p])
    IN /\ reading[p] # Idle /\ reading' = [reading EXCEPT ![p] = Idle]
       /\ Keep(p, text) /\ mode' = Decided(p, text) /\ blind' = blind \ {p}
       /\ first' = IF mode[p] = "starting" THEN [first EXCEPT ![p] = text] ELSE first
       /\ UNCHANGED <<env, row, clock, storing, since, changes>>
(* The settings cannot be read: the text of the last time stays.           *)
ReadFails(p) ==
    LET text == IF env # "none" THEN env ELSE cache[p].text
    IN /\ reading[p] # Idle /\ Change /\ reading' = [reading EXCEPT ![p] = Idle]
       /\ Keep(p, text) /\ mode' = Decided(p, text) /\ blind' = blind \cup {p}
       /\ first' = IF mode[p] = "starting" THEN [first EXCEPT ![p] = "unread"] ELSE first
       /\ UNCHANGED <<env, row, clock, storing, since>>

(* upload_license, remove_license: refused while the environment has one;  *)
(* what cannot be verified is refused; the row is committed ...            *)
Store(p, text) ==
    /\ storing[p] = Idle /\ Up(p) /\ Change /\ env = "none"
    /\ text = "none" \/ Verified(text)
    /\ row' = text /\ since' = Now(text, row)
    /\ storing' = [storing EXCEPT ![p] = text]
    /\ UNCHANGED <<env, clock, cache, reading, mode, blind, first>>
(* ... and used in this process right away.                                *)
Install(p) ==
    /\ storing[p] # Idle /\ storing' = [storing EXCEPT ![p] = Idle]
    /\ Keep(p, storing[p]) /\ blind' = blind \ {p}
    /\ UNCHANGED <<env, row, clock, reading, mode, since, first, changes>>

(* load_plugins, register, start_scheduler: a process starts, or again.    *)
Start(p) ==
    /\ IF mode[p] = "down" THEN UNCHANGED changes ELSE Change
    /\ mode' = [mode EXCEPT ![p] = "starting"]
    /\ reading' = [reading EXCEPT ![p] = Idle] /\ storing' = [storing EXCEPT ![p] = Idle]
    /\ cache' = [cache EXCEPT ![p] = [text |-> "none", age |-> Never]]
    /\ blind' = blind \ {p} /\ first' = [first EXCEPT ![p] = "none"]
    /\ UNCHANGED <<env, row, clock, since>>
(* Time passes; a refresh and a request are over within a tick.            *)
Tick ==
    /\ \A p \in Procs : reading[p] = Idle /\ storing[p] = Idle
    /\ clock' = Next1(clock, Term + Grace + 1)
    /\ cache' = [p \in Procs |-> [cache[p] EXCEPT !.age = Next1(@, Never)]]
    /\ since' = [x \in Texts |-> IF x = InForce THEN 0 ELSE Next1(since[x], Never + 1)]
    /\ UNCHANGED <<env, row, reading, storing, mode, blind, first, changes>>

Init ==
    /\ env \in Envs /\ row = "none" /\ clock = 0 /\ changes = 0 /\ blind = {} /\ first = [p \in Procs |-> "none"]
    /\ cache = [p \in Procs |-> [text |-> "none", age |-> Never]] /\ reading = [p \in Procs |-> Idle]
    /\ storing = [p \in Procs |-> Idle]
    /\ mode = [p \in Procs |-> "down"]
    /\ since = [x \in Texts |-> IF x = InForce THEN 0 ELSE Never + 1]
Next ==
    \/ \E p \in Procs : \/ \E page \in BOOLEAN : Read(p, page)
                        \/ ReadEnds(p) \/ ReadFails(p) \/ Install(p) \/ Start(p)
                        \/ \E text \in Texts : Store(p, text)
    \/ Tick
Spec == Init /\ [][Next]_vars

-----------------------------------------------------------------------------
(* Properties.                                                             *)

TypeOK ==
    /\ env \in Texts /\ row \in Texts \ {"bad"} /\ clock \in 0..(Term + Grace + 1)
    /\ \A p \in Procs : cache[p].text \in Texts /\ cache[p].age \in 0..Never
    /\ mode \in [Procs -> {"down", "starting", "election", "alone"}]

(* The licence a process decides by was in force when it read it or later, *)
(* so that an upload or a removal in another process is known everywhere   *)
(* after CACHE_TTL, whatever requests and refreshes overlap; only a        *)
(* process that cannot read the settings goes on with what it knows.       *)
LicenceFresh == \A p \in Procs \ blind : cache[p].age <= TTL => since[cache[p].text] <= cache[p].age

(* A process runs its jobs without an election only if there was no        *)
(* licence for it, or its first read failed: expiry never makes replicas   *)
(* run the jobs side by side.                                              *)
AloneExplained == \A p \in Procs : mode[p] = "alone" => first[p] \in {"unread", "none", "bad"}
=============================================================================
