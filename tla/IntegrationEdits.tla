-------------------------- MODULE IntegrationEdits --------------------------
(***************************************************************************)
(* Edits of one integration while it is collected (api_edit_instance of    *)
(* routers/integrations.py, update_config of services/integration.py,      *)
(* check_stamp of services/integration_ingest.py).  A request reads the    *)
(* row, resolves the host and writes the whole config; the revision it     *)
(* writes is one more than the one it read.  A collect is stamped with the *)
(* revision, and dropped if that is not the current one.                   *)
(***************************************************************************)
EXTENDS Naturals

CONSTANTS
    Requests,       \* edits that may be under way
    Addresses,
    MaxWrites,      \* bound: edits
    Overlap         \* edits may be under way at the same time

\* What the constants are assumed to be
EditsAssumption == MaxWrites \in Nat /\ Overlap \in BOOLEAN

VARIABLES
    row,            \* config_rev, address, TLS verification, and what the secret was entered for; rev 0 is deleted
    req,            \* request -> the row it read, or Idle
    job,            \* the collect under way: the row it was started with, or Idle
    data,           \* the settings the newest snapshot was collected with
    stale,          \* a request wrote over a row it had not read
    writes

vars == <<row, req, job, data, stale, writes>>

Idle == [rev |-> 0, at |-> "none", tls |-> TRUE, for |-> <<"none", TRUE>>]
Settings(r) == [at |-> r.at, tls |-> r.tls, for |-> r.for]

Read(r) ==
    /\ req[r] = Idle /\ row.rev > 0 /\ writes < MaxWrites
    /\ Overlap \/ \A q \in Requests : req[q] = Idle
    /\ req' = [req EXCEPT ![r] = row]
    /\ UNCHANGED <<row, job, data, stale, writes>>

(* A new address, or verification switched off, needs the secret again.    *)
(* Mutant: switching the verification off does not.                        *)
Allowed_Tls(base, at, tls, entered) == entered \/ at = base.at
Allowed(base, at, tls, entered) == entered \/ (at = base.at /\ (tls \/ ~base.tls))
(* update_config on the row the session holds.                             *)
Write(r, at, tls, entered) ==
    LET base == req[r]
        ok == row.rev > 0 /\ Allowed(base, at, tls, entered)
    IN /\ base # Idle /\ req' = [req EXCEPT ![r] = Idle]
       /\ writes < MaxWrites /\ writes' = writes + 1
       /\ row' = IF ok THEN [rev |-> base.rev + 1, at |-> at, tls |-> tls,
                             for |-> IF entered THEN <<at, tls>> ELSE base.for]
                 ELSE row
       /\ stale' = (stale \/ (ok /\ base # row))
       /\ UNCHANGED <<job, data>>
(* delete_config.                                                          *)
Delete ==
    /\ row.rev > 0 /\ writes < MaxWrites /\ writes' = writes + 1
    /\ row' = [row EXCEPT !.rev = 0] /\ data' = Settings(Idle)
    /\ UNCHANGED <<req, job, stale>>

(* A collect with the stored settings.                                     *)
Start ==
    /\ job = Idle /\ row.rev > 0 /\ job' = row
    /\ UNCHANGED <<row, req, data, stale, writes>>
(* check_stamp.                                                            *)
(* Mutant: an older result counts.                                         *)
Accepted_Older == row.rev > 0 /\ job.rev <= row.rev
Accepted == row.rev > 0 /\ job.rev = row.rev
Ingest ==
    /\ job # Idle /\ job' = Idle
    /\ data' = IF Accepted THEN Settings(job) ELSE data
    /\ UNCHANGED <<row, req, stale, writes>>

Init ==
    /\ \E a \in Addresses : row = [rev |-> 1, at |-> a, tls |-> TRUE, for |-> <<a, TRUE>>]
    /\ req = [r \in Requests |-> Idle] /\ job = Idle /\ data = Settings(Idle)
    /\ stale = FALSE /\ writes = 0
Next ==
    \/ \E r \in Requests : Read(r) \/ (\E a \in Addresses, tls, entered \in BOOLEAN : Write(r, a, tls, entered))
    \/ Delete \/ Start \/ Ingest
    \/ row.rev = 0 /\ UNCHANGED vars
Spec == Init /\ [][Next]_vars

-----------------------------------------------------------------------------
(* Properties.                                                             *)

TypeOK ==
    /\ row.rev \in 0..(MaxWrites + 1) /\ row.at \in Addresses /\ row.tls \in BOOLEAN
    /\ stale \in BOOLEAN /\ writes \in 0..MaxWrites

(* The stored secret goes to no other address than the one it was entered  *)
(* for, and not unverified if it was entered for a verified one, whatever  *)
(* edits overlap.                                                          *)
SecretStays == row.for[1] = row.at /\ (~row.tls => ~row.for[2])

(* A result is stored only while the settings it was collected with are    *)
(* the config's, unless an edit has been written over another one's.       *)
DataCurrent == [][data' # data /\ row'.rev > 0 /\ ~stale => data' = Settings(row)]_vars

(* What the comment in update_config says: "Every change gets a new        *)
(* revision: a collect started before it (core or probe) is dropped at     *)
(* ingest".                                                                *)
EveryChangeCounts == [][data' # data /\ row'.rev > 0 => data' = Settings(row)]_vars
=============================================================================
