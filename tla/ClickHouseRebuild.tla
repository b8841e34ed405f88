------------------------- MODULE ClickHouseRebuild -------------------------
(***************************************************************************)
(* The rebuild of one ClickHouse table with tenant_id first in its sort    *)
(* key (backend/services/clickhouse_rebuild.py): a job that copies parts   *)
(* into a work table, exchanges the two, carries late rows over and drops  *)
(* the old table, while inserts, merges and deletes go on and the job may  *)
(* die between any two commands.                                           *)
(*                                                                         *)
(* One table with one partition: progress is kept per partition.  A part   *)
(* is a range of block numbers and its rows.  The original table object is *)
(* `parts`, the work table, live after the exchange, is `work`.  Sizes,    *)
(* disk space and the preflight refusals are left out: a run may stop at   *)
(* any point (Stops).                                                      *)
(***************************************************************************)
EXTENDS Naturals, FiniteSets

CONSTANTS
    N,              \* bound: rows inserted
    LateCopies,     \* tables an abandoned copy may still write to
    Coincide,       \* different disturbances of a copy may add up
    MaxDeletes,     \* bound: rows deleted or expired
    MaxFaults       \* bound: runs cut short, restarts of ClickHouse

VARIABLES
    parts,          \* the original table
    next,           \* its last block number
    flight,         \* inserts into it that have not committed
    work, staging,  \* copies of each row in the work and the staging table
    truth,          \* rows written and not deleted
    prog, intent,   \* progress rows: of the partition and of "<partition>@staged"
    where,          \* which name the original table has
    state,          \* the table's state row
    stopped,        \* merges of the original table are stopped
    pc, stable,     \* where the job is; merges were stopped for this pass
    seen,           \* the parts it listed
    names,          \* the parts the insert under way names
    stage,          \* what it does after a delta pass
    odd,            \* kinds of disturbance so far
    abandoned,      \* rows a copy nobody waits for may still write
    deletes, faults

tables == <<parts, next, flight, truth, odd>>
saved == <<prog, intent, where, state>>
vars == <<tables, work, staging, saved, stopped, pc, stable, seen, names, stage, abandoned,
          deletes, faults>>

Rows == 1..N
None == [max |-> 0, rows |-> 0]     \* Progress(): nothing copied
Zero == [r \in Rows |-> 0]
RowsOf(ps) == UNION {p.rows : p \in ps}
Count(t) == Cardinality({<<r, i>> \in Rows \X (1..3) : i <= t[r]})
Plus(t, R) == [r \in Rows |-> IF r \in R /\ t[r] < 3 THEN t[r] + 1 ELSE t[r]]
HighestBlock(ps) == CHOOSE b \in {p.hi : p \in ps} : \A p \in ps : p.hi <= b

Exchanged == where # "live"
(* Copies are judged by row counts: a part merged away after it was        *)
(* listed, a deleted row and a row that an abandoned copy adds change      *)
(* them.  Unless Coincide, only one of the three happens.                  *)
Copying == pc \in {"plan", "insert"}
Disturb(kind) == (Coincide \/ odd \subseteq {kind}) /\ odd' = odd \cup {kind}
Fault == faults < MaxFaults /\ faults' = faults + 1

-----------------------------------------------------------------------------
(* ClickHouse and the writers.                                             *)

(* An insert resolves the table's name when it begins; rows are numbered   *)
(* in that order.                                                          *)
InsertBegin(r) ==
    /\ r = next + Cardinality(flight) + 1 /\ ~Exchanged
    /\ flight' = flight \cup {r}
    /\ UNCHANGED <<parts, next, truth, odd, work, staging, saved, stopped, pc, stable, seen, names, stage,
                   abandoned, deletes, faults>>
InsertCommit(r) ==
    /\ r \in flight
    /\ flight' = flight \ {r} /\ truth' = truth \cup {r}
    /\ next' = next + 1
    /\ parts' = parts \cup {[lo |-> next + 1, hi |-> next + 1, rows |-> {r}]}
    /\ UNCHANGED <<odd, work, staging, saved, stopped, pc, stable, seen, names, stage, abandoned, deletes, faults>>

(* Two neighbours merge.  A merge that is being cancelled when merges are  *)
(* stopped may still commit (a fault).                                     *)
Merge(p, q) ==
    /\ p \in parts /\ q \in parts /\ p.hi < q.lo
    /\ \A o \in parts : ~(p.hi < o.lo /\ o.hi < q.lo)
    /\ IF stopped THEN Fault ELSE UNCHANGED faults
    /\ IF Copying THEN Disturb("merged") ELSE UNCHANGED odd
    /\ parts' = (parts \ {p, q}) \cup {[lo |-> p.lo, hi |-> q.hi, rows |-> p.rows \cup q.rows]}
    /\ UNCHANGED <<next, flight, truth, work, staging, saved, stopped, pc, stable, seen, names, stage,
                   abandoned, deletes>>

(* A row expires or is deleted in the table that is live.                  *)
Delete(r) ==
    /\ deletes < MaxDeletes /\ deletes' = deletes + 1
    /\ Disturb("deleted")
    /\ r \in truth /\ (Exchanged => work[r] > 0)
    /\ truth' = truth \ {r}
    /\ IF Exchanged
       THEN work' = [work EXCEPT ![r] = 0] /\ UNCHANGED parts
       ELSE parts' = {[p EXCEPT !.rows = @ \ {r}] : p \in parts} /\ UNCHANGED work
    /\ UNCHANGED <<next, flight, staging, saved, stopped, pc, stable, seen, names, stage,
                   abandoned, faults>>

(* A copy the job no longer waits for commits.                             *)
AbandonedCopy ==
    /\ abandoned # {}
    /\ IF Copying THEN Disturb("late") ELSE UNCHANGED odd
    /\ abandoned' = {}
    /\ IF Exchanged THEN staging' = Plus(staging, abandoned) /\ UNCHANGED work
                    ELSE work' = Plus(work, abandoned) /\ UNCHANGED staging
    /\ UNCHANGED <<parts, next, flight, truth, saved, stopped, pc, stable, seen, names, stage,
                   deletes, faults>>

(* A restart of ClickHouse lifts the blockers.                             *)
ServerRestart ==
    /\ Fault /\ stopped /\ pc = "idle"
    /\ stopped' = FALSE
    /\ UNCHANGED <<tables, work, staging, saved, pc, stable, seen, names, stage, abandoned, deletes>>

-----------------------------------------------------------------------------
(* Copying before the exchange (plan, sync_partition, _full_copy).         *)

NewParts(ps, p) == {x \in ps : x.lo > p.max}
OldParts(ps, p) == {x \in ps : x.hi <= p.max}
Straddles(ps, p) == ps # NewParts(ps, p) \cup OldParts(ps, p)
Active(ps) == {p \in parts : \E q \in ps : p.lo = q.lo /\ p.hi = q.hi}   \* by name
SourceCount(ps) == Cardinality(RowsOf(Active(ps)))

(* Mutant: the old rows are not counted again.                             *)
Plan_TrustsOld(ps, p) ==
    CASE p.max = 0 -> IF ps = {} THEN "in_sync" ELSE "full"
      [] p.max # 0 /\ (Straddles(ps, p) \/ Count(work) # p.rows) -> "full"
      [] OTHER -> IF NewParts(ps, p) = {} THEN "in_sync" ELSE "append"
Plan(ps, p) ==
    CASE p.max = 0 -> IF ps = {} THEN "in_sync" ELSE "full"
      [] p.max # 0 /\ \/ Straddles(ps, p)
                      \/ Count(work) # p.rows
                      \/ SourceCount(OldParts(ps, p)) # p.rows -> "full"
      [] OTHER -> IF NewParts(ps, p) = {} THEN "in_sync" ELSE "append"

(* A run over a table that is not exchanged yet: bulk pass.                *)
StartCopy ==
    /\ pc = "idle" /\ where = "live"
    /\ pc' = "plan" /\ seen' = parts /\ stable' = FALSE
    /\ UNCHANGED <<tables, work, staging, saved, stopped, names, stage, abandoned, deletes, faults>>

(* The pass decides by the parts listed before; a full copy drops the      *)
(* copy's partition first.  A run ends here when its budget is used.       *)
Decide ==
    /\ pc = "plan"
    /\ LET action == Plan(seen, prog) IN
       /\ names' = CASE action = "full" -> seen
                     [] action = "append" -> NewParts(seen, prog)
                     [] OTHER -> {}
       /\ work' = IF action = "full" THEN Zero ELSE work
       /\ pc' = IF action = "in_sync" THEN "passed" ELSE "insert"
    /\ UNCHANGED <<tables, staging, saved, stopped, stable, seen, stage, abandoned, deletes, faults>>

(* _insert_parts: an abandoned copy is killed, then the named parts that   *)
(* are still active are copied.                                            *)
(* Mutant: nothing is killed.                                              *)
CopyInsert_NoKill ==
    /\ pc = "insert" /\ ~Exchanged
    /\ work' = Plus(work, RowsOf(Active(names)))
    /\ pc' = "save"
    /\ UNCHANGED <<tables, staging, saved, stopped, stable, seen, names, stage, abandoned, deletes, faults>>
CopyInsert ==
    /\ pc = "insert" /\ ~Exchanged
    /\ abandoned' = {}
    /\ work' = Plus(work, RowsOf(Active(names)))
    /\ pc' = "save"
    /\ UNCHANGED <<tables, staging, saved, stopped, stable, seen, names, stage, deletes, faults>>

(* The copy is counted.  With merges stopped a wrong count is an error;    *)
(* else progress is saved and the next pass decides.                       *)
(* Mutant: the block after the last one is recorded.                       *)
CopySave_NextBlock ==
    /\ pc = "save"
    /\ prog' = [max |-> HighestBlock(names) + 1, rows |-> Count(work)]
    /\ pc' = "passed"
    /\ UNCHANGED <<tables, work, staging, intent, where, state, stopped, stable, seen, names, stage,
                   abandoned, deletes, faults>>
CopySave ==
    /\ pc = "save"
    /\ LET fresh == Cardinality(RowsOf(names))
           before == IF names = seen THEN 0 ELSE prog.rows IN
       IF stable /\ Count(work) # before + fresh
       THEN pc' = "idle" /\ stopped' = FALSE /\ UNCHANGED prog
       ELSE /\ prog' = [max |-> HighestBlock(names), rows |-> Count(work)]
            /\ pc' = "passed" /\ UNCHANGED stopped
    /\ UNCHANGED <<tables, work, staging, intent, where, state, stable, seen, names, stage, abandoned,
                   deletes, faults>>

(* After a pass: another one, with merges running or stopped ...           *)
(* Mutant: merges are never stopped.                                       *)
NextPass_NeverStable ==
    /\ pc = "passed"
    /\ pc' = "plan" /\ seen' = parts
    /\ UNCHANGED <<tables, work, staging, saved, stopped, stable, names, stage, abandoned, deletes, faults>>
NextPass ==
    /\ pc = "passed"
    /\ pc' = "plan" /\ seen' = parts
    /\ stable' \in {stable, TRUE} /\ stopped' = stable'
    /\ UNCHANGED <<tables, work, staging, saved, names, stage, abandoned, deletes, faults>>

(* ... or, when _ready_for_exchange holds, the exchange.  Rows inserted    *)
(* since the pass are left to the delta passes.                            *)
Exchange ==
    /\ pc = "passed" /\ stable
    /\ Plan(parts, prog) # "full"
    /\ where' = "work"
    /\ pc' = "rename"
    /\ UNCHANGED <<tables, work, staging, prog, intent, state, stopped, stable, seen, names, stage,
                   abandoned, deletes, faults>>

-----------------------------------------------------------------------------
(* After the exchange (_finish, copy_delta, verify_old).                   *)

(* The renaming, by the run that exchanged or by the next one.             *)
Rename ==
    /\ pc = "rename" \/ (pc = "idle" /\ where = "work")
    /\ where' = "old" /\ state' = "exchanged"
    /\ pc' = "delta" /\ stage' = "first" /\ stopped' = TRUE
    /\ UNCHANGED <<tables, work, staging, prog, intent, stable, seen, names, abandoned, deletes, faults>>

(* A later run: the delta passes again, or the last one after the grace    *)
(* period.                                                                 *)
StartFinish ==
    /\ pc = "idle" /\ where = "old" /\ state \in {"exchanged", "delta_done"}
    /\ stopped' = TRUE /\ pc' = "delta"
    /\ stage' = IF state = "delta_done" THEN "last" ELSE "first"
    /\ UNCHANGED <<tables, work, staging, saved, stable, seen, names, abandoned, deletes, faults>>

(* A run that finds nothing to do: done, or left to a person.              *)
NothingToDo == pc = "idle" /\ state \in {"done", "attention"} /\ UNCHANGED vars

(* An intent left by a run that died is finished: moved if it is still     *)
(* staged, else only recorded.                                             *)
FinishIntent ==
    /\ pc = "delta" /\ intent # None
    /\ work' = [r \in Rows |-> work[r] + staging[r]] /\ staging' = Zero
    /\ prog' = intent /\ intent' = None
    /\ UNCHANGED <<tables, where, state, stopped, pc, stable, seen, names, stage, abandoned, deletes, faults>>

Attention ==
    /\ pc' = "idle" /\ state' = "attention"

(* Late parts are listed; staging leftovers without an intent are dropped. *)
DeltaList ==
    /\ pc = "delta" /\ intent = None
    /\ IF Straddles(parts, prog)
       THEN Attention /\ UNCHANGED <<seen, names, staging>>
       ELSE /\ seen' = parts /\ names' = NewParts(parts, prog)
            /\ IF names' = {} THEN pc' = "verify" /\ UNCHANGED staging
                              ELSE pc' = "insert" /\ staging' = Zero
            /\ UNCHANGED state
    /\ UNCHANGED <<tables, work, prog, intent, where, stopped, stable, stage, abandoned, deletes, faults>>

DeltaInsert ==
    /\ pc = "insert" /\ Exchanged
    /\ abandoned' = {}
    /\ staging' = Plus(staging, RowsOf(Active(names)))
    /\ pc' = "intent"
    /\ UNCHANGED <<tables, work, saved, stopped, stable, seen, names, stage, deletes, faults>>

(* Mutant: no intent is recorded.                                          *)
SaveIntent_None ==
    /\ pc = "intent"
    /\ pc' = "move"
    /\ UNCHANGED <<tables, work, staging, saved, stopped, stable, seen, names, stage, abandoned, deletes, faults>>
SaveIntent ==
    /\ pc = "intent"
    /\ intent' = [max |-> HighestBlock(seen), rows |-> prog.rows + Count(staging)]
    /\ pc' = "move"
    /\ UNCHANGED <<tables, work, staging, prog, where, state, stopped, stable, seen, names, stage, abandoned,
                   deletes, faults>>
Move ==
    /\ pc = "move"
    /\ work' = [r \in Rows |-> work[r] + staging[r]] /\ staging' = Zero
    /\ pc' = "record"
    /\ UNCHANGED <<tables, saved, stopped, stable, seen, names, stage, abandoned, deletes, faults>>
Record ==
    /\ pc = "record"
    /\ prog' = [max |-> HighestBlock(seen),
                rows |-> IF intent = None THEN prog.rows ELSE intent.rows]
    /\ pc' = "clear"
    /\ UNCHANGED <<tables, work, staging, intent, where, state, stopped, stable, seen, names, stage, abandoned,
                   deletes, faults>>
ClearIntent ==
    /\ pc = "clear"
    /\ intent' = None /\ pc' = "verify"
    /\ UNCHANGED <<tables, work, staging, prog, where, state, stopped, stable, seen, names, stage, abandoned,
                   deletes, faults>>

(* Another pass: the first time there are several over 45 seconds, longer  *)
(* than an insert may take.                                                *)
AnotherDelta ==
    /\ pc = "verify" /\ stage = "first" /\ flight # {}
    /\ pc' = "delta"
    /\ UNCHANGED <<tables, work, staging, saved, stopped, stable, seen, names, stage, abandoned, deletes, faults>>

(* verify_old: then the grace period, or the old table goes.               *)
(* Mutant: the old table goes without it.                                  *)
Verify_Skipped ==
    /\ pc = "verify" /\ flight = {}
    /\ pc' = "idle"
    /\ IF stage = "first" THEN state' = "delta_done" /\ UNCHANGED <<where, parts>>
       ELSE state' = "done" /\ where' = "dropped" /\ parts' = {}
    /\ UNCHANGED <<next, flight, truth, odd, work, staging, prog, intent, stopped, stable, seen, names,
                   stage, abandoned, deletes, faults>>
Verify ==
    /\ pc = "verify" /\ flight = {}
    /\ IF \/ Straddles(parts, prog) \/ NewParts(parts, prog) # {}
          \/ Cardinality(RowsOf(parts)) > prog.rows
       THEN Attention /\ UNCHANGED <<where, parts>>
       ELSE /\ pc' = "idle"
            /\ IF stage = "first" THEN state' = "delta_done" /\ UNCHANGED <<where, parts>>
               ELSE state' = "done" /\ where' = "dropped" /\ parts' = {}
    /\ UNCHANGED <<next, flight, truth, odd, work, staging, prog, intent, stopped, stable, seen, names,
                   stage, abandoned, deletes, faults>>

-----------------------------------------------------------------------------
(* A run ends early: budget, postponed cutover, refusal and error, which   *)
(* start merges again before the exchange, or the process dies.  An insert *)
(* under way may go on in the server.                                      *)
Stops ==
    /\ Fault /\ pc # "idle"
    /\ pc' = "idle"
    /\ stopped' \in {stopped, stopped /\ Exchanged}
    /\ abandoned' = IF /\ pc = "insert"
                       /\ (IF Exchanged THEN "staging" ELSE "work") \in LateCopies
                    THEN RowsOf(Active(names)) ELSE abandoned
    /\ UNCHANGED <<tables, work, staging, saved, stable, seen, names, stage, deletes>>

Init ==
    /\ parts = {} /\ next = 0 /\ flight = {} /\ truth = {} /\ odd = {}
    /\ work = Zero /\ staging = Zero
    /\ prog = None /\ intent = None /\ where = "live" /\ state = ""
    /\ stopped = FALSE /\ pc = "idle" /\ stable = FALSE
    /\ seen = {} /\ names = {} /\ stage = "first" /\ abandoned = {}
    /\ deletes = 0 /\ faults = 0

Job ==
    \/ StartCopy \/ Decide \/ CopyInsert \/ CopySave \/ NextPass \/ Exchange
    \/ Rename \/ StartFinish \/ FinishIntent \/ DeltaList \/ DeltaInsert \/ SaveIntent
    \/ Move \/ Record \/ ClearIntent \/ AnotherDelta \/ Verify
Next ==
    \/ Job \/ Stops \/ NothingToDo
    \/ \E r \in Rows : InsertBegin(r) \/ InsertCommit(r) \/ Delete(r)
    \/ \E p, q \in parts : Merge(p, q)
    \/ AbandonedCopy \/ ServerRestart

Spec == Init /\ [][Next]_vars
(* The job runs every hour, inserts commit, a pass follows a pass until    *)
(* the exchange is possible, which is tried again and again.               *)
Fairness ==
    /\ WF_vars(Job) /\ SF_vars(Exchange) /\ SF_vars(NextPass /\ stable')
    /\ \A r \in Rows : WF_vars(InsertCommit(r))
FairSpec == Spec /\ Fairness

-----------------------------------------------------------------------------
(* Properties.                                                             *)

Part == [lo : 1..N, hi : 1..N, rows : SUBSET Rows]
Progress == [max : 0..N, rows : 0..(3 * N)]
TypeOK ==
    /\ parts \subseteq Part /\ seen \subseteq Part /\ names \subseteq Part
    /\ flight \subseteq Rows /\ truth \subseteq Rows /\ abandoned \subseteq Rows
    /\ work \in [Rows -> 0..3] /\ staging \in [Rows -> 0..3]
    /\ prog \in Progress /\ intent \in Progress
    /\ where \in {"live", "work", "old", "dropped"}
    /\ state \in {"", "exchanged", "delta_done", "attention", "done"}

(* From the exchange on no row is in the live table twice, wherever runs   *)
(* were cut short and copies went on without them (copy_delta: "a retry    *)
(* ... neither loses nor duplicates rows").                                *)
NoDuplicate == Exchanged => \A r \in Rows : work[r] <= 1

(* Nor is one lost: once a run reports the rebuild complete, the live      *)
(* table has every row that was written and not deleted, and the old table *)
(* is only dropped then.                                                   *)
Complete ==
    state \in {"delta_done", "done"} /\ pc = "idle" => \A r \in Rows : (work[r] > 0) <=> (r \in truth)

(* The rebuild comes to an end although its runs are cut short.            *)
Ends == <>(state \in {"done", "attention"})
=============================================================================
