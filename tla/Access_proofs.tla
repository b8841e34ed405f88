--------------------------- MODULE Access_proofs ---------------------------
(***************************************************************************)
(* What holds of the components around people for every size of their      *)
(* constants: after a restore everyone can sign in and every secret opens; *)
(* a silent watch over backups means a backup in time; every tenant keeps  *)
(* an admin and no session outlives its password; a licence is decided by  *)
(* what was in force; nothing goes to an AI provider that no admin chose;  *)
(* and rules and notifications announce what they promise.  Each component *)
(* has its inductive invariant; the specification of MCAccess moves one of *)
(* them at a time.                                                         *)
(***************************************************************************)
EXTENDS MCAccess, Sequences, FiniteSetTheorems, WellFoundedInduction, TLAPS

(* A set of numbers has a least one ...                                    *)
LEMMA LeastNat ==
    ASSUME NEW T \in SUBSET Nat, T # {}
    PROVE  \E m \in T : \A k \in T : m <= k
<1>1. PICK x \in T : \A y \in T : ~(<<y, x>> \in OpToRel(<, Nat))
  BY NatLessThanWellFounded, WFMin, Zenon
<1>2. \A y \in T : ~(y < x)
  BY <1>1 DEF OpToRel
<1> QED BY <1>2

(* ... and, up to a bound, a greatest one.                                 *)
LEMMA GreatestBelow ==
    ASSUME NEW n \in Nat, NEW T \in SUBSET (0..n), T # {}
    PROVE  \E g \in T : \A h \in T : h <= g
<1> DEFINE far == {n - k : k \in T}
<1>1. far \in SUBSET Nat /\ far # {}
  <2>1. \A k \in T : n - k \in Nat
    OBVIOUS
  <2> QED BY <2>1
<1>2. PICK m \in far : \A k \in far : m <= k
  BY <1>1, LeastNat
<1>3. PICK j \in T : m = n - j
  BY <1>2
<1>4. \A i \in T : i <= j
  <2> TAKE i \in T
  <2>1. n - i \in far
    OBVIOUS
  <2>2. m <= n - i
    BY <1>2, <2>1
  <2>3. i \in 0..n /\ j \in 0..n
    BY <1>3
  <2> QED BY <1>3, <2>2, <2>3
<1> QED BY <1>3, <1>4

-----------------------------------------------------------------------------
(***************************************************************************)
(* Backups.  A set of tables is whole when every secret in it has its key  *)
(* in it too, or is under the key of the installation, or its key is one   *)
(* an export may lack.  The database, the export under way, every file     *)
(* that was kept and the file that is being restored are whole, and an     *)
(* export that has passed the keys lacks none it has not been told of.     *)
(***************************************************************************)
Key == [tenant : Customers, key : Nat]
TableSet == [users : SUBSET BackupUsers, members : SUBSET BackupUsers, keys : SUBSET Key, secrets : SUBSET Key]
ExportRec == [at : 0..4, tables : TableSet]
RestoreRec == [step : {"idle", "tables", "members", "secrets"}, file : TableSet \cup {BK!Old}]
NotAfter(ks) == \A k \in ks : k.key <= used
Whole(t) == \A s \in t.secrets : s.key = 0 \/ s \in t.keys \/ s \in behind
File(f) ==
    \/ f \in TableSet /\ Whole(f) /\ NotAfter(f.keys) /\ NotAfter(f.secrets)
    \/ f = BK!Old

BackupTypes ==
    /\ db \in TableSet
    /\ export \in ExportRec
    /\ restore \in RestoreRec
    /\ behind \in SUBSET Key /\ halted \in BOOLEAN /\ used \in Nat /\ steps \in 0..MaxSteps
Counted ==
    /\ NotAfter(db.keys) /\ NotAfter(db.secrets) /\ NotAfter(behind)
    /\ NotAfter(export.tables.keys) /\ NotAfter(export.tables.secrets)
KeysPassed == export.at = 4 => db.keys \subseteq export.tables.keys \cup behind
NoSecretsYet == export.tables.secrets = {}
Signed ==
    /\ restore.step \in {"members", "secrets"} => halted
    /\ restore.step = "secrets" \/ ~halted => db.users \subseteq db.members
BackupInv == BackupTypes /\ Whole(db) /\ (\A f \in files : File(f)) /\ File(restore.file) /\ Counted /\ KeysPassed /\ NoSecretsYet /\ Signed

LEMMA EmptySet == BK!Empty \in TableSet /\ Whole(BK!Empty) /\ NotAfter({}) /\ File(BK!Empty)
<1>1. BK!Empty \in TableSet
  BY DEF BK!Empty, TableSet
<1>2. BK!Empty.keys = {} /\ BK!Empty.secrets = {} /\ BK!Empty.users = {} /\ BK!Empty.members = {}
  BY DEF BK!Empty
<1> QED BY <1>1, <1>2 DEF Whole, NotAfter, File

LEMMA BackupStart == ASSUME BK!BackupAssumption PROVE BK!BackupInit => BackupInv
<1> SUFFICES ASSUME BK!BackupInit PROVE BackupInv
  OBVIOUS
<1>0. db = BK!Empty /\ export = [at |-> 0, tables |-> BK!Empty] /\ restore = [step |-> "idle", file |-> BK!Empty]
      /\ behind = {} /\ halted = FALSE /\ used = 0 /\ steps = 0 /\ files \in {{}, {BK!Old}}
  BY DEF BK!BackupInit, BK!Idle
<1>1. BK!Empty.keys = {} /\ BK!Empty.secrets = {} /\ BK!Empty.users = {} /\ BK!Empty.members = {}
  BY DEF BK!Empty
<1>2. BackupTypes
  <2>1. export.at = 0 /\ export.tables = BK!Empty /\ restore.step = "idle" /\ restore.file = BK!Empty
    BY <1>0
  <2>2. export \in ExportRec
    BY <1>0, EmptySet DEF ExportRec
  <2>3. restore \in RestoreRec
    BY <1>0, EmptySet DEF RestoreRec
  <2>4. halted \in BOOLEAN
    BY <1>0
  <2> QED BY <1>0, <2>1, <2>2, <2>3, <2>4, EmptySet DEF BackupTypes, BK!BackupAssumption
<1>3. Counted /\ KeysPassed /\ NoSecretsYet /\ Signed
  BY <1>0, <1>1 DEF Counted, KeysPassed, NoSecretsYet, Signed, NotAfter
<1>4. \A f \in files : File(f)
  BY <1>0 DEF File
<1>5. File(restore.file) /\ Whole(db)
  BY <1>0, EmptySet
<1> QED BY <1>2, <1>3, <1>4, <1>5 DEF BackupInv

(* What was whole stays whole while keys are added.                        *)
LEMMA FilesStay ==
    ASSUME BackupInv, behind \subseteq behind', used' \in Nat, used <= used'
    PROVE  \A f : File(f) => File(f)'
<1> SUFFICES ASSUME NEW f, File(f) PROVE File(f)'
  OBVIOUS
<1>0. used \in Nat
  BY DEF BackupInv, BackupTypes
<1>1. CASE f = BK!Old
  BY <1>1 DEF File, BK!Old
<1>2. CASE f \in TableSet /\ Whole(f) /\ NotAfter(f.keys) /\ NotAfter(f.secrets)
  <2>1. f.keys \in SUBSET Key /\ f.secrets \in SUBSET Key
    BY <1>2 DEF TableSet
  <2>2. \A k \in f.keys \cup f.secrets : k.key \in Nat
    BY <2>1 DEF Key
  <2>3. NotAfter(f.keys)' /\ NotAfter(f.secrets)'
    BY <1>0, <1>2, <2>2 DEF NotAfter
  <2>4. Whole(f)'
    BY <1>2 DEF Whole
  <2> QED BY <1>2, <2>3, <2>4 DEF File, TableSet, Key
<1> QED BY <1>1, <1>2 DEF File

LEMMA UserStep ==
    ASSUME BK!BackupAssumption, BackupInv, NEW u \in BackupUsers, BK!AddUser(u)
    PROVE  BackupInv'
<1> USE DEF BackupInv
<1>1. /\ db' = [db EXCEPT !.users = @ \cup {u}, !.members = @ \cup {u}] /\ steps < MaxSteps /\ steps' = steps + 1
      /\ UNCHANGED <<files, export, restore, behind, halted, used>>
  BY DEF BK!AddUser, BK!Bounded
<1>2. db' \in TableSet /\ db'.users = db.users \cup {u} /\ db'.members = db.members \cup {u}
      /\ db'.keys = db.keys /\ db'.secrets = db.secrets
  BY <1>1 DEF BackupTypes, TableSet
<1>3. BackupTypes'
  BY <1>1, <1>2 DEF BackupTypes, BK!BackupAssumption, TableSet, Key
<1>4. Whole(db)' /\ Counted' /\ KeysPassed' /\ NoSecretsYet' /\ Signed'
  BY <1>1, <1>2 DEF Whole, Counted, KeysPassed, NoSecretsYet, Signed, NotAfter
<1>5. (\A f \in files : File(f))' /\ File(restore.file)'
  BY <1>1, FilesStay DEF BackupTypes
<1> QED BY <1>3, <1>4, <1>5

LEMMA RotateStep ==
    ASSUME BK!BackupAssumption, BackupInv, NEW t \in Customers, BK!Rotate(t)
    PROVE  BackupInv'
<1> USE DEF BackupInv
<1> DEFINE k == [tenant |-> t, key |-> used + 1]
<1>1. /\ db' = [db EXCEPT !.keys = @ \cup {k}, !.secrets = {s \in @ : s.tenant # t} \cup {k}]
      /\ steps < MaxSteps /\ steps' = steps + 1 /\ used' = used + 1
      /\ behind' = IF export.at > 3 THEN behind \cup {k} ELSE behind
      /\ UNCHANGED <<files, export, restore, halted>>
  BY DEF BK!Rotate, BK!Bounded, BK!Late
<1>2. k \in Key /\ k.key = used + 1 /\ used \in Nat
  BY DEF BackupTypes, Key
<1> HIDE DEF k
<1>3. db' \in TableSet /\ db'.users = db.users /\ db'.members = db.members
      /\ db'.keys = db.keys \cup {k} /\ db'.secrets = {s \in db.secrets : s.tenant # t} \cup {k}
  BY <1>1, <1>2 DEF BackupTypes, TableSet
<1>4. BackupTypes'
  <2>1. behind' \in SUBSET Key
    BY <1>1, <1>2 DEF BackupTypes
  <2>2. halted' \in BOOLEAN /\ used' \in Nat /\ steps' \in 0..MaxSteps
    BY <1>1 DEF BackupTypes, BK!BackupAssumption
  <2>3. (export \in ExportRec)' /\ (restore \in RestoreRec)'
    BY <1>1 DEF BackupTypes
  <2> QED BY <1>3, <2>1, <2>2, <2>3 DEF BackupTypes, TableSet, Key
<1>5. Whole(db)' /\ KeysPassed' /\ NoSecretsYet' /\ Signed'
  <2>1. Whole(db)'
    BY <1>1, <1>3 DEF Whole
  <2>2. KeysPassed'
    BY <1>1, <1>3 DEF KeysPassed
  <2> QED BY <1>1, <1>3, <2>1, <2>2 DEF NoSecretsYet, Signed
<1>6. Counted'
  <2>1. \A x \in db.keys \cup db.secrets \cup behind \cup export.tables.keys \cup export.tables.secrets : x.key \in Nat
    BY DEF BackupTypes, TableSet, Key, ExportRec
  <2> QED BY <1>1, <1>2, <1>3, <2>1 DEF Counted, NotAfter
<1>7. (\A f \in files : File(f))' /\ File(restore.file)'
  BY <1>1, <1>2, FilesStay
<1> QED BY <1>4, <1>5, <1>6, <1>7

LEMMA StartExportStep ==
    ASSUME BK!BackupAssumption, BackupInv, BK!StartExport
    PROVE  BackupInv'
<1> USE DEF BackupInv
<1>1. /\ export' = [at |-> 1, tables |-> BK!Empty] /\ steps < MaxSteps /\ steps' = steps + 1
      /\ UNCHANGED <<db, files, restore, behind, halted, used>>
  BY DEF BK!StartExport, BK!Bounded
<1>2. BK!Empty.keys = {} /\ BK!Empty.secrets = {}
  BY DEF BK!Empty
<1>3. export'.at = 1 /\ export'.tables.keys = {} /\ export'.tables.secrets = {} /\ export' \in ExportRec
  BY <1>1, <1>2, EmptySet DEF ExportRec
<1>4. BackupTypes'
  BY <1>1, <1>3 DEF BackupTypes, BK!BackupAssumption
<1>5. Whole(db)' /\ KeysPassed' /\ NoSecretsYet' /\ Signed' /\ Counted'
  BY <1>1, <1>3 DEF Whole, KeysPassed, NoSecretsYet, Signed, Counted, NotAfter
<1>6. (\A f \in files : File(f))' /\ File(restore.file)'
  BY <1>1, FilesStay DEF BackupTypes
<1> QED BY <1>4, <1>5, <1>6

(* A table goes into the export, with its rows or without.                 *)
LEMMA ExportedStep ==
    ASSUME BK!BackupAssumption, BackupInv, export.at > 0, NEW rows_, BK!Exported(rows_),
           \/ rows_ = db[BK!EXPORT_TABLES[export.at]] /\ behind' = behind
           \/ rows_ = {} /\ behind' = (IF export.at = 3 THEN behind \cup db.keys ELSE behind),
           steps' \in 0..MaxSteps, UNCHANGED <<db, restore, halted, used>>
    PROVE  BackupInv'
<1> USE DEF BackupInv
<1>1. export.at \in 1..4 /\ export \in ExportRec /\ export.tables \in TableSet /\ db \in TableSet /\ used \in Nat
  BY DEF BackupTypes, ExportRec
<1>2. Len(BK!EXPORT_TABLES) = 4
      /\ BK!EXPORT_TABLES[1] = "users" /\ BK!EXPORT_TABLES[2] = "members" /\ BK!EXPORT_TABLES[3] = "keys" /\ BK!EXPORT_TABLES[4] = "secrets"
  BY DEF BK!EXPORT_TABLES
<1>3. behind \subseteq behind' /\ behind' \in SUBSET Key
  BY <1>1 DEF BackupTypes, TableSet
<1>4. (\A f \in files : File(f)') /\ File(restore.file)'
  BY <1>1, <1>3, FilesStay
<1>5. Whole(db)' /\ Signed'
  BY <1>3 DEF Whole, Signed
<1> DEFINE got == [export.tables EXCEPT ![BK!EXPORT_TABLES[export.at]] = rows_]
<1>6. CASE export.at = 1
  <2>1. export' = [at |-> 2, tables |-> got] /\ files' = files /\ behind' = behind
    BY <1>1, <1>2, <1>6 DEF BK!Exported
  <2>2. rows_ \in SUBSET BackupUsers
    BY <1>1, <1>2, <1>6 DEF TableSet
  <2>3. got \in TableSet /\ got.keys = export.tables.keys /\ got.secrets = export.tables.secrets
    BY <1>1, <1>2, <1>6, <2>2 DEF TableSet
  <2> HIDE DEF got
  <2>4. export' \in ExportRec /\ export'.at = 2 /\ export'.tables = got
    BY <2>1, <2>3 DEF ExportRec
  <2>5. BackupTypes'
    BY <1>3, <2>4 DEF BackupTypes
  <2>6. Counted' /\ KeysPassed' /\ NoSecretsYet'
    BY <2>1, <2>3, <2>4 DEF Counted, KeysPassed, NoSecretsYet, NotAfter
  <2> QED BY <1>4, <1>5, <2>1, <2>5, <2>6
<1>7. CASE export.at = 2
  <2>1. export' = [at |-> 3, tables |-> got] /\ files' = files /\ behind' = behind
    BY <1>1, <1>2, <1>7 DEF BK!Exported
  <2>2. rows_ \in SUBSET BackupUsers
    BY <1>1, <1>2, <1>7 DEF TableSet
  <2>3. got \in TableSet /\ got.keys = export.tables.keys /\ got.secrets = export.tables.secrets
    BY <1>1, <1>2, <1>7, <2>2 DEF TableSet
  <2> HIDE DEF got
  <2>4. export' \in ExportRec /\ export'.at = 3 /\ export'.tables = got
    BY <2>1, <2>3 DEF ExportRec
  <2>5. BackupTypes'
    BY <1>3, <2>4 DEF BackupTypes
  <2>6. Counted' /\ KeysPassed' /\ NoSecretsYet'
    BY <2>1, <2>3, <2>4 DEF Counted, KeysPassed, NoSecretsYet, NotAfter
  <2> QED BY <1>4, <1>5, <2>1, <2>5, <2>6
<1>8. CASE export.at = 3
  <2>1. export' = [at |-> 4, tables |-> got] /\ files' = files
    BY <1>1, <1>2, <1>8 DEF BK!Exported
  <2>2. rows_ \in SUBSET Key /\ ((rows_ = db.keys /\ behind' = behind) \/ (rows_ = {} /\ behind' = behind \cup db.keys))
    BY <1>1, <1>2, <1>8 DEF TableSet
  <2>3. got \in TableSet /\ got.keys = rows_ /\ got.secrets = export.tables.secrets
    BY <1>1, <1>2, <1>8, <2>2 DEF TableSet
  <2> HIDE DEF got
  <2>4. export' \in ExportRec /\ export'.at = 4 /\ export'.tables = got
    BY <2>1, <2>3 DEF ExportRec
  <2>5. BackupTypes'
    BY <1>3, <2>4 DEF BackupTypes
  <2>6. Counted' /\ KeysPassed' /\ NoSecretsYet'
    BY <2>1, <2>2, <2>3, <2>4 DEF Counted, KeysPassed, NoSecretsYet, NotAfter
  <2> QED BY <1>4, <1>5, <2>1, <2>5, <2>6
<1>9. CASE export.at = 4
  <2>1. export' = [at |-> 0, tables |-> BK!Empty] /\ files' = (files \cap {BK!Old}) \cup {got} /\ behind' = behind
    BY <1>1, <1>2, <1>9 DEF BK!Exported
  <2>2. rows_ = db.secrets \/ rows_ = {}
    BY <1>1, <1>2, <1>9
  <2>3. got \in TableSet /\ got.keys = export.tables.keys /\ got.secrets = rows_
    BY <1>1, <1>2, <1>9, <2>2 DEF TableSet
  <2> HIDE DEF got
  <2>4. BK!Empty.keys = {} /\ BK!Empty.secrets = {}
    BY DEF BK!Empty
  <2>5. export' \in ExportRec /\ export'.at = 0 /\ export'.tables = BK!Empty
    BY <2>1, EmptySet DEF ExportRec
  <2>6. BackupTypes'
    BY <1>3, <2>5 DEF BackupTypes
  <2>7. Counted' /\ KeysPassed' /\ NoSecretsYet'
    BY <2>1, <2>4, <2>5 DEF Counted, KeysPassed, NoSecretsYet, NotAfter
  <2>8. Whole(got)
    BY <1>9, <2>2, <2>3 DEF Whole, KeysPassed
  <2>9. NotAfter(got.keys) /\ NotAfter(got.secrets)
    BY <2>2, <2>3 DEF NotAfter, Counted
  <2>10. File(got)
    BY <2>3, <2>8, <2>9 DEF File
  <2>11. \A f \in files' : File(f)
    BY <2>1, <2>10
  <2>12. (\A f \in files : File(f))'
    BY <1>1, <1>3, <2>11, FilesStay
  <2> QED BY <1>4, <1>5, <2>6, <2>7, <2>12
<1> QED BY <1>1, <1>6, <1>7, <1>8, <1>9

LEMMA ReadStep == ASSUME BK!BackupAssumption, BackupInv, BK!ReadTable PROVE BackupInv'
<1>1. /\ export.at > 0 /\ BK!Exported(db[BK!EXPORT_TABLES[export.at]])
      /\ UNCHANGED <<db, restore, behind, halted, used, steps>>
  BY DEF BK!ReadTable
<1>2. steps' \in 0..MaxSteps
  BY <1>1 DEF BackupInv, BackupTypes
<1> QED BY <1>1, <1>2, ExportedStep

LEMMA SkipStep == ASSUME BK!BackupAssumption, BackupInv, BK!SkipTable PROVE BackupInv'
<1>1. /\ export.at > 0 /\ BK!Exported({}) /\ steps < MaxSteps /\ steps' = steps + 1
      /\ behind' = IF export.at = 3 THEN behind \cup db.keys ELSE behind
      /\ UNCHANGED <<db, restore, halted, used>>
  BY DEF BK!SkipTable, BK!Bounded
<1>2. steps' \in 0..MaxSteps
  BY <1>1 DEF BackupInv, BackupTypes, BK!BackupAssumption
<1> QED BY <1>1, <1>2, ExportedStep

LEMMA OpenStep ==
    ASSUME BK!BackupAssumption, BackupInv, NEW f \in files, BK!Open(f) PROVE BackupInv'
<1> USE DEF BackupInv
<1>1. /\ restore' = [step |-> "tables", file |-> f] /\ steps < MaxSteps /\ steps' = steps + 1 /\ restore.step = "idle"
      /\ UNCHANGED <<db, files, export, behind, halted, used>>
  BY DEF BK!Open, BK!Bounded
<1>2. File(f) /\ restore'.step = "tables" /\ restore'.file = f /\ restore' \in RestoreRec
  BY <1>1 DEF File, RestoreRec
<1>3. BackupTypes'
  BY <1>1, <1>2 DEF BackupTypes, BK!BackupAssumption
<1>4. Whole(db)' /\ KeysPassed' /\ NoSecretsYet' /\ Signed' /\ Counted'
  BY <1>1, <1>2 DEF Whole, KeysPassed, NoSecretsYet, Signed, Counted, NotAfter
<1>5. (\A g \in files : File(g))' /\ File(restore.file)'
  BY <1>1, <1>2, FilesStay DEF BackupTypes
<1> QED BY <1>3, <1>4, <1>5

(* The tables of the file replace those of the database.                   *)
LEMMA RestoredFacts ==
    ASSUME BackupInv, NEW f, File(f)
    PROVE  /\ BK!Restored(f) \in TableSet /\ Whole(BK!Restored(f))
           /\ NotAfter(BK!Restored(f).keys) /\ NotAfter(BK!Restored(f).secrets)
<1> USE DEF BackupInv
<1>0. db \in TableSet /\ DOMAIN db = {"users", "members", "keys", "secrets"} /\ used \in Nat
  BY DEF BackupTypes, TableSet
<1> DEFINE r == BK!Restored(f)
<1>1. r = [t \in {"users", "members", "keys", "secrets"} |->
             IF t \in DOMAIN f THEN f[t] ELSE IF t = "members" THEN {} ELSE db[t]]
  BY <1>0 DEF BK!Restored
<1>2. CASE f \in TableSet /\ Whole(f) /\ NotAfter(f.keys) /\ NotAfter(f.secrets)
  <2>1. DOMAIN f = {"users", "members", "keys", "secrets"}
    BY <1>2 DEF TableSet
  <2>2. r.users = f.users /\ r.members = f.members /\ r.keys = f.keys /\ r.secrets = f.secrets
    BY <1>1, <2>1
  <2>3. r \in TableSet
    <3>1. f.users \in SUBSET BackupUsers /\ f.members \in SUBSET BackupUsers /\ f.keys \in SUBSET Key /\ f.secrets \in SUBSET Key
      BY <1>2 DEF TableSet
    <3>2. r = [users |-> f.users, members |-> f.members, keys |-> f.keys, secrets |-> f.secrets]
      BY <1>1, <2>1
    <3> QED BY <3>1, <3>2 DEF TableSet
  <2> QED BY <1>2, <2>2, <2>3 DEF Whole
<1>3. CASE f = BK!Old
  <2>1. DOMAIN f = {"users", "secrets"} /\ f.users = BackupUsers /\ f.secrets = {[tenant |-> t, key |-> 0] : t \in Customers}
    BY <1>3 DEF BK!Old, BK!Install
  <2>2. r.users = f.users /\ r.members = {} /\ r.keys = db.keys /\ r.secrets = f.secrets
    BY <1>1, <2>1
  <2>3. \A s \in f.secrets : s \in Key /\ s.key = 0
    BY <2>1 DEF Key
  <2>4. r = [users |-> f.users, members |-> {}, keys |-> db.keys, secrets |-> f.secrets]
    BY <1>1, <2>1
  <2>5. db.keys \in SUBSET Key
    BY <1>0 DEF TableSet
  <2>6. r \in TableSet
    BY <2>1, <2>3, <2>4, <2>5 DEF TableSet
  <2>7. NotAfter(r.secrets)
    BY <1>0, <2>2, <2>3 DEF NotAfter
  <2>8. NotAfter(r.keys)
    BY <2>2 DEF Counted, NotAfter
  <2>9. Whole(r)
    BY <2>2, <2>3 DEF Whole
  <2> QED BY <2>6, <2>7, <2>8, <2>9
<1> QED BY <1>2, <1>3 DEF File

LEMMA TablesStep == ASSUME BK!BackupAssumption, BackupInv, BK!RestoreTables PROVE BackupInv'
<1> USE DEF BackupInv
<1>1. /\ restore.step = "tables" /\ db' = BK!Restored(restore.file)
      /\ restore' = [restore EXCEPT !.step = "members"] /\ halted' = TRUE
      /\ behind' = (IF export.at > 3 THEN behind \cup db'.keys ELSE behind)
      /\ UNCHANGED <<files, export, used, steps>>
  BY DEF BK!RestoreTables, BK!Late
<1>2. /\ db' \in TableSet /\ Whole(db') /\ NotAfter(db'.keys) /\ NotAfter(db'.secrets)
  BY <1>1, RestoredFacts
<1>3. restore' \in RestoreRec /\ restore'.step = "members" /\ restore'.file = restore.file
  BY <1>1 DEF BackupTypes, RestoreRec
<1>4. behind \subseteq behind' /\ behind' \in SUBSET Key /\ used \in Nat
  BY <1>1, <1>2 DEF BackupTypes, TableSet
<1>5. BackupTypes'
  BY <1>1, <1>2, <1>3, <1>4 DEF BackupTypes
<1>6. Whole(db)' /\ NoSecretsYet'
  BY <1>1, <1>2, <1>4 DEF Whole, NoSecretsYet
<1>7. Signed'
  BY <1>1, <1>3 DEF Signed
<1>8. Counted' /\ KeysPassed'
  <2>1. KeysPassed'
    BY <1>1 DEF KeysPassed
  <2> QED BY <1>1, <1>2, <2>1 DEF Counted, NotAfter
<1>9. (\A g \in files : File(g))' /\ File(restore.file)'
  BY <1>1, <1>3, <1>4, FilesStay
<1> QED BY <1>5, <1>6, <1>7, <1>8, <1>9

LEMMA RestoreFailsStep == ASSUME BK!BackupAssumption, BackupInv, BK!RestoreFails PROVE BackupInv'
<1> USE DEF BackupInv
<1>1. /\ restore' = [step |-> "idle", file |-> BK!Empty] /\ steps < MaxSteps /\ steps' = steps + 1
      /\ UNCHANGED <<db, files, export, behind, halted, used>> /\ restore.step = "tables"
  BY DEF BK!RestoreFails, BK!Bounded, BK!Idle
<1>2. File(restore'.file) /\ restore'.step = "idle" /\ restore' \in RestoreRec
  BY <1>1, EmptySet DEF RestoreRec
<1>3. BackupTypes'
  BY <1>1, <1>2 DEF BackupTypes, BK!BackupAssumption
<1>4. Whole(db)' /\ KeysPassed' /\ NoSecretsYet' /\ Signed' /\ Counted'
  BY <1>1, <1>2 DEF Whole, KeysPassed, NoSecretsYet, Signed, Counted, NotAfter
<1>5. (\A g \in files : File(g))' /\ File(restore.file)'
  BY <1>1, <1>2, FilesStay DEF BackupTypes
<1> QED BY <1>3, <1>4, <1>5

LEMMA GrantStep == ASSUME BK!BackupAssumption, BackupInv, BK!GrantMemberships PROVE BackupInv'
<1> USE DEF BackupInv
<1>1. /\ restore.step = "members" /\ db' = [db EXCEPT !.members = db.members \cup db.users]
      /\ restore' = [restore EXCEPT !.step = "secrets"]
      /\ UNCHANGED <<files, export, behind, halted, used, steps>>
  BY DEF BK!GrantMemberships, BK!Granted
<1>2. db' \in TableSet /\ db'.users = db.users /\ db'.members = db.members \cup db.users
      /\ db'.keys = db.keys /\ db'.secrets = db.secrets
  BY <1>1 DEF BackupTypes, TableSet
<1>3. restore' \in RestoreRec /\ restore'.step = "secrets" /\ restore'.file = restore.file
  BY <1>1 DEF BackupTypes, RestoreRec
<1>4. BackupTypes'
  BY <1>1, <1>2, <1>3 DEF BackupTypes
<1>5. Whole(db)' /\ KeysPassed' /\ NoSecretsYet' /\ Counted'
  BY <1>1, <1>2, <1>3 DEF Whole, KeysPassed, NoSecretsYet, Counted, NotAfter
<1>6. Signed'
  BY <1>1, <1>2, <1>3 DEF Signed
<1>7. (\A g \in files : File(g))' /\ File(restore.file)'
  BY <1>1, <1>3, FilesStay DEF BackupTypes
<1> QED BY <1>4, <1>5, <1>6, <1>7

(* Secrets under the key of the installation move to the newest key of     *)
(* their tenant, or to a new one.                                          *)
LEMMA MovedFacts ==
    ASSUME BK!BackupAssumption, BackupInv
    PROVE  /\ BK!Moved \in TableSet /\ BK!Moved.users = db.users /\ BK!Moved.members = db.members
           /\ db.keys \subseteq BK!Moved.keys
           /\ \A s \in BK!Moved.secrets : s \in db.secrets \/ s \in BK!Moved.keys
           /\ \A k \in BK!Moved.keys \cup BK!Moved.secrets : k.key <= used + BK!Cardinality(Existing)
<1> USE DEF BackupInv
<1> DEFINE n == BK!Cardinality(Existing)
           new == {s.tenant : s \in {x \in BK!Legacy : BK!Keys(x.tenant) = {}}}
           fresh == {[tenant |-> t, key |-> used + t] : t \in new}
           key(t) == IF t \in new THEN CHOOSE k \in fresh : k.tenant = t ELSE BK!Newest(t)
<1>1. BK!Moved = [db EXCEPT !.keys = db.keys \cup fresh, !.secrets = (db.secrets \ BK!Legacy) \cup {key(s.tenant) : s \in BK!Legacy}]
  BY DEF BK!Moved
<1>2. n \in Nat /\ Existing = 1..n /\ used \in Nat /\ db \in TableSet /\ db.keys \in SUBSET Key /\ db.secrets \in SUBSET Key
  BY DEF BK!BackupAssumption, BackupTypes, TableSet
<1>3. \A s \in BK!Legacy : s \in db.secrets /\ s.tenant \in 1..n /\ s.tenant \in Customers
  BY <1>2 DEF BK!Legacy, Key
<1>4. \A t \in new : t \in 1..n /\ t \in Customers
  BY <1>3
<1>5. \A k \in fresh : k \in Key /\ k.key <= used + n
  BY <1>2, <1>4 DEF Key
<1>6. \A s \in BK!Legacy : key(s.tenant) \in db.keys \cup fresh
  <2> SUFFICES ASSUME NEW s \in BK!Legacy PROVE key(s.tenant) \in db.keys \cup fresh
    OBVIOUS
  <2>1. CASE s.tenant \in new
    <3>1. [tenant |-> s.tenant, key |-> used + s.tenant] \in fresh
      BY <2>1
    <3>2. \E k \in fresh : k.tenant = s.tenant
      BY <3>1
    <3> QED BY <2>1, <3>2
  <2>2. CASE s.tenant \notin new
    <3>1. BK!Keys(s.tenant) # {}
      BY <2>2
    <3> DEFINE ks == BK!Keys(s.tenant)
               T == {k.key : k \in ks}
    <3>2. ks \subseteq db.keys
      BY DEF BK!Keys
    <3>3. T \in SUBSET (0..used) /\ T # {}
      BY <1>2, <3>1, <3>2 DEF Counted, NotAfter, Key
    <3>4. PICK g \in T : \A h \in T : h <= g
      BY <1>2, <3>3, GreatestBelow
    <3>5. PICK k \in ks : k.key = g
      BY <3>4
    <3>6. \A j \in ks : j.key <= k.key
      BY <3>4, <3>5
    <3>7. BK!Newest(s.tenant) \in ks
      BY <3>6 DEF BK!Newest
    <3> QED BY <2>2, <3>2, <3>7
  <2> QED BY <2>1, <2>2
<1>7. \A k \in db.keys \cup db.secrets : k.key <= used + n
  <2>1. \A k \in db.keys \cup db.secrets : k.key \in Nat /\ k.key <= used
    BY <1>2 DEF Counted, NotAfter, Key
  <2> QED BY <1>2, <2>1
<1> DEFINE rekeyed == {key(s.tenant) : s \in BK!Legacy}
<1>8. rekeyed \subseteq db.keys \cup fresh
  BY <1>6
<1>9. rekeyed \in SUBSET Key /\ fresh \in SUBSET Key
  BY <1>2, <1>5, <1>8
<1> HIDE DEF n, new, fresh, key, rekeyed
<1>10. BK!Moved = [db EXCEPT !.keys = db.keys \cup fresh, !.secrets = (db.secrets \ BK!Legacy) \cup rekeyed]
  BY <1>1 DEF rekeyed
<1>11. /\ BK!Moved \in TableSet /\ BK!Moved.users = db.users /\ BK!Moved.members = db.members
       /\ BK!Moved.keys = db.keys \cup fresh /\ BK!Moved.secrets = (db.secrets \ BK!Legacy) \cup rekeyed
  BY <1>2, <1>9, <1>10 DEF TableSet
<1>12. \A k \in BK!Moved.keys \cup BK!Moved.secrets : k.key <= used + n
  BY <1>5, <1>7, <1>8, <1>11
<1> QED BY <1>8, <1>11, <1>12 DEF n

LEMMA MoveStep == ASSUME BK!BackupAssumption, BackupInv, BK!MoveSecrets PROVE BackupInv'
<1> USE DEF BackupInv
<1>1. /\ restore.step = "secrets" /\ db' = BK!Moved /\ used' = used + BK!Cardinality(Existing)
      /\ restore' = [step |-> "idle", file |-> BK!Empty] /\ halted' = FALSE
      /\ behind' = (IF export.at > 3 THEN behind \cup db'.keys ELSE behind)
      /\ UNCHANGED <<files, export, steps>>
  BY DEF BK!MoveSecrets, BK!Late, BK!Idle
<1>2. /\ db' \in TableSet /\ db'.users = db.users /\ db'.members = db.members /\ db.keys \subseteq db'.keys
      /\ \A s \in db'.secrets : s \in db.secrets \/ s \in db'.keys
      /\ \A k \in db'.keys \cup db'.secrets : k.key <= used'
  BY <1>1, MovedFacts
<1>3. used \in Nat /\ used' \in Nat /\ used <= used'
  BY <1>1 DEF BK!BackupAssumption, BackupTypes
<1>4. restore' \in RestoreRec /\ restore'.step = "idle" /\ restore'.file = BK!Empty
  BY <1>1, EmptySet DEF RestoreRec
<1>5. behind \subseteq behind' /\ behind' \in SUBSET Key
  BY <1>1, <1>2 DEF BackupTypes, TableSet
<1>6. BackupTypes'
  BY <1>1, <1>2, <1>3, <1>4, <1>5 DEF BackupTypes
<1>7. Whole(db)' /\ NoSecretsYet'
  BY <1>1, <1>2, <1>5 DEF Whole, NoSecretsYet
<1>8. Signed'
  BY <1>1, <1>2, <1>4 DEF Signed
<1>9. KeysPassed'
  BY <1>1 DEF KeysPassed
<1>10. Counted'
  <2>1. \A x \in behind \cup export.tables.keys \cup export.tables.secrets : x.key \in Nat
    BY DEF BackupTypes, TableSet, Key, ExportRec
  <2>2. \A x \in behind \cup export.tables.keys \cup export.tables.secrets : x.key <= used'
    BY <1>3, <2>1 DEF Counted, NotAfter
  <2> QED BY <1>1, <1>2, <2>2 DEF Counted, NotAfter
<1>11. (\A g \in files : File(g))'
  BY <1>1, <1>3, <1>5, FilesStay
<1>12. File(restore.file)'
  BY <1>3, <1>4, <1>5, EmptySet, FilesStay
<1> QED BY <1>6, <1>7, <1>8, <1>9, <1>10, <1>11, <1>12

LEMMA CrashStep == ASSUME BK!BackupAssumption, BackupInv, BK!Crash PROVE BackupInv'
<1> USE DEF BackupInv
<1>1. /\ db' = BK!Moved /\ used' = used + BK!Cardinality(Existing) /\ steps < MaxSteps /\ steps' = steps + 1
      /\ restore' = [step |-> "idle", file |-> BK!Empty] /\ export' = [at |-> 0, tables |-> BK!Empty]
      /\ UNCHANGED <<files, behind, halted>>
  BY DEF BK!Crash, BK!Bounded, BK!Idle
<1>2. /\ db' \in TableSet /\ db'.users = db.users /\ db'.members = db.members /\ db.keys \subseteq db'.keys
      /\ \A s \in db'.secrets : s \in db.secrets \/ s \in db'.keys
      /\ \A k \in db'.keys \cup db'.secrets : k.key <= used'
  BY <1>1, MovedFacts
<1>3. used \in Nat /\ used' \in Nat /\ used <= used'
  BY <1>1 DEF BK!BackupAssumption, BackupTypes
<1>4. restore' \in RestoreRec /\ restore'.step = "idle" /\ restore'.file = BK!Empty
  BY <1>1, EmptySet DEF RestoreRec
<1>5. BK!Empty.keys = {} /\ BK!Empty.secrets = {}
  BY DEF BK!Empty
<1>6. export' \in ExportRec /\ export'.at = 0 /\ export'.tables = BK!Empty
  BY <1>1, EmptySet DEF ExportRec
<1>7. BackupTypes'
  BY <1>1, <1>2, <1>3, <1>4, <1>6 DEF BackupTypes, BK!BackupAssumption
<1>8. Whole(db)' /\ NoSecretsYet' /\ KeysPassed'
  BY <1>1, <1>2, <1>5, <1>6 DEF Whole, NoSecretsYet, KeysPassed
<1>9. Signed'
  BY <1>1, <1>2, <1>4 DEF Signed
<1>10. Counted'
  <2>1. \A x \in behind : x.key \in Nat
    BY DEF BackupTypes, Key
  <2>2. \A x \in behind : x.key <= used'
    BY <1>3, <2>1 DEF Counted, NotAfter
  <2> QED BY <1>1, <1>2, <1>5, <1>6, <2>2 DEF Counted, NotAfter
<1>11. (\A g \in files : File(g))'
  BY <1>1, <1>3, FilesStay
<1>12. File(restore.file)'
  BY <1>1, <1>3, <1>4, EmptySet, FilesStay
<1> QED BY <1>7, <1>8, <1>9, <1>10, <1>11, <1>12

LEMMA NewHostStep == ASSUME BK!BackupAssumption, BackupInv, BK!NewHost PROVE BackupInv'
<1> USE DEF BackupInv
<1>1. /\ db' = BK!Empty /\ steps < MaxSteps /\ steps' = steps + 1 /\ halted' = FALSE
      /\ restore' = [step |-> "idle", file |-> BK!Empty] /\ export' = [at |-> 0, tables |-> BK!Empty]
      /\ UNCHANGED <<files, behind, used>>
  BY DEF BK!NewHost, BK!Bounded, BK!Idle
<1>2. BK!Empty.keys = {} /\ BK!Empty.secrets = {} /\ BK!Empty.users = {} /\ BK!Empty \in TableSet
  BY EmptySet DEF BK!Empty
<1>3. restore' \in RestoreRec /\ restore'.step = "idle" /\ restore'.file = BK!Empty
  BY <1>1, EmptySet DEF RestoreRec
<1>4. export' \in ExportRec /\ export'.at = 0 /\ export'.tables = BK!Empty
  BY <1>1, EmptySet DEF ExportRec
<1>5. BackupTypes'
  <2>1. halted' \in BOOLEAN
    BY <1>1
  <2> QED BY <1>1, <1>2, <1>3, <1>4, <2>1 DEF BackupTypes, BK!BackupAssumption
<1>6. Whole(db)' /\ NoSecretsYet' /\ KeysPassed' /\ Signed' /\ Counted'
  BY <1>1, <1>2, <1>3, <1>4 DEF Whole, NoSecretsYet, KeysPassed, Signed, Counted, NotAfter
<1>7. (\A g \in files : File(g))' /\ File(restore.file)'
  BY <1>1, <1>3, EmptySet, FilesStay DEF BackupTypes
<1> QED BY <1>5, <1>6, <1>7

LEMMA BackupStill == ASSUME BackupInv, UNCHANGED BK!backupVars PROVE BackupInv'
<1>1. UNCHANGED <<db, files, export, restore, behind, halted, used, steps>>
  BY DEF BK!backupVars
<1>2. BackupTypes' /\ Whole(db)' /\ Counted' /\ KeysPassed' /\ NoSecretsYet' /\ Signed'
  BY <1>1 DEF BackupInv, BackupTypes, Whole, Counted, KeysPassed, NoSecretsYet, Signed, NotAfter
<1>3. (\A g \in files : File(g))' /\ File(restore.file)'
  BY <1>1, FilesStay DEF BackupInv, BackupTypes
<1> QED BY <1>2, <1>3 DEF BackupInv

LEMMA BackupStep ==
    ASSUME BK!BackupAssumption, BackupInv, BK!BackupNext \/ UNCHANGED BK!backupVars
    PROVE  BackupInv'
<1>1. CASE BK!Rest
  BY <1>1, BackupStill DEF BK!Rest
<1> QED
  BY <1>1, UserStep, RotateStep, StartExportStep, ReadStep, SkipStep, OpenStep, TablesStep, RestoreFailsStep, GrantStep,
     MoveStep, CrashStep, NewHostStep, BackupStill DEF BK!BackupNext

(* Everybody is in, every secret opens, and the types.                     *)
LEMMA BackupSafe == ASSUME BackupInv PROVE BK!EveryoneIn /\ BK!SecretsReadable /\ BK!BackupTypeOK
<1> USE DEF BackupInv
<1>1. BK!EveryoneIn
  BY DEF BK!EveryoneIn, Signed
<1>2. BK!SecretsReadable
  BY DEF BK!SecretsReadable, Whole, BK!Install
<1>3. \A t \in TableSet : NotAfter(t.keys) /\ NotAfter(t.secrets) => BK!Tables(t)
  <2> SUFFICES ASSUME NEW t \in TableSet, NotAfter(t.keys), NotAfter(t.secrets) PROVE BK!Tables(t)
    OBVIOUS
  <2>1. used \in Nat
    BY DEF BackupTypes
  <2>2. t.keys \in SUBSET Key /\ t.secrets \in SUBSET Key /\ t.users \subseteq BackupUsers /\ t.members \subseteq BackupUsers
    BY DEF TableSet
  <2>3. \A k \in t.keys \cup t.secrets : k \in BK!AllKeys
    BY <2>1, <2>2 DEF NotAfter, Key, BK!AllKeys
  <2> QED BY <2>2, <2>3 DEF BK!Tables
<1>4. BK!Tables(db)
  BY <1>3 DEF BackupTypes, Counted
<1>5. \A f \in files \ {BK!Old} : BK!Tables(f)
  BY <1>3 DEF File
<1>6. BK!Tables(export.tables) /\ export.at \in 0..4
  BY <1>3 DEF BackupTypes, Counted, ExportRec
<1>7. Len(BK!EXPORT_TABLES) = 4
  BY DEF BK!EXPORT_TABLES
<1>8. behind \subseteq BK!AllKeys
  BY DEF BackupTypes, Counted, NotAfter, Key, BK!AllKeys
<1>9. restore.step \in {"idle", "tables", "members", "secrets"} /\ halted \in BOOLEAN /\ used \in Nat /\ steps \in 0..MaxSteps
  BY DEF BackupTypes, RestoreRec
<1> QED BY <1>1, <1>2, <1>4, <1>5, <1>6, <1>7, <1>8, <1>9 DEF BK!BackupTypeOK

-----------------------------------------------------------------------------
(***************************************************************************)
(* The watch over the backups of a guest.  What a run has become stays;    *)
(* a snapshot, however old, lists files that there were and says of a task *)
(* that it is running or what has become of it; the job names a run that   *)
(* left a file when it says ok, and one a sync saw when it says running.   *)
(***************************************************************************)
Results == {"none", "running", "ok", "warned", "failed"}
RunRec == [result : Results, storage : Storages \cup {0}]
JobRec == [last : BK!Times \cup {0}, status : BK!Statuses, enabled : BOOLEAN]
HistoryRec == [at : BK!Times, status : {"ok", "failed"}]
TaskRec == [at : BK!Times, result : Results]
SnapshotRec == [files : SUBSET BK!Times, tasks : SUBSET TaskRec]
Files == {t \in BK!Times : BK!HasFile(run[t])}

TrueSnapshot(s) ==
    /\ s.files \subseteq Files
    /\ \A x \in s.tasks : x.result = "running" \/ (x.result # "none" /\ x.result = run[x.at].result)
    /\ \A x, y \in s.tasks : x.at = y.at => x = y
JobTrue ==
    /\ job.status = "ok" => job.last \in Files
    /\ job.status = "running" => job.last \in watch_seen
WatchTypes ==
    /\ now \in BK!Times /\ run \in [BK!Times -> RunRec]
    /\ listed \in SUBSET BK!Times /\ kept \in SUBSET Files /\ watch_seen \in SUBSET BK!Times
    /\ job \in JobRec /\ history \in SUBSET HistoryRec
    /\ held = {} \/ (\E s \in SnapshotRec : held = {s})
    /\ forgets \in 0..MaxForgets /\ loads \in 0..MaxLoads
WatchInv ==
    /\ WatchTypes
    /\ \A t \in listed : run[t].result # "none"
    /\ \A s \in held : TrueSnapshot(s)
    /\ JobTrue /\ BK!HistoryTrue

LEMMA WatchStart == ASSUME BK!WatchAssumption PROVE BK!WatchInit => WatchInv
<1> SUFFICES ASSUME BK!WatchInit PROVE WatchInv
  OBVIOUS
<1>1. /\ now = 1 /\ run = [t \in BK!Times |-> BK!None] /\ listed = {} /\ kept = {}
      /\ job = [last |-> 0, status |-> "absent", enabled |-> TRUE]
      /\ history = {} /\ held = {} /\ watch_seen = {} /\ forgets = 0 /\ loads = 0
  BY DEF BK!WatchInit, BK!Never
<1>2. now \in BK!Times
  BY <1>1 DEF BK!Times, BK!WatchAssumption
<1>3. BK!None \in RunRec
  BY DEF BK!None, RunRec, Results
<1>4. job \in JobRec /\ job.status = "absent"
  BY <1>1 DEF JobRec, BK!Statuses
<1>5. forgets \in 0..MaxForgets /\ loads \in 0..MaxLoads
  BY <1>1 DEF BK!WatchAssumption
<1> QED BY <1>1, <1>2, <1>3, <1>4, <1>5 DEF WatchInv, WatchTypes, JobTrue, BK!HistoryTrue

(* What became of a run stays, so what was said of it stays true.          *)
LEMMA SaidStays ==
    ASSUME WatchInv, run' \in [BK!Times -> RunRec],
           \A t \in BK!Times : run[t].result \in {"ok", "warned", "failed"} => run'[t] = run[t]
    PROVE  /\ Files \subseteq Files'
           /\ \A s \in SnapshotRec : TrueSnapshot(s) => TrueSnapshot(s)'
           /\ \A h \in history : /\ h.status = "ok" => BK!HasFile(run'[h.at])
                                 /\ h.status = "failed" => run'[h.at].result \in {"failed", "warned"}
<1>1. Files \subseteq Files'
  BY DEF Files, BK!HasFile
<1>2. \A s \in SnapshotRec : TrueSnapshot(s) => TrueSnapshot(s)'
  <2> SUFFICES ASSUME NEW s \in SnapshotRec, TrueSnapshot(s) PROVE TrueSnapshot(s)'
    OBVIOUS
  <2>1. \A x \in s.tasks : x.at \in BK!Times /\ x.result \in Results
    BY DEF SnapshotRec, TaskRec
  <2>2. \A x \in s.tasks : x.result = "running" \/ (x.result # "none" /\ x.result = run'[x.at].result)
    BY <2>1 DEF TrueSnapshot, Results
  <2> QED BY <1>1, <2>2 DEF TrueSnapshot
<1>3. ASSUME NEW h \in history
      PROVE  /\ h.status = "ok" => BK!HasFile(run'[h.at])
             /\ h.status = "failed" => run'[h.at].result \in {"failed", "warned"}
  <2>1. h.at \in BK!Times
    BY <1>3 DEF WatchInv, WatchTypes, HistoryRec
  <2>2. /\ h.status = "ok" => BK!HasFile(run[h.at])
        /\ h.status = "failed" => run[h.at].result \in {"failed", "warned"}
    BY <1>3 DEF WatchInv, BK!HistoryTrue
  <2> QED BY <2>1, <2>2 DEF BK!HasFile
<1> QED BY <1>1, <1>2, <1>3

(* A run begins or ends, the lists get shorter, time passes.               *)
LEMMA ClusterStep ==
    ASSUME BK!WatchAssumption, WatchInv,
           now' \in BK!Times, run' \in [BK!Times -> RunRec],
           \A t \in BK!Times : run[t].result \in {"ok", "warned", "failed"} => run'[t] = run[t],
           listed' \in SUBSET BK!Times, \A t \in listed' : run'[t].result # "none",
           kept' \in SUBSET Files', forgets' \in 0..MaxForgets,
           UNCHANGED <<job, history, held, watch_seen, loads>>
    PROVE  WatchInv'
<1> USE DEF WatchInv
<1>1. WatchTypes'
  BY SaidStays DEF WatchTypes
<1>2. (\A s \in held : TrueSnapshot(s))'
  <2>1. \A s \in held : s \in SnapshotRec /\ TrueSnapshot(s)
    BY DEF WatchTypes
  <2> QED BY <2>1, SaidStays
<1>3. JobTrue'
  BY SaidStays DEF JobTrue
<1>4. BK!HistoryTrue'
  BY SaidStays DEF BK!HistoryTrue
<1> QED BY <1>1, <1>2, <1>3, <1>4

LEMMA RunBegins ==
    ASSUME BK!WatchAssumption, WatchInv, NEW s \in Storages, BK!Start(s) PROVE WatchInv'
<1>1. /\ run[now].result = "none" /\ run' = [run EXCEPT ![now] = [result |-> "running", storage |-> s]]
      /\ listed' = listed \cup {now} /\ UNCHANGED <<now, kept, job, history, held, watch_seen, forgets, loads>>
  BY DEF BK!Start
<1>2. now \in BK!Times /\ run \in [BK!Times -> RunRec] /\ [result |-> "running", storage |-> s] \in RunRec
  BY DEF WatchInv, WatchTypes, RunRec, Results
<1>3. run' \in [BK!Times -> RunRec] /\ run'[now] = [result |-> "running", storage |-> s] /\ \A t \in BK!Times : t # now => run'[t] = run[t]
  BY <1>1, <1>2
<1>4. \A t \in BK!Times : run[t].result \in {"ok", "warned", "failed"} => run'[t] = run[t]
  BY <1>1, <1>3
<1>5. kept' \in SUBSET Files'
  BY <1>1, <1>3, <1>4, SaidStays DEF WatchInv, WatchTypes
<1>6. listed' \in SUBSET BK!Times /\ \A t \in listed' : run'[t].result # "none"
  BY <1>1, <1>2, <1>3 DEF WatchInv, WatchTypes
<1>7. now' \in BK!Times /\ forgets' \in 0..MaxForgets
  BY <1>1 DEF WatchInv, WatchTypes
<1> QED BY <1>1, <1>3, <1>4, <1>5, <1>6, <1>7, ClusterStep

LEMMA RunEnds ==
    ASSUME BK!WatchAssumption, WatchInv, NEW t \in BK!Times, NEW r \in {"ok", "warned", "failed"}, BK!End(t, r) PROVE WatchInv'
<1>1. /\ run[t].result = "running" /\ run' = [run EXCEPT ![t].result = r]
      /\ kept' = (IF r = "failed" THEN kept ELSE kept \cup {t})
      /\ UNCHANGED <<now, listed, job, history, held, watch_seen, forgets, loads>>
  BY DEF BK!End
<1>2. run \in [BK!Times -> RunRec] /\ run[t] \in RunRec
  BY DEF WatchInv, WatchTypes
<1>3. run' \in [BK!Times -> RunRec] /\ run'[t].result = r /\ \A u \in BK!Times : u # t => run'[u] = run[u]
  BY <1>1, <1>2 DEF RunRec, Results
<1>4. \A u \in BK!Times : run[u].result \in {"ok", "warned", "failed"} => run'[u] = run[u]
  BY <1>1, <1>3
<1>5. kept' \in SUBSET Files'
  BY <1>1, <1>3, <1>4, SaidStays DEF WatchInv, WatchTypes, Files, BK!HasFile
<1>6. listed' \in SUBSET BK!Times /\ \A u \in listed' : run'[u].result # "none"
  BY <1>1, <1>2, <1>3 DEF WatchInv, WatchTypes
<1>7. now' \in BK!Times /\ forgets' \in 0..MaxForgets
  BY <1>1 DEF WatchInv, WatchTypes
<1> QED BY <1>1, <1>3, <1>4, <1>5, <1>6, <1>7, ClusterStep

LEMMA ForgetStep ==
    ASSUME BK!WatchAssumption, WatchInv, NEW t \in BK!Times, BK!Forget(t) PROVE WatchInv'
<1>1. /\ forgets < MaxForgets /\ forgets' = forgets + 1 /\ listed' \subseteq listed /\ kept' \subseteq kept
      /\ UNCHANGED <<now, run, job, history, held, watch_seen, loads>>
  BY DEF BK!Forget
<1>2. forgets' \in 0..MaxForgets
  BY <1>1 DEF WatchInv, WatchTypes, BK!WatchAssumption
<1>3. Files' = Files
  BY <1>1 DEF Files, BK!HasFile
<1>4. now' \in BK!Times /\ run' \in [BK!Times -> RunRec] /\ listed' \in SUBSET BK!Times /\ kept' \in SUBSET Files'
  BY <1>1, <1>3 DEF WatchInv, WatchTypes
<1>5. \A u \in listed' : run'[u].result # "none"
  BY <1>1 DEF WatchInv
<1> QED BY <1>1, <1>2, <1>4, <1>5, ClusterStep

LEMMA WatchTick == ASSUME BK!WatchAssumption, WatchInv, BK!Tick PROVE WatchInv'
<1>1. now < MaxTime /\ now' = now + 1 /\ UNCHANGED <<run, listed, kept, job, history, held, watch_seen, forgets, loads>>
  BY DEF BK!Tick
<1>2. now' \in BK!Times
  BY <1>1 DEF WatchInv, WatchTypes, BK!Times, BK!WatchAssumption
<1>3. Files' = Files
  BY <1>1 DEF Files, BK!HasFile
<1>4. run' \in [BK!Times -> RunRec] /\ listed' \in SUBSET BK!Times /\ kept' \in SUBSET Files' /\ forgets' \in 0..MaxForgets
  BY <1>1, <1>3 DEF WatchInv, WatchTypes
<1>5. \A u \in listed' : run'[u].result # "none"
  BY <1>1 DEF WatchInv
<1> QED BY <1>1, <1>2, <1>4, <1>5, ClusterStep


LEMMA LatestOf ==
    ASSUME NEW n \in Nat, NEW T \in SUBSET (0..n), T # {}
    PROVE  BK!Latest(T) \in T
<1>1. \E g \in T : \A h \in T : h <= g
  BY GreatestBelow
<1> QED BY <1>1 DEF BK!Latest

(* The newest file of a storage is a file of the snapshot.                 *)
LEMMA NewestFile ==
    ASSUME BK!WatchAssumption, NEW fs \in SUBSET BK!Times, NEW x, BK!On(x, fs) # {}
    PROVE  BK!Latest(BK!On(x, fs)) \in fs
<1>1. BK!On(x, fs) \subseteq fs
  BY DEF BK!On
<1>2. MaxTime \in Nat /\ BK!On(x, fs) \in SUBSET (0..MaxTime)
  <2>1. MaxTime \in Nat
    BY DEF BK!WatchAssumption
  <2>2. \A t \in BK!Times : t \in 0..MaxTime
    BY <2>1 DEF BK!Times
  <2> QED BY <1>1, <2>1, <2>2
<1> QED BY <1>1, <1>2, LatestOf

LEMMA JobAfterFiles ==
    ASSUME BK!WatchAssumption, WatchInv, NEW fs \in SUBSET Files
    PROVE  LET j == BK!AfterFiles(job, fs)
           IN  j \in JobRec /\ (j.status = "ok" => j.last \in Files) /\ (j.status = "running" => j.last \in watch_seen)
<1> DEFINE j == BK!AfterFiles(job, fs)
           with == {x \in Storages : BK!On(x, fs) # {}}
           at == BK!Latest(BK!On(BK!Latest(with), fs))
<1>1. job \in JobRec /\ (job.status = "ok" => job.last \in Files) /\ (job.status = "running" => job.last \in watch_seen)
  BY DEF WatchInv, WatchTypes, JobTrue
<1>2. CASE with = {}
  <2>1. j = job
    BY <1>2 DEF BK!AfterFiles
  <2> QED BY <1>1, <2>1
<1>3. CASE with # {}
  <2>1. j = [job EXCEPT !.last = at, !.status = "ok"]
    BY <1>3 DEF BK!AfterFiles
  <2>2. BK!Latest(with) \in with
    <3>1. with \in SUBSET (0..BK!Cardinality(Storages)) /\ BK!Cardinality(Storages) \in Nat
      BY DEF BK!WatchAssumption
    <3> HIDE DEF with
    <3> QED BY <1>3, <3>1, LatestOf
  <2>3. fs \in SUBSET BK!Times
    BY DEF Files
  <2>4. at \in fs
    BY <2>2, <2>3, NewestFile
  <2> HIDE DEF at
  <2>5. at \in Files /\ at \in BK!Times
    BY <2>3, <2>4
  <2>6. j \in JobRec /\ j.status = "ok" /\ j.last = at
    BY <1>1, <2>1, <2>5 DEF JobRec, BK!Statuses
  <2> QED BY <2>5, <2>6
<1> QED BY <1>2, <1>3

LEMMA JobAfterTasks ==
    ASSUME BK!WatchAssumption, WatchInv, NEW s \in SnapshotRec, TrueSnapshot(s), NEW j \in JobRec,
           j.status = "ok" => j.last \in Files, j.status = "running" => j.last \in watch_seen
    PROVE  LET k == BK!AfterTasks(j, s.tasks)
           IN  /\ k \in JobRec /\ (k.status = "ok" => k.last \in Files)
               /\ k.status = "running" => k.last \in watch_seen \cup {x.at : x \in {y \in s.tasks : y.result = "running"}}
<1> DEFINE k == BK!AfterTasks(j, s.tasks)
           new == {x.at : x \in s.tasks}
           x == CHOOSE y \in s.tasks : y.at = BK!Latest(new)
<1>1. CASE new = {} \/ BK!Latest(new) < j.last
  <2>1. k = j
    BY <1>1 DEF BK!AfterTasks
  <2> QED BY <2>1
<1>2. CASE ~(new = {} \/ BK!Latest(new) < j.last)
  <2>0. k = [j EXCEPT !.last = BK!Latest(new), !.status = BK!Mapped(x.result)]
    BY <1>2 DEF BK!AfterTasks
  <2>1. new \in SUBSET (0..MaxTime) /\ new \in SUBSET BK!Times /\ MaxTime \in Nat
    BY DEF SnapshotRec, TaskRec, BK!Times, BK!WatchAssumption
  <2>2. BK!Latest(new) \in new
    <3> HIDE DEF new
    <3> QED BY <1>2, <2>1, LatestOf
  <2>3. x \in s.tasks /\ x.at = BK!Latest(new)
    <3>1. \E y \in s.tasks : y.at = BK!Latest(new)
      BY <2>2
    <3> HIDE DEF new
    <3> QED BY <3>1
  <2>4. x.at \in BK!Times
    BY <2>1, <2>2, <2>3
  <2> HIDE DEF x, new
  <2>5. x.result = "running" \/ (x.result # "none" /\ x.result = run[x.at].result)
    BY <2>3 DEF TrueSnapshot
  <2>6. BK!Mapped(x.result) \in {"running", "ok", "failed"} /\ (BK!Mapped(x.result) = "running" => x.result = "running")
        /\ (BK!Mapped(x.result) = "ok" => x.result = "ok")
    BY DEF BK!Mapped
  <2>7. k \in JobRec /\ k.last = x.at /\ k.status = BK!Mapped(x.result)
    BY <2>0, <2>3, <2>4, <2>6 DEF JobRec, BK!Statuses
  <2>8. k.status = "ok" => k.last \in Files
    BY <2>4, <2>5, <2>6, <2>7 DEF Files, BK!HasFile
  <2>9. k.status = "running" => x \in {y \in s.tasks : y.result = "running"}
    BY <2>3, <2>6, <2>7
  <2> QED BY <2>7, <2>8, <2>9
<1> QED BY <1>1, <1>2

LEMMA HistoryRecorded ==
    ASSUME BK!WatchAssumption, WatchInv, NEW s \in SnapshotRec, TrueSnapshot(s)
    PROVE  /\ BK!Recorded(s) \in SUBSET HistoryRec
           /\ \A h \in BK!Recorded(s) :
                 /\ \A g \in BK!Recorded(s) : g.at = h.at => g = h
                 /\ h.status = "ok" => BK!HasFile(run[h.at])
                 /\ h.status = "failed" => run[h.at].result \in {"failed", "warned"}
<1> DEFINE fs == {BK!Latest(BK!On(x, s.files)) : x \in {y \in Storages : BK!On(y, s.files) # {}}}
           old == {h.at : h \in history}
           A1 == {[at |-> t, status |-> "ok"] : t \in fs \ old}
           ended == {y \in s.tasks : y.result # "running" /\ y.at \notin fs \cup old}
           A2 == {[at |-> x.at, status |-> BK!Mapped(x.result)] : x \in ended}
<1>1. BK!Recorded(s) = history \cup A1 \cup A2
  BY DEF BK!Recorded
<1>2. fs \subseteq Files
  <2>1. s.files \in SUBSET BK!Times /\ s.files \subseteq Files
    BY DEF SnapshotRec, TrueSnapshot
  <2> QED BY <2>1, NewestFile
<1>3. \A h \in A1 : h \in HistoryRec /\ h.at \in fs /\ h.at \notin old /\ h.status = "ok" /\ h = [at |-> h.at, status |-> "ok"]
  BY <1>2 DEF HistoryRec, Files
<1>4. \A x \in ended : /\ x.at \in BK!Times /\ x \in s.tasks /\ x.result \in Results \ {"running", "none"} /\ x.result = run[x.at].result
                       /\ x.at \notin fs /\ x.at \notin old
  <2>1. \A x \in s.tasks : x.at \in BK!Times /\ x.result \in Results
    BY DEF SnapshotRec, TaskRec
  <2> QED BY <2>1 DEF TrueSnapshot
<1>5. \A x \in ended : BK!Mapped(x.result) \in {"ok", "failed"} /\ (BK!Mapped(x.result) = "ok" => x.result = "ok")
                       /\ (BK!Mapped(x.result) = "failed" => x.result \in {"warned", "failed"})
  BY <1>4 DEF BK!Mapped, Results
<1>6. ASSUME NEW h \in A2
      PROVE  \E x \in ended : h = [at |-> x.at, status |-> BK!Mapped(x.result)]
  BY <1>6
<1> HIDE DEF fs, old, A1, ended
<1>7. \A h \in A2 : /\ h \in HistoryRec /\ h.at \notin fs /\ h.at \notin old
                    /\ h.status = "ok" => run[h.at].result = "ok"
                    /\ h.status = "failed" => run[h.at].result \in {"failed", "warned"}
  <2> SUFFICES ASSUME NEW h \in A2
               PROVE  /\ h \in HistoryRec /\ h.at \notin fs /\ h.at \notin old
                      /\ h.status = "ok" => run[h.at].result = "ok"
                      /\ h.status = "failed" => run[h.at].result \in {"failed", "warned"}
    OBVIOUS
  <2>1. PICK x \in ended : h = [at |-> x.at, status |-> BK!Mapped(x.result)]
    BY <1>6
  <2>2. h.at = x.at /\ h.status = BK!Mapped(x.result)
    BY <2>1
  <2> QED BY <1>4, <1>5, <2>1, <2>2 DEF HistoryRec
<1>8. \A g, h \in A2 : g.at = h.at => g = h
  <2> SUFFICES ASSUME NEW g \in A2, NEW h \in A2, g.at = h.at PROVE g = h
    OBVIOUS
  <2>1. PICK x \in ended : h = [at |-> x.at, status |-> BK!Mapped(x.result)]
    BY <1>6
  <2>2. PICK y \in ended : g = [at |-> y.at, status |-> BK!Mapped(y.result)]
    BY <1>6
  <2>3. x.at = y.at
    BY <2>1, <2>2
  <2>4. x = y
    BY <1>4, <2>3 DEF TrueSnapshot
  <2> QED BY <2>1, <2>2, <2>4
<1> HIDE DEF A2
<1>9. \A h \in history : h \in HistoryRec /\ h.at \in old
  BY DEF WatchInv, WatchTypes, old
<1>10. \A h \in A1 : BK!HasFile(run[h.at])
  BY <1>2, <1>3 DEF Files
<1>11. \A h \in BK!Recorded(s) :
                 /\ h.status = "ok" => BK!HasFile(run[h.at])
                 /\ h.status = "failed" => run[h.at].result \in {"failed", "warned"}
  BY <1>1, <1>3, <1>7, <1>10 DEF WatchInv, BK!HistoryTrue, BK!HasFile
<1>12. \A h, g \in BK!Recorded(s) : g.at = h.at => g = h
  <2>1. \A h, g \in history : g.at = h.at => g = h
    BY DEF WatchInv, BK!HistoryTrue
  <2>2. \A h, g \in A1 : g.at = h.at => g = h
    BY <1>3
  <2> QED BY <1>1, <1>3, <1>7, <1>8, <1>9, <2>1, <2>2
<1>13. BK!Recorded(s) \in SUBSET HistoryRec
  BY <1>1, <1>3, <1>7, <1>9
<1> QED BY <1>11, <1>12, <1>13

LEMMA SyncStep ==
    ASSUME BK!WatchAssumption, WatchInv, NEW s \in SnapshotRec, TrueSnapshot(s), BK!Synced(s),
           held' = {} \/ held' = held, UNCHANGED <<now, run, listed, kept, forgets, loads>>
    PROVE  WatchInv'
<1> DEFINE j == BK!AfterFiles(job, s.files)
           k == BK!AfterTasks(j, s.tasks)
           runs == {x.at : x \in {y \in s.tasks : y.result = "running"}}
<1>1. job' = k /\ history' = BK!Recorded(s) /\ watch_seen' = watch_seen \cup runs
  BY DEF BK!Synced
<1>2. s.files \in SUBSET Files
  BY DEF TrueSnapshot
<1>3. j \in JobRec /\ (j.status = "ok" => j.last \in Files) /\ (j.status = "running" => j.last \in watch_seen)
  BY <1>2, JobAfterFiles
<1>4. k \in JobRec /\ (k.status = "ok" => k.last \in Files) /\ (k.status = "running" => k.last \in watch_seen \cup runs)
  <2> HIDE DEF j
  <2> QED BY <1>3, JobAfterTasks
<1>5. runs \in SUBSET BK!Times
  BY DEF SnapshotRec, TaskRec
<1> HIDE DEF j, k, runs
<1>6. Files' = Files
  BY DEF Files, BK!HasFile
<1>7. history' \in SUBSET HistoryRec
  BY <1>1, HistoryRecorded
<1>8. WatchTypes'
  BY <1>1, <1>4, <1>5, <1>6, <1>7 DEF WatchInv, WatchTypes
<1>9. (\A x \in held : TrueSnapshot(x))' /\ (\A t \in listed : run[t].result # "none")'
  BY <1>6 DEF WatchInv, TrueSnapshot
<1>10. JobTrue'
  BY <1>1, <1>4, <1>6 DEF JobTrue
<1>11. BK!HistoryTrue'
  BY <1>1, HistoryRecorded DEF BK!HistoryTrue, BK!HasFile
<1> QED BY <1>8, <1>9, <1>10, <1>11 DEF WatchInv

(* The snapshot of the present is true.                                    *)
LEMMA SnapshotTrue == ASSUME WatchInv PROVE BK!Snapshot \in SnapshotRec /\ TrueSnapshot(BK!Snapshot)
<1> DEFINE ts == {[at |-> t, result |-> run[t].result] : t \in listed}
<1>1. BK!Snapshot = [files |-> kept, tasks |-> ts]
  BY DEF BK!Snapshot
<1>2. kept \subseteq Files /\ kept \subseteq BK!Times /\ listed \in SUBSET BK!Times /\ run \in [BK!Times -> RunRec]
  BY DEF WatchInv, WatchTypes, Files
<1>3. \A x \in ts : x.at \in listed /\ x.result = run[x.at].result /\ x = [at |-> x.at, result |-> run[x.at].result]
  OBVIOUS
<1>4. \A t \in listed : run[t].result \in Results \ {"none"}
  BY <1>2 DEF WatchInv, RunRec
<1>5. ts \in SUBSET TaskRec
  BY <1>2, <1>4 DEF TaskRec
<1> HIDE DEF ts
<1>6. BK!Snapshot.files = kept /\ BK!Snapshot.tasks = ts
  BY <1>1
<1>7. \A x, y \in ts : x.at = y.at => x = y
  BY <1>3
<1> QED BY <1>1, <1>2, <1>3, <1>4, <1>5, <1>6, <1>7 DEF TrueSnapshot, SnapshotRec

LEMMA WatchStep ==
    ASSUME BK!WatchAssumption, WatchInv, BK!WatchNext \/ UNCHANGED BK!watchVars
    PROVE  WatchInv'
<1>1. CASE BK!Ingest
  <2>1. BK!Synced(BK!Snapshot) /\ UNCHANGED <<now, run, listed, kept, held, forgets, loads>>
    BY <1>1 DEF BK!Ingest
  <2> QED BY <2>1, SnapshotTrue, SyncStep
<1>2. CASE BK!ManualSync
  <2>1. PICK s \in held : BK!Synced(s) /\ held' = {} /\ UNCHANGED <<now, run, listed, kept, forgets, loads>>
    BY <1>2 DEF BK!ManualSync
  <2>2. s \in SnapshotRec /\ TrueSnapshot(s)
    BY DEF WatchInv, WatchTypes
  <2> QED BY <2>1, <2>2, SyncStep
<1>3. CASE BK!Load
  <2>1. /\ held = {} /\ loads < MaxLoads /\ loads' = loads + 1 /\ held' = {BK!Snapshot}
        /\ UNCHANGED <<now, run, listed, kept, job, history, watch_seen, forgets>>
    BY <1>3 DEF BK!Load
  <2>2. BK!Snapshot \in SnapshotRec /\ TrueSnapshot(BK!Snapshot)
    BY SnapshotTrue
  <2>3. Files' = Files
    BY <2>1 DEF Files, BK!HasFile
  <2>4. loads' \in 0..MaxLoads
    BY <2>1 DEF WatchInv, WatchTypes, BK!WatchAssumption
  <2>5. WatchTypes'
    BY <2>1, <2>2, <2>3, <2>4 DEF WatchInv, WatchTypes
  <2>6. \A x \in held' : TrueSnapshot(x)
    BY <2>1, <2>2
  <2>7. (\A x \in held : TrueSnapshot(x))' /\ (\A t \in listed : run[t].result # "none")' /\ JobTrue' /\ BK!HistoryTrue'
    BY <2>1, <2>3, <2>6 DEF WatchInv, TrueSnapshot, JobTrue, BK!HistoryTrue, BK!HasFile
  <2> QED BY <2>5, <2>7 DEF WatchInv
<1>4. CASE BK!Settings
  <2>1. job' = [job EXCEPT !.enabled = ~job.enabled] /\ UNCHANGED <<now, run, listed, kept, history, held, watch_seen, forgets, loads>>
    BY <1>4 DEF BK!Settings
  <2>2. Files' = Files
    BY <2>1 DEF Files, BK!HasFile
  <2>3. job' \in JobRec /\ job'.status = job.status /\ job'.last = job.last
    BY <2>1 DEF WatchInv, WatchTypes, JobRec
  <2>4. WatchTypes'
    BY <2>1, <2>2, <2>3 DEF WatchInv, WatchTypes
  <2>5. (\A x \in held : TrueSnapshot(x))' /\ (\A t \in listed : run[t].result # "none")' /\ JobTrue' /\ BK!HistoryTrue'
    BY <2>1, <2>2, <2>3 DEF WatchInv, TrueSnapshot, JobTrue, BK!HistoryTrue, BK!HasFile
  <2> QED BY <2>4, <2>5 DEF WatchInv
<1>5. CASE BK!Cleanup
  <2>1. history' \subseteq history /\ UNCHANGED <<now, run, listed, kept, job, held, watch_seen, forgets, loads>>
    BY <1>5 DEF BK!Cleanup
  <2>2. Files' = Files
    BY <2>1 DEF Files, BK!HasFile
  <2>3. WatchTypes'
    BY <2>1, <2>2 DEF WatchInv, WatchTypes
  <2>4. (\A x \in held : TrueSnapshot(x))' /\ (\A t \in listed : run[t].result # "none")' /\ JobTrue' /\ BK!HistoryTrue'
    BY <2>1, <2>2 DEF WatchInv, TrueSnapshot, JobTrue, BK!HistoryTrue, BK!HasFile
  <2> QED BY <2>3, <2>4 DEF WatchInv
<1>6. CASE UNCHANGED BK!watchVars
  <2>1. UNCHANGED <<now, run, listed, kept, job, history, held, watch_seen, forgets, loads>>
    BY <1>6 DEF BK!watchVars
  <2>2. Files' = Files
    BY <2>1 DEF Files, BK!HasFile
  <2>3. WatchTypes'
    BY <2>1, <2>2 DEF WatchInv, WatchTypes
  <2>4. (\A x \in held : TrueSnapshot(x))' /\ (\A t \in listed : run[t].result # "none")' /\ JobTrue' /\ BK!HistoryTrue'
    BY <2>1, <2>2 DEF WatchInv, TrueSnapshot, JobTrue, BK!HistoryTrue, BK!HasFile
  <2> QED BY <2>3, <2>4 DEF WatchInv
<1> QED BY <1>1, <1>2, <1>3, <1>4, <1>5, <1>6, RunBegins, RunEnds, ForgetStep, WatchTick DEF BK!WatchNext

(* Silence means a backup in time, and the types.                          *)
LEMMA WatchSafe == ASSUME BK!WatchAssumption, WatchInv PROVE BK!NoSilentGap /\ BK!HistoryTrue /\ BK!WatchTypeOK
<1>1. /\ job \in JobRec /\ now \in BK!Times /\ run \in [BK!Times -> RunRec] /\ watch_seen \in SUBSET BK!Times
      /\ job.status = "ok" => job.last \in Files
      /\ job.status = "running" => job.last \in watch_seen
  BY DEF WatchInv, WatchTypes, JobTrue
<1>2. BK!NoSilentGap
  <2>0. job.status \in {"absent", "running", "ok", "failed"}
    BY <1>1 DEF JobRec, BK!Statuses
  <2>1. ASSUME job.status # "absent", job.enabled, BK!Issues = {}
        PROVE  \E t \in BK!Times : now - t <= Frequency /\ (BK!HasFile(run[t]) \/ t \in watch_seen)
    <3>1. job.status # "failed" /\ ~(job.last # 0 /\ now - job.last > Frequency)
      BY <2>1 DEF BK!Issues, BK!Never
    <3>2. job.last \in BK!Times /\ (BK!HasFile(run[job.last]) \/ job.last \in watch_seen)
      BY <1>1, <2>0, <2>1, <3>1 DEF Files
    <3>3. now - job.last <= Frequency
      BY <1>1, <3>1, <3>2 DEF BK!Times, BK!WatchAssumption
    <3> QED BY <3>2, <3>3
  <2>2. ASSUME BK!Effective = "ok"
        PROVE  \E t \in BK!Times : now - t <= Frequency /\ BK!HasFile(run[t])
    <3>1. job.status = "ok" /\ ~(job.last # 0 /\ now - job.last > Frequency)
      BY <2>0, <2>2 DEF BK!Effective, BK!Never
    <3>2. job.last \in BK!Times /\ BK!HasFile(run[job.last])
      BY <1>1, <3>1 DEF Files
    <3>3. now - job.last <= Frequency
      BY <1>1, <3>1, <3>2 DEF BK!Times, BK!WatchAssumption
    <3> QED BY <3>2, <3>3
  <2> QED BY <2>1, <2>2 DEF BK!NoSilentGap
<1>3. BK!WatchTypeOK
  <2>1. BK!Cardinality(held) <= 1
    <3>1. BK!Cardinality(held) = Cardinality(held)
      BY DEF BK!Cardinality, Cardinality, BK!IsFiniteSet, IsFiniteSet
    <3>2. held = {} \/ \E s : held = {s}
      BY DEF WatchInv, WatchTypes
    <3>3. Cardinality(held) \in {0, 1}
      BY <3>2, FS_EmptySet, FS_Singleton
    <3> QED BY <3>1, <3>3
  <2>2. \A t \in BK!Times : run[t].result \in {"none", "running", "ok", "warned", "failed"}
    BY <1>1 DEF RunRec, Results
  <2>3. job \in [last : BK!Times \cup {BK!Never}, status : BK!Statuses, enabled : BOOLEAN]
    BY <1>1 DEF JobRec, BK!Never
  <2> QED BY <2>1, <2>2, <2>3 DEF WatchInv, WatchTypes, BK!WatchTypeOK, HistoryRec, Files
<1> QED BY <1>2, <1>3 DEF WatchInv

-----------------------------------------------------------------------------
(***************************************************************************)
(* Accounts.  In a tenant in which no two changes overlapped at most one   *)
(* request is under way; the account it promotes or demotes is still a     *)
(* member, or gone altogether; whoever it demotes or removes is not the    *)
(* last admin; and an account that a request takes away altogether is      *)
(* nowhere else a member.  A sign-in that is not late has verified the     *)
(* present password.                                                       *)
(***************************************************************************)
RoleSet == {"admin", "reader", "none"}
Doings == {"demote", "promote", "remove", "commit"}
ReqRec == [op : Doings \cup {"idle", "reset", "session"}, actor : Users, user : Users, tenant : Customers,
           opened : Nat, gone : BOOLEAN, late : BOOLEAN]
SessionRec == [user : Users, opened : Nat, own : BOOLEAN]
Doing(q, t) == req[q].op \in Doings /\ req[q].tenant = t
AccountTypes ==
    /\ role \in [Users -> [Customers -> RoleSet]] /\ accounts \in SUBSET Users /\ operator \in SUBSET Users
    /\ password \in [Users -> Nat] /\ sessions \in SUBSET SessionRec /\ req \in [Changes -> ReqRec]
    /\ accounts_raced \in SUBSET Customers /\ strays \in SUBSET Users
MembersExist == \A u \in Users, t \in Customers : role[u][t] # "none" => u \in accounts
OneAtATime == \A t \in Customers \ accounts_raced : \A p, q \in Changes : Doing(p, t) /\ Doing(q, t) => p = q
StillMember ==
    \A q \in Changes : req[q].op \in {"promote", "demote"} /\ req[q].tenant \notin accounts_raced /\ req[q].user \in accounts
        => role[req[q].user][req[q].tenant] # "none"
GoneElsewhere ==
    \A q \in Changes : req[q].op = "commit" /\ req[q].gone =>
        \A s \in Customers \ (accounts_raced \cup {req[q].tenant}) : role[req[q].user][s] = "none"
AnotherAdmin ==
    \A q \in Changes : req[q].op \in {"demote", "remove", "commit"} /\ req[q].tenant \notin accounts_raced =>
        \E v \in Users \ {req[q].user} : role[v][req[q].tenant] = "admin"
AdminsLeft == \A t \in Customers \ accounts_raced : \E u \in Users : role[u][t] = "admin"
Mirrored == \A u \in Users \ strays : u \in operator <=> role[u][Default] = "admin"
Fresh == \A s \in sessions : s.user \in accounts /\ (s.own \/ s.opened = password[s.user])
SignInsFresh == \A q \in Changes : req[q].op = "session" /\ ~req[q].late => req[q].opened = password[req[q].user]
RolesInv == MembersExist /\ OneAtATime /\ StillMember /\ GoneElsewhere /\ AnotherAdmin /\ AdminsLeft /\ Mirrored
AccountInv == AccountTypes /\ RolesInv /\ Fresh /\ SignInsFresh

LEMMA IdleRequest == ASSUME A!AccountsAssumption PROVE A!Idle \in ReqRec /\ A!Idle.op = "idle" /\ A!Idle.late = FALSE
<1>1. (CHOOSE u \in Users : TRUE) \in Users /\ Default \in Customers
  BY DEF A!AccountsAssumption
<1> QED BY <1>1 DEF A!Idle, ReqRec

LEMMA AccountStart == ASSUME A!AccountsAssumption PROVE A!AccountInit => AccountInv
<1> SUFFICES ASSUME A!AccountInit PROVE AccountInv
  OBVIOUS
<1>1. /\ accounts = Users /\ sessions = {} /\ req = [q \in Changes |-> A!Idle]
      /\ role \in [Users -> [Customers -> RoleSet]]
      /\ \A t \in Customers : \E u \in Users : role[u][t] = "admin"
      /\ operator = {u \in Users : role[u][Default] = "admin"} /\ password = [u \in Users |-> 0]
      /\ accounts_raced = {} /\ strays = {}
  BY DEF A!AccountInit, A!IsAdmin, RoleSet
<1>2. \A q \in Changes : req[q].op = "idle"
  BY <1>1, IdleRequest
<1>3. AccountTypes
  BY <1>1, IdleRequest DEF AccountTypes
<1>4. MembersExist /\ AdminsLeft /\ Mirrored /\ Fresh
  BY <1>1 DEF MembersExist, AdminsLeft, Mirrored, Fresh
<1>5. OneAtATime /\ StillMember /\ GoneElsewhere /\ AnotherAdmin /\ SignInsFresh
  BY <1>2 DEF OneAtATime, StillMember, GoneElsewhere, AnotherAdmin, SignInsFresh, Doing, Doings
<1> QED BY <1>3, <1>4, <1>5 DEF AccountInv, RolesInv

(* Steps that leave roles and accounts alone and begin no change.          *)
LEMMA RolesStay ==
    ASSUME RolesInv, UNCHANGED <<role, accounts, operator, accounts_raced, strays>>,
           \A q \in Changes : req'[q].op \in Doings => req'[q] = req[q]
    PROVE  RolesInv'
<1> USE DEF RolesInv
<1>1. MembersExist' /\ AdminsLeft' /\ Mirrored'
  BY DEF MembersExist, AdminsLeft, Mirrored
<1>2. OneAtATime'
  BY DEF OneAtATime, Doing
<1>3. StillMember' /\ GoneElsewhere' /\ AnotherAdmin'
  BY DEF StillMember, GoneElsewhere, AnotherAdmin, Doings
<1> QED BY <1>1, <1>2, <1>3

LEMMA AccountsUntouched ==
    ASSUME AccountInv, UNCHANGED <<role, accounts, operator, password, sessions, accounts_raced, strays>>, req' \in [Changes -> ReqRec],
           \A q \in Changes : req'[q] = req[q] \/ req'[q].op = "idle"
    PROVE  AccountInv'
<1> USE DEF AccountInv
<1>1. AccountTypes'
  BY DEF AccountTypes
<1>2. RolesInv'
  BY RolesStay DEF Doings
<1>3. Fresh' /\ SignInsFresh'
  BY DEF Fresh, SignInsFresh
<1> QED BY <1>1, <1>2, <1>3

(* Who is not the last admin leaves another.                               *)
LEMMA OtherAdmin ==
    ASSUME AdminsLeft, NEW u \in Users, NEW t \in Customers, t \notin accounts_raced, ~A!LastAdmin(u, t)
    PROVE  \E v \in Users \ {u} : role[v][t] = "admin"
<1>1. CASE role[u][t] # "admin"
  BY <1>1 DEF AdminsLeft
<1>2. CASE role[u][t] = "admin"
  <2> DEFINE as == {v \in Users : A!IsAdmin(v, t)}
  <2>1. ~(A!Cardinality(as) <= 1)
    BY <1>2 DEF A!LastAdmin, A!IsAdmin
  <2>2. as # {u}
    <3>1. A!Cardinality({u}) = Cardinality({u})
      BY DEF A!Cardinality, Cardinality, A!IsFiniteSet, IsFiniteSet
    <3>2. A!Cardinality({u}) = 1
      BY <3>1, FS_Singleton
    <3> HIDE DEF as
    <3> SUFFICES ASSUME as = {u} PROVE FALSE
      OBVIOUS
    <3>3. A!Cardinality(as) = 1
      BY <3>2
    <3> QED BY <2>1, <3>3
  <2>3. u \in as
    BY <1>2 DEF A!IsAdmin
  <2>4. \E v \in as : v # u
    BY <2>2, <2>3
  <2> QED BY <2>4 DEF A!IsAdmin
<1> QED BY <1>1, <1>2

LEMMA AccountBegin ==
    ASSUME A!AccountsAssumption, AccountInv, NEW q \in Changes, NEW op \in {"demote", "promote", "remove", "reset"},
           NEW actor \in Users, NEW u \in Users, NEW t \in Customers, A!Begin(q, op, actor, u, t)
    PROVE  AccountInv'
<1> USE DEF AccountInv, RolesInv
<1> DEFINE new == [A!Idle EXCEPT !.op = op, !.actor = actor, !.user = u, !.tenant = t]
<1>1. /\ req[q].op = "idle" /\ role[actor][t] = "admin" /\ role[u][t] # "none"
      /\ op \in {"demote", "remove"} => ~A!LastAdmin(u, t)
      /\ req' = [req EXCEPT ![q] = new]
      /\ accounts_raced' = (IF op \in A!MemberOps /\ A!Underway(t) # {} THEN accounts_raced \cup {t} ELSE accounts_raced)
      /\ UNCHANGED <<role, accounts, operator, password, sessions, strays>>
  BY DEF A!Begin, A!Change, A!IsAdmin, A!Member
<1>2. new \in ReqRec /\ new.op = op /\ new.user = u /\ new.tenant = t
  BY IdleRequest DEF ReqRec, Doings
<1> HIDE DEF new
<1>3. req \in [Changes -> ReqRec] /\ req'[q] = new /\ (\A p \in Changes : p # q => req'[p] = req[p]) /\ req' \in [Changes -> ReqRec]
  BY <1>1, <1>2 DEF AccountTypes
<1>4. accounts_raced \subseteq accounts_raced' /\ accounts_raced' \in SUBSET Customers
  BY <1>1 DEF AccountTypes
<1>5. AccountTypes'
  BY <1>1, <1>3, <1>4 DEF AccountTypes
<1>6. op \in A!MemberOps /\ t \notin accounts_raced' => \A p \in Changes : ~Doing(p, t)
  <2>1. A!MemberOps \cup {"commit"} = Doings
    BY DEF A!MemberOps, Doings
  <2> QED BY <1>1, <2>1 DEF A!Underway, Doing
<1>7. OneAtATime'
  <2> SUFFICES ASSUME NEW s \in Customers, s \notin accounts_raced', NEW p1 \in Changes, NEW p2 \in Changes, Doing(p1, s)', Doing(p2, s)'
               PROVE  p1 = p2
    BY DEF OneAtATime
  <2>1. CASE p1 # q /\ p2 # q
    BY <1>3, <1>4, <2>1 DEF OneAtATime, Doing
  <2>2. CASE p1 # p2 /\ (p1 = q \/ p2 = q)
    <3>1. s = t /\ op \in Doings /\ \E p \in Changes : Doing(p, t)
      BY <1>2, <1>3, <2>2 DEF Doing
    <3>2. op \in A!MemberOps
      BY <3>1 DEF A!MemberOps, Doings
    <3> QED BY <1>6, <3>1, <3>2
  <2> QED BY <2>1, <2>2
<1>8. StillMember'
  BY <1>1, <1>2, <1>3, <1>4 DEF StillMember
<1>9. GoneElsewhere'
  BY <1>1, <1>2, <1>3, <1>4 DEF GoneElsewhere
<1>10. AnotherAdmin'
  <2>1. ASSUME op \in {"demote", "remove"}, t \notin accounts_raced'
        PROVE  \E v \in Users \ {u} : role[v][t] = "admin"
    BY <1>1, <1>4, <2>1, OtherAdmin
  <2> SUFFICES ASSUME NEW p \in Changes, req'[p].op \in {"demote", "remove", "commit"}, req'[p].tenant \notin accounts_raced'
               PROVE  \E v \in Users \ {req'[p].user} : role'[v][req'[p].tenant] = "admin"
    BY DEF AnotherAdmin
  <2>2. CASE p = q
    BY <1>1, <1>2, <1>3, <2>1, <2>2
  <2>3. CASE p # q
    BY <1>1, <1>3, <1>4, <2>3 DEF AnotherAdmin
  <2> QED BY <2>2, <2>3
<1>11. MembersExist' /\ AdminsLeft' /\ Mirrored' /\ Fresh'
  BY <1>1, <1>4 DEF MembersExist, AdminsLeft, Mirrored, Fresh
<1>12. SignInsFresh'
  BY <1>1, <1>2, <1>3 DEF SignInsFresh
<1> QED BY <1>5, <1>7, <1>8, <1>9, <1>10, <1>11, <1>12

LEMMA AccountSetRole ==
    ASSUME A!AccountsAssumption, AccountInv, NEW q \in Changes, A!SetRole(q)
    PROVE  AccountInv'
<1> USE DEF AccountInv, RolesInv
<1> DEFINE u == req[q].user
           t == req[q].tenant
           r == IF req[q].op = "promote" THEN "admin" ELSE "reader"
<1>1. /\ req[q].op \in {"promote", "demote"} /\ req' = [req EXCEPT ![q] = A!Idle]
      /\ u \in accounts
      /\ role' = [role EXCEPT ![u][t] = r]
      /\ operator' = A!Mirror(u, t, r)
      /\ strays' = (IF t = Default THEN strays \ {u} ELSE strays)
      /\ UNCHANGED <<accounts, password, sessions, accounts_raced>>
  BY DEF A!SetRole
<1>2. u \in Users /\ t \in Customers /\ r \in {"admin", "reader"} /\ role \in [Users -> [Customers -> RoleSet]] /\ req \in [Changes -> ReqRec]
  BY DEF AccountTypes, ReqRec
<1>3. req'[q] = A!Idle /\ (\A p \in Changes : p # q => req'[p] = req[p]) /\ req' \in [Changes -> ReqRec]
  BY <1>1, <1>2, IdleRequest
<1>4. r = "reader" => req[q].op = "demote"
  BY <1>1
<1>5. Doing(q, t)
  BY <1>1 DEF Doing, Doings
<1> HIDE DEF u, t, r
<1>6. /\ role' \in [Users -> [Customers -> RoleSet]] /\ role'[u][t] = r
      /\ \A v \in Users, s \in Customers : v # u \/ s # t => role'[v][s] = role[v][s]
  BY <1>1, <1>2 DEF RoleSet
<1>7. operator' \in SUBSET Users /\ (t # Default => operator' = operator)
      /\ (t = Default => (u \in operator' <=> r = "admin") /\ \A v \in Users : v # u => (v \in operator' <=> v \in operator))
  <2>1. operator \in SUBSET Users
    BY DEF AccountTypes
  <2>2. CASE t # Default
    BY <1>1, <2>1, <2>2 DEF A!Mirror
  <2>3. CASE t = Default /\ r = "admin"
    BY <1>1, <1>2, <2>1, <2>3 DEF A!Mirror
  <2>4. CASE t = Default /\ r # "admin"
    BY <1>1, <1>2, <2>1, <2>4 DEF A!Mirror
  <2> QED BY <2>2, <2>3, <2>4
<1>8. AccountTypes'
  BY <1>1, <1>3, <1>6, <1>7 DEF AccountTypes
<1>9. MembersExist'
  BY <1>1, <1>6 DEF MembersExist
<1>10. OneAtATime'
  BY <1>1, <1>3, IdleRequest DEF OneAtATime, Doing, Doings
<1>11. StillMember'
  <2> SUFFICES ASSUME NEW p \in Changes, req'[p].op \in {"promote", "demote"}, req'[p].tenant \notin accounts_raced', req'[p].user \in accounts'
               PROVE  role'[req'[p].user][req'[p].tenant] # "none"
    BY DEF StillMember
  <2>1. p # q /\ req'[p] = req[p] /\ req[p] \in ReqRec
    BY <1>2, <1>3, IdleRequest
  <2>2. role[req[p].user][req[p].tenant] # "none" /\ req[p].user \in Users /\ req[p].tenant \in Customers
    BY <1>1, <2>1 DEF StillMember, ReqRec
  <2> QED BY <1>2, <1>6, <2>1, <2>2, SMTT(30)
<1>12. GoneElsewhere'
  <2> SUFFICES ASSUME NEW p \in Changes, req'[p].op = "commit", req'[p].gone, NEW s \in Customers, s \notin accounts_raced', s # req'[p].tenant
               PROVE  role'[req'[p].user][s] = "none"
    BY DEF GoneElsewhere
  <2>1. p # q /\ req'[p] = req[p] /\ req[p].user \in Users
    BY <1>2, <1>3, IdleRequest DEF ReqRec
  <2>2. role[req[p].user][s] = "none"
    BY <1>1, <2>1 DEF GoneElsewhere
  <2>3. CASE req[p].user = u /\ s = t
    <3>1. role[u][t] # "none"
      BY <1>1, <2>3 DEF StillMember, u, t
    <3> QED BY <2>2, <2>3, <3>1
  <2> QED BY <1>6, <2>1, <2>2, <2>3
<1>13. AnotherAdmin'
  <2> SUFFICES ASSUME NEW p \in Changes, req'[p].op \in {"demote", "remove", "commit"}, req'[p].tenant \notin accounts_raced'
               PROVE  \E v \in Users \ {req'[p].user} : role'[v][req'[p].tenant] = "admin"
    BY DEF AnotherAdmin
  <2>1. p # q /\ req'[p] = req[p] /\ req[p].tenant \in Customers
    BY <1>2, <1>3, IdleRequest DEF ReqRec
  <2>2. req[p].tenant # t
    <3>1. Doing(p, req[p].tenant)
      BY <2>1 DEF Doing, Doings
    <3> QED BY <1>1, <1>2, <1>5, <2>1, <3>1 DEF OneAtATime
  <2>3. PICK v \in Users \ {req[p].user} : role[v][req[p].tenant] = "admin"
    BY <1>1, <2>1 DEF AnotherAdmin
  <2> QED BY <1>6, <2>1, <2>2, <2>3
<1>14. AdminsLeft'
  <2> SUFFICES ASSUME NEW s \in Customers, s \notin accounts_raced' PROVE \E v \in Users : role'[v][s] = "admin"
    BY DEF AdminsLeft
  <2>1. CASE s # t
    BY <1>1, <1>6, <2>1 DEF AdminsLeft
  <2>2. CASE s = t /\ r = "admin"
    BY <1>2, <1>6, <2>2
  <2>3. CASE s = t /\ r # "admin"
    <3>1. req[q].op = "demote"
      BY <1>2, <1>4, <2>3
    <3>2. PICK v \in Users \ {u} : role[v][t] = "admin"
      BY <1>1, <2>3, <3>1 DEF AnotherAdmin, u, t
    <3> QED BY <1>6, <2>3, <3>2
  <2> QED BY <2>1, <2>2, <2>3
<1>15. Mirrored'
  <2>1. Default \in Customers
    BY DEF A!AccountsAssumption
  <2>2. CASE t = Default
    BY <1>1, <1>2, <1>6, <1>7, <2>1, <2>2 DEF Mirrored
  <2>3. CASE t # Default
    BY <1>1, <1>2, <1>6, <1>7, <2>1, <2>3 DEF Mirrored
  <2> QED BY <2>2, <2>3
<1>16. Fresh' /\ SignInsFresh'
  BY <1>1, <1>3, IdleRequest DEF Fresh, SignInsFresh
<1> QED BY <1>8, <1>9, <1>10, <1>11, <1>12, <1>13, <1>14, <1>15, <1>16


LEMMA AccountDecide ==
    ASSUME A!AccountsAssumption, AccountInv, NEW q \in Changes, A!Decide(q)
    PROVE  AccountInv'
<1> USE DEF AccountInv, RolesInv
<1> DEFINE left == (\A s \in Customers \ {req[q].tenant} : ~A!Member(req[q].user, s))
                   /\ (req[q].user \notin operator \/ req[q].actor \in operator)
<1>1. /\ req[q].op = "remove" /\ req' = [req EXCEPT ![q].op = "commit", ![q].gone = left]
      /\ UNCHANGED <<role, accounts, operator, password, sessions, accounts_raced, strays>>
  BY DEF A!Decide
<1>2. left \in BOOLEAN
  OBVIOUS
<1>3. left => \A s \in Customers \ {req[q].tenant} : role[req[q].user][s] = "none"
  BY DEF A!Member
<1> HIDE DEF left
<1>4. /\ req'[q].op = "commit" /\ req'[q].gone = left /\ req'[q].user = req[q].user /\ req'[q].tenant = req[q].tenant
      /\ \A p \in Changes : p # q => req'[p] = req[p]
      /\ req' \in [Changes -> ReqRec]
  <2> DEFINE fresh == [req[q] EXCEPT !.op = "commit", !.gone = left]
  <2>1. req \in [Changes -> ReqRec] /\ req[q] \in ReqRec
    BY DEF AccountTypes
  <2>2. req' = [req EXCEPT ![q] = fresh]
    BY <1>1, <2>1
  <2>3. fresh.op = "commit" /\ fresh.gone = left /\ fresh.user = req[q].user /\ fresh.tenant = req[q].tenant
    BY <2>1 DEF ReqRec
  <2>4. fresh \in ReqRec
    BY <1>2, <2>1, Zenon DEF ReqRec, Doings
  <2> HIDE DEF fresh
  <2> QED BY <2>1, <2>2, <2>3, <2>4
<1>5. AccountTypes'
  BY <1>1, <1>4 DEF AccountTypes
<1>6. \A p \in Changes, s \in Customers : Doing(p, s)' => Doing(p, s)
  BY <1>1, <1>4 DEF Doing, Doings
<1>7. OneAtATime'
  BY <1>1, <1>6 DEF OneAtATime
<1>8. StillMember'
  BY <1>1, <1>4 DEF StillMember
<1>9. GoneElsewhere'
  BY <1>1, <1>3, <1>4 DEF GoneElsewhere
<1>10. AnotherAdmin'
  BY <1>1, <1>4 DEF AnotherAdmin
<1>11. MembersExist' /\ AdminsLeft' /\ Mirrored' /\ Fresh'
  BY <1>1 DEF MembersExist, AdminsLeft, Mirrored, Fresh
<1>12. SignInsFresh'
  BY <1>1, <1>4 DEF SignInsFresh
<1> QED BY <1>5, <1>7, <1>8, <1>9, <1>10, <1>11, <1>12

LEMMA AccountRevoke ==
    ASSUME A!AccountsAssumption, AccountInv, NEW q \in Changes, A!Revoke(q)
    PROVE  AccountInv'
<1> USE DEF AccountInv, RolesInv
<1> DEFINE u == req[q].user
           t == req[q].tenant
           gone == req[q].gone
<1>1. /\ req[q].op = "commit" /\ req' = [req EXCEPT ![q] = A!Idle]
      /\ role' = [role EXCEPT ![u] = [s \in Customers |-> IF s = t \/ gone THEN "none" ELSE role[u][s]]]
      /\ gone => /\ accounts' = accounts \ {u} /\ sessions' = {s \in sessions : s.user # u}
                 /\ operator' = operator \ {u} /\ strays' = strays \ {u}
      /\ ~gone => /\ UNCHANGED <<accounts, sessions, operator>>
                  /\ strays' = (IF t = Default THEN strays \cup {u} ELSE strays)
      /\ UNCHANGED <<password, accounts_raced>>
  <2>1. u \in Users /\ role \in [Users -> [Customers -> RoleSet]] /\ req \in [Changes -> ReqRec]
    BY DEF AccountTypes, ReqRec
  <2> QED BY <2>1 DEF A!Revoke, A!Closed
<1>2. u \in Users /\ t \in Customers /\ gone \in BOOLEAN /\ role \in [Users -> [Customers -> RoleSet]] /\ req \in [Changes -> ReqRec]
  BY DEF AccountTypes, ReqRec
<1>3. req'[q] = A!Idle /\ (\A p \in Changes : p # q => req'[p] = req[p]) /\ req' \in [Changes -> ReqRec]
  BY <1>1, <1>2, IdleRequest
<1>4. Doing(q, t)
  BY <1>1 DEF Doing, Doings
<1>5. t \notin accounts_raced => \A p \in Changes : Doing(p, t) => p = q
  BY <1>2, <1>4 DEF OneAtATime
<1>6. gone => \A s \in Customers \ (accounts_raced \cup {t}) : role[u][s] = "none"
  BY <1>1 DEF GoneElsewhere
<1>7. t \notin accounts_raced => \E v \in Users \ {u} : role[v][t] = "admin"
  BY <1>1 DEF AnotherAdmin
<1> HIDE DEF u, t, gone
<1>8. /\ role' \in [Users -> [Customers -> RoleSet]]
      /\ \A s \in Customers : role'[u][s] = IF s = t \/ gone THEN "none" ELSE role[u][s]
      /\ \A v \in Users, s \in Customers : v # u => role'[v][s] = role[v][s]
  <2>1. [s \in Customers |-> IF s = t \/ gone THEN "none" ELSE role[u][s]] \in [Customers -> RoleSet]
    BY <1>2 DEF RoleSet
  <2> QED BY <1>1, <1>2, <2>1
<1>9. \A v \in Users, s \in Customers : s # t /\ s \notin accounts_raced => role'[v][s] = role[v][s]
  BY <1>6, <1>8
<1>10. AccountTypes'
  <2>1. accounts' \in SUBSET Users /\ operator' \in SUBSET Users /\ sessions' \in SUBSET SessionRec /\ strays' \in SUBSET Users
    <3>1. CASE gone
      BY <1>1, <3>1 DEF AccountTypes
    <3>2. CASE ~gone
      BY <1>1, <1>2, <3>2 DEF AccountTypes
    <3> QED BY <3>1, <3>2
  <2> QED BY <1>1, <1>3, <1>8, <2>1 DEF AccountTypes
<1>11. MembersExist'
  <2> SUFFICES ASSUME NEW v \in Users, NEW s \in Customers, role'[v][s] # "none" PROVE v \in accounts'
    BY DEF MembersExist
  <2>1. role[v][s] # "none" /\ (v = u => ~gone)
    BY <1>8
  <2>2. v \in accounts
    BY <2>1 DEF MembersExist
  <2> QED BY <1>1, <1>2, <2>1, <2>2
<1>12. OneAtATime'
  BY <1>1, <1>3, IdleRequest DEF OneAtATime, Doing, Doings
<1>13. \A p \in Changes : req'[p].op # "idle" => p # q /\ req'[p] = req[p] /\ req[p].user \in Users /\ req[p].tenant \in Customers
  BY <1>2, <1>3, IdleRequest DEF ReqRec
<1>14. \A p \in Changes : p # q /\ req[p].op \in Doings /\ req[p].tenant \notin accounts_raced => req[p].tenant # t
  BY <1>5 DEF Doing
<1>15. StillMember'
  <2> SUFFICES ASSUME NEW p \in Changes, req'[p].op \in {"promote", "demote"}, req'[p].tenant \notin accounts_raced', req'[p].user \in accounts'
               PROVE  role'[req'[p].user][req'[p].tenant] # "none"
    BY DEF StillMember
  <2>1. p # q /\ req'[p] = req[p] /\ req[p].user \in Users /\ req[p].tenant \in Customers
    BY <1>13
  <2>2. req[p].tenant # t
    BY <1>1, <1>14, <2>1 DEF Doings
  <2>3. req[p].user \in accounts
    BY <1>1, <1>2, <2>1
  <2>4. role[req[p].user][req[p].tenant] # "none"
    BY <1>1, <2>1, <2>3 DEF StillMember
  <2> QED BY <1>1, <1>9, <2>1, <2>2, <2>4
<1>16. GoneElsewhere'
  <2> SUFFICES ASSUME NEW p \in Changes, req'[p].op = "commit", req'[p].gone, NEW s \in Customers, s \notin accounts_raced', s # req'[p].tenant
               PROVE  role'[req'[p].user][s] = "none"
    BY DEF GoneElsewhere
  <2>1. p # q /\ req'[p] = req[p] /\ req[p].user \in Users
    BY <1>13
  <2>2. role[req[p].user][s] = "none"
    BY <1>1, <2>1 DEF GoneElsewhere
  <2> QED BY <1>8, <2>1, <2>2
<1>17. AnotherAdmin'
  <2> SUFFICES ASSUME NEW p \in Changes, req'[p].op \in {"demote", "remove", "commit"}, req'[p].tenant \notin accounts_raced'
               PROVE  \E v \in Users \ {req'[p].user} : role'[v][req'[p].tenant] = "admin"
    BY DEF AnotherAdmin
  <2>1. p # q /\ req'[p] = req[p] /\ req[p].tenant \in Customers
    BY <1>13
  <2>2. req[p].tenant # t
    BY <1>1, <1>14, <2>1 DEF Doings
  <2>3. PICK v \in Users \ {req[p].user} : role[v][req[p].tenant] = "admin"
    BY <1>1, <2>1 DEF AnotherAdmin
  <2> QED BY <1>1, <1>9, <2>1, <2>2, <2>3
<1>18. AdminsLeft'
  <2> SUFFICES ASSUME NEW s \in Customers, s \notin accounts_raced' PROVE \E v \in Users : role'[v][s] = "admin"
    BY DEF AdminsLeft
  <2>1. CASE s # t
    BY <1>1, <1>9, <2>1 DEF AdminsLeft
  <2>2. CASE s = t
    BY <1>1, <1>7, <1>8, <2>2
  <2> QED BY <2>1, <2>2
<1>19. Mirrored'
  <2> SUFFICES ASSUME NEW v \in Users, v \notin strays' PROVE v \in operator' <=> role'[v][Default] = "admin"
    BY DEF Mirrored
  <2>1. Default \in Customers
    BY DEF A!AccountsAssumption
  <2>2. CASE v # u
    <3>1. v \notin strays /\ (v \in operator' <=> v \in operator)
      BY <1>1, <1>2, <2>2
    <3> QED BY <1>8, <2>1, <2>2, <3>1 DEF Mirrored
  <2>3. CASE v = u /\ gone
    BY <1>1, <1>8, <2>1, <2>3
  <2>4. CASE v = u /\ ~gone
    <3>1. t # Default /\ v \notin strays /\ operator' = operator
      BY <1>1, <2>4
    <3>2. role'[v][Default] = role[v][Default]
      BY <1>8, <2>1, <2>4, <3>1
    <3> QED BY <3>1, <3>2 DEF Mirrored
  <2> QED BY <1>2, <2>2, <2>3, <2>4
<1>20. Fresh'
  <2>1. CASE gone
    BY <1>1, <2>1 DEF Fresh
  <2>2. CASE ~gone
    BY <1>1, <2>2 DEF Fresh
  <2> QED BY <1>2, <2>1, <2>2
<1>21. SignInsFresh'
  BY <1>1, <1>3, IdleRequest DEF SignInsFresh
<1> QED BY <1>10, <1>11, <1>12, <1>15, <1>16, <1>17, <1>18, <1>19, <1>20, <1>21

LEMMA AccountAbort ==
    ASSUME A!AccountsAssumption, AccountInv, NEW q \in Changes, A!Abort(q)
    PROVE  AccountInv'
<1>1. /\ req' = [req EXCEPT ![q] = A!Idle]
      /\ UNCHANGED <<role, accounts, operator, password, sessions, accounts_raced, strays>>
  BY DEF A!Abort
<1>2. req \in [Changes -> ReqRec]
  BY DEF AccountInv, AccountTypes
<1>3. req' \in [Changes -> ReqRec] /\ \A p \in Changes : req'[p] = req[p] \/ req'[p].op = "idle"
  BY <1>1, <1>2, IdleRequest
<1> QED BY <1>1, <1>3, AccountsUntouched

(* A password change makes the sign-ins of the user late and nothing else. *)
LEMMA SignInsLate ==
    ASSUME AccountTypes, NEW u \in Users
    PROVE  /\ A!Late(u) \in [Changes -> ReqRec]
           /\ \A p \in Changes : A!Late(u)[p] = req[p] \/ (A!Late(u)[p].op = "session" /\ A!Late(u)[p].late)
           /\ \A p \in Changes : req[p].op = "session" /\ req[p].user = u => A!Late(u)[p].late
<1>1. req \in [Changes -> ReqRec]
  BY DEF AccountTypes
<1>2. ASSUME NEW p \in Changes
      PROVE  /\ [req[p] EXCEPT !.late = TRUE] \in ReqRec /\ [req[p] EXCEPT !.late = TRUE].late
             /\ [req[p] EXCEPT !.late = TRUE].op = req[p].op
  <2>1. req[p] \in ReqRec
    BY <1>1
  <2> QED BY <2>1 DEF ReqRec
<1> QED BY <1>1, <1>2 DEF A!Late

LEMMA AccountReset ==
    ASSUME A!AccountsAssumption, AccountInv, NEW q \in Changes, A!Reset(q)
    PROVE  AccountInv'
<1> USE DEF AccountInv
<1> DEFINE u == req[q].user
<1>1. /\ req[q].op = "reset" /\ u \in accounts
      /\ password' = [password EXCEPT ![u] = @ + 1] /\ sessions' = {s \in sessions : s.user # u}
      /\ req' = [A!Late(u) EXCEPT ![q] = A!Idle]
      /\ UNCHANGED <<role, accounts, operator, accounts_raced, strays>>
  BY DEF A!Reset, A!Closed
<1>2. u \in Users
  BY DEF AccountTypes, ReqRec
<1> HIDE DEF u
<1>3. /\ A!Late(u) \in [Changes -> ReqRec]
      /\ \A p \in Changes : A!Late(u)[p] = req[p] \/ (A!Late(u)[p].op = "session" /\ A!Late(u)[p].late)
      /\ \A p \in Changes : req[p].op = "session" /\ req[p].user = u => A!Late(u)[p].late
  BY <1>2, SignInsLate
<1>4. /\ req'[q] = A!Idle /\ \A p \in Changes : p # q => req'[p] = A!Late(u)[p]
      /\ req' \in [Changes -> ReqRec]
  BY <1>1, <1>3, IdleRequest
<1>5. password' \in [Users -> Nat] /\ \A v \in Users : v # u => password'[v] = password[v]
  BY <1>1, <1>2 DEF AccountTypes
<1>6. AccountTypes'
  BY <1>1, <1>4, <1>5 DEF AccountTypes
<1>7. RolesInv'
  BY <1>1, <1>3, <1>4, IdleRequest, RolesStay DEF Doings
<1>8. Fresh'
  BY <1>1, <1>5 DEF Fresh, AccountTypes
<1>9. SignInsFresh'
  <2> SUFFICES ASSUME NEW p \in Changes, req'[p].op = "session", ~req'[p].late PROVE req'[p].opened = password'[req'[p].user]
    BY DEF SignInsFresh
  <2>1. p # q /\ req'[p] = req[p]
    BY <1>3, <1>4, IdleRequest
  <2>2. req[p].user \in Users /\ req[p].user # u
    BY <1>3, <1>4, <2>1 DEF AccountTypes, ReqRec
  <2> QED BY <1>5, <2>1, <2>2 DEF SignInsFresh
<1> QED BY <1>6, <1>7, <1>8, <1>9

LEMMA AccountChangeOwn ==
    ASSUME A!AccountsAssumption, AccountInv, NEW x \in sessions, A!ChangeOwn(x)
    PROVE  AccountInv'
<1> USE DEF AccountInv
<1> DEFINE u == x.user
           mine == [x EXCEPT !.own = TRUE]
<1>1. /\ password' = [password EXCEPT ![u] = @ + 1] /\ sessions' = {s \in sessions : s.user # u} \cup {mine}
      /\ req' = A!Late(u)
      /\ UNCHANGED <<role, accounts, operator, accounts_raced, strays>>
  BY DEF A!ChangeOwn, A!Closed
<1>2. x \in SessionRec /\ u \in Users /\ u \in accounts
  BY DEF AccountTypes, SessionRec, Fresh
<1>3. mine \in SessionRec /\ mine.user = u /\ mine.own
  BY <1>2 DEF SessionRec
<1> HIDE DEF u, mine
<1>4. /\ req' \in [Changes -> ReqRec]
      /\ \A p \in Changes : req'[p] = req[p] \/ (req'[p].op = "session" /\ req'[p].late)
      /\ \A p \in Changes : req[p].op = "session" /\ req[p].user = u => req'[p].late
  BY <1>1, <1>2, SignInsLate
<1>5. password' \in [Users -> Nat] /\ \A v \in Users : v # u => password'[v] = password[v]
  BY <1>1, <1>2 DEF AccountTypes
<1>6. AccountTypes'
  BY <1>1, <1>3, <1>4, <1>5 DEF AccountTypes
<1>7. RolesInv'
  BY <1>1, <1>4, RolesStay DEF Doings
<1>8. Fresh'
  <2> SUFFICES ASSUME NEW s \in sessions' PROVE s.user \in accounts' /\ (s.own \/ s.opened = password'[s.user])
    BY DEF Fresh
  <2>1. CASE s = mine
    BY <1>1, <1>2, <1>3, <2>1
  <2>2. CASE s # mine
    <3>1. s \in sessions /\ s.user # u /\ s.user \in Users
      BY <1>1, <2>2 DEF AccountTypes, SessionRec
    <3> QED BY <1>1, <1>5, <3>1 DEF Fresh
  <2> QED BY <2>1, <2>2
<1>9. SignInsFresh'
  <2> SUFFICES ASSUME NEW p \in Changes, req'[p].op = "session", ~req'[p].late PROVE req'[p].opened = password'[req'[p].user]
    BY DEF SignInsFresh
  <2>1. req'[p] = req[p]
    BY <1>4
  <2>2. req[p].user \in Users /\ req[p].user # u
    BY <1>4, <2>1 DEF AccountTypes, ReqRec
  <2> QED BY <1>5, <2>1, <2>2 DEF SignInsFresh
<1> QED BY <1>6, <1>7, <1>8, <1>9

LEMMA AccountLogout ==
    ASSUME AccountInv, NEW x \in sessions, A!Logout(x)
    PROVE  AccountInv'
<1> USE DEF AccountInv
<1>1. sessions' = sessions \ {x} /\ UNCHANGED <<role, accounts, operator, password, req, accounts_raced, strays>>
  BY DEF A!Logout
<1>2. AccountTypes' /\ Fresh' /\ SignInsFresh'
  BY <1>1 DEF AccountTypes, Fresh, SignInsFresh
<1> QED BY <1>1, <1>2, RolesStay

LEMMA AccountVerify ==
    ASSUME A!AccountsAssumption, AccountInv, NEW q \in Changes, NEW u \in Users, A!Verify(q, u)
    PROVE  AccountInv'
<1> USE DEF AccountInv
<1> DEFINE fresh == [A!Idle EXCEPT !.op = "session", !.user = u, !.opened = password[u]]
<1>1. req' = [req EXCEPT ![q] = fresh] /\ UNCHANGED <<role, accounts, operator, password, sessions, accounts_raced, strays>>
  BY DEF A!Verify
<1>2. password[u] \in Nat /\ req \in [Changes -> ReqRec]
  BY DEF AccountTypes
<1>3. fresh \in ReqRec /\ fresh.op = "session" /\ fresh.user = u /\ fresh.opened = password[u]
  BY <1>2, IdleRequest DEF ReqRec
<1> HIDE DEF fresh
<1>4. req'[q] = fresh /\ (\A p \in Changes : p # q => req'[p] = req[p]) /\ req' \in [Changes -> ReqRec]
  BY <1>1, <1>2, <1>3
<1>5. AccountTypes' /\ Fresh'
  BY <1>1, <1>4 DEF AccountTypes, Fresh
<1>6. RolesInv'
  BY <1>1, <1>3, <1>4, RolesStay DEF Doings
<1>7. SignInsFresh'
  BY <1>1, <1>3, <1>4 DEF SignInsFresh
<1> QED BY <1>5, <1>6, <1>7

LEMMA AccountSignIn ==
    ASSUME A!AccountsAssumption, AccountInv, NEW q \in Changes, A!SignIn(q)
    PROVE  AccountInv'
<1> USE DEF AccountInv
<1> DEFINE u == req[q].user
           mine == [user |-> u, opened |-> req[q].opened, own |-> req[q].late]
<1>1. /\ req[q].op = "session" /\ u \in accounts
      /\ sessions' = sessions \cup {mine} /\ req' = [req EXCEPT ![q] = A!Idle]
      /\ UNCHANGED <<role, accounts, operator, password, accounts_raced, strays>>
  BY DEF A!SignIn
<1>2. req \in [Changes -> ReqRec] /\ req[q] \in ReqRec
  BY DEF AccountTypes
<1>3. mine \in SessionRec
  BY <1>2 DEF SessionRec, ReqRec
<1>4. mine.user = u /\ (mine.own \/ mine.opened = password[u])
  <2>1. req[q].late \/ req[q].opened = password[u]
    BY <1>1 DEF SignInsFresh
  <2> QED BY <2>1
<1> HIDE DEF u, mine
<1>5. req'[q] = A!Idle /\ (\A p \in Changes : p # q => req'[p] = req[p]) /\ req' \in [Changes -> ReqRec]
  BY <1>1, <1>2, IdleRequest
<1>6. AccountTypes'
  BY <1>1, <1>3, <1>5 DEF AccountTypes
<1>7. RolesInv'
  BY <1>1, <1>5, IdleRequest, RolesStay DEF Doings
<1>8. Fresh'
  BY <1>1, <1>4 DEF Fresh
<1>9. SignInsFresh'
  BY <1>1, <1>5, IdleRequest DEF SignInsFresh
<1> QED BY <1>6, <1>7, <1>8, <1>9

LEMMA AccountLdapLogin ==
    ASSUME A!AccountsAssumption, AccountInv, NEW u \in Users, NEW r \in {"admin", "reader"}, A!LdapLogin(u, r)
    PROVE  AccountInv'
<1> USE DEF AccountInv, RolesInv
<1> DEFINE mine == [user |-> u, opened |-> password[u], own |-> FALSE]
<1>1. /\ \A q \in Changes : req[q].op = "idle" \/ req[q].user # u
      /\ accounts' = accounts \cup {u} /\ role' = [role EXCEPT ![u][Default] = r] /\ operator' = A!Mirror(u, Default, r)
      /\ accounts_raced' = (IF (A!LastAdmin(u, Default) /\ r # "admin") \/ A!Underway(Default) # {}
                              THEN accounts_raced \cup {Default} ELSE accounts_raced)
      /\ strays' = strays \ {u} /\ sessions' = sessions \cup {mine} /\ UNCHANGED <<password, req>>
  BY DEF A!LdapLogin
<1>2. Default \in Customers /\ role \in [Users -> [Customers -> RoleSet]] /\ req \in [Changes -> ReqRec] /\ password[u] \in Nat
  BY DEF AccountTypes, A!AccountsAssumption
<1>3. mine \in SessionRec /\ mine.user = u /\ mine.opened = password[u]
  BY <1>2 DEF SessionRec
<1> HIDE DEF mine
<1>4. /\ role' \in [Users -> [Customers -> RoleSet]] /\ role'[u][Default] = r
      /\ \A v \in Users, s \in Customers : v # u \/ s # Default => role'[v][s] = role[v][s]
  BY <1>1, <1>2 DEF RoleSet
<1>5. operator' \in SUBSET Users /\ (u \in operator' <=> r = "admin") /\ \A v \in Users : v # u => (v \in operator' <=> v \in operator)
  <2>1. operator \in SUBSET Users
    BY DEF AccountTypes
  <2>2. CASE r = "admin"
    BY <1>1, <2>1, <2>2 DEF A!Mirror
  <2>3. CASE r # "admin"
    BY <1>1, <2>1, <2>3 DEF A!Mirror
  <2> QED BY <2>2, <2>3
<1>6. accounts_raced \subseteq accounts_raced' /\ accounts_raced' \in SUBSET Customers
  BY <1>1, <1>2 DEF AccountTypes
<1>7. Default \notin accounts_raced' => \A p \in Changes : ~Doing(p, Default)
  <2>1. A!MemberOps \cup {"commit"} = Doings
    BY DEF A!MemberOps, Doings
  <2> QED BY <1>1, <2>1 DEF A!Underway, Doing
<1>8. AccountTypes'
  BY <1>1, <1>3, <1>4, <1>5, <1>6 DEF AccountTypes
<1>9. MembersExist'
  BY <1>1, <1>4 DEF MembersExist
<1>10. OneAtATime'
  BY <1>1, <1>6 DEF OneAtATime, Doing
<1>11. \A p \in Changes : req[p].op # "idle" => req[p].user \in Users /\ req[p].user # u /\ req[p].tenant \in Customers
  BY <1>1, <1>2 DEF ReqRec
<1>12. StillMember'
  BY <1>1, <1>4, <1>6, <1>11 DEF StillMember
<1>13. GoneElsewhere'
  BY <1>1, <1>4, <1>6, <1>11 DEF GoneElsewhere
<1>14. AnotherAdmin'
  <2> SUFFICES ASSUME NEW p \in Changes, req[p].op \in {"demote", "remove", "commit"}, req[p].tenant \notin accounts_raced'
               PROVE  \E v \in Users \ {req[p].user} : role'[v][req[p].tenant] = "admin"
    BY <1>1 DEF AnotherAdmin
  <2>1. req[p].tenant # Default /\ req[p].tenant \in Customers
    BY <1>7, <1>11 DEF Doing, Doings
  <2>2. PICK v \in Users \ {req[p].user} : role[v][req[p].tenant] = "admin"
    BY <1>6 DEF AnotherAdmin
  <2> QED BY <1>4, <2>1, <2>2
<1>15. AdminsLeft'
  <2> SUFFICES ASSUME NEW s \in Customers, s \notin accounts_raced' PROVE \E v \in Users : role'[v][s] = "admin"
    BY DEF AdminsLeft
  <2>1. CASE s # Default
    BY <1>4, <1>6, <2>1 DEF AdminsLeft
  <2>2. CASE s = Default /\ r = "admin"
    BY <1>4, <2>2
  <2>3. CASE s = Default /\ r # "admin"
    <3>1. ~A!LastAdmin(u, Default) /\ Default \notin accounts_raced
      BY <1>1, <1>6, <2>3
    <3>2. PICK v \in Users \ {u} : role[v][Default] = "admin"
      BY <1>2, <3>1, OtherAdmin
    <3> QED BY <1>2, <1>4, <2>3, <3>2
  <2> QED BY <2>1, <2>2, <2>3
<1>16. Mirrored'
  BY <1>1, <1>2, <1>4, <1>5 DEF Mirrored
<1>17. Fresh'
  BY <1>1, <1>3 DEF Fresh
<1>18. SignInsFresh'
  BY <1>1 DEF SignInsFresh
<1> QED BY <1>8, <1>9, <1>10, <1>12, <1>13, <1>14, <1>15, <1>16, <1>17, <1>18

LEMMA AccountCreate ==
    ASSUME A!AccountsAssumption, AccountInv, NEW u \in Users, NEW t \in Customers, A!Create(u, t)
    PROVE  AccountInv'
<1> USE DEF AccountInv, RolesInv
<1>1. /\ u \notin accounts /\ \A q \in Changes : req[q].op = "idle" \/ req[q].user # u
      /\ accounts' = accounts \cup {u} /\ role' = [role EXCEPT ![u][t] = "reader"]
      /\ password' = [password EXCEPT ![u] = @ + 1]
      /\ UNCHANGED <<operator, sessions, req, accounts_raced, strays>>
  BY DEF A!Create
<1>2. Default \in Customers /\ role \in [Users -> [Customers -> RoleSet]] /\ req \in [Changes -> ReqRec]
  BY DEF AccountTypes, A!AccountsAssumption
<1>3. /\ role' \in [Users -> [Customers -> RoleSet]] /\ role'[u][t] = "reader"
      /\ \A v \in Users, s \in Customers : v # u \/ s # t => role'[v][s] = role[v][s]
  BY <1>1, <1>2 DEF RoleSet
<1>4. password' \in [Users -> Nat] /\ \A v \in Users : v # u => password'[v] = password[v]
  BY <1>1 DEF AccountTypes
<1>5. \A s \in Customers : role[u][s] = "none" /\ role'[u][s] # "admin"
  BY <1>1, <1>3 DEF MembersExist
<1>6. \A p \in Changes : req[p].op # "idle" => req[p].user \in Users /\ req[p].user # u /\ req[p].tenant \in Customers
  BY <1>1, <1>2 DEF ReqRec
<1>7. \A v \in Users, s \in Customers : role[v][s] = "admin" => v # u /\ role'[v][s] = "admin"
  BY <1>3, <1>5
<1>8. AccountTypes'
  BY <1>1, <1>3, <1>4 DEF AccountTypes
<1>9. MembersExist'
  BY <1>1, <1>3 DEF MembersExist
<1>10. OneAtATime'
  BY <1>1 DEF OneAtATime, Doing
<1>11. StillMember'
  BY <1>1, <1>3, <1>6 DEF StillMember
<1>12. GoneElsewhere'
  BY <1>1, <1>3, <1>6 DEF GoneElsewhere
<1>13. AnotherAdmin'
  BY <1>1, <1>6, <1>7 DEF AnotherAdmin
<1>14. AdminsLeft'
  BY <1>1, <1>7 DEF AdminsLeft
<1>15. Mirrored'
  BY <1>1, <1>2, <1>3, <1>5 DEF Mirrored
<1>16. Fresh'
  <2>1. \A s \in sessions : s.user \in Users /\ s.user # u
    BY <1>1 DEF Fresh, AccountTypes, SessionRec
  <2> QED BY <1>1, <1>4, <2>1 DEF Fresh
<1>17. SignInsFresh'
  BY <1>1, <1>4, <1>6 DEF SignInsFresh
<1> QED BY <1>8, <1>9, <1>10, <1>11, <1>12, <1>13, <1>14, <1>15, <1>16, <1>17

LEMMA AccountStep ==
    ASSUME A!AccountsAssumption, AccountInv, A!AccountNext \/ UNCHANGED A!accountVars
    PROVE  AccountInv'
<1>1. ASSUME UNCHANGED A!accountVars PROVE AccountInv'
  <2>1. UNCHANGED <<role, accounts, operator, password, sessions, req, accounts_raced, strays>>
    BY <1>1 DEF A!accountVars
  <2> QED BY <2>1, AccountsUntouched DEF AccountInv, AccountTypes
<1>2. ASSUME NEW q \in Changes, NEW op \in A!MemberOps \cup {"reset"}, NEW actor \in Users, NEW u \in Users, NEW t \in Customers,
             A!Begin(q, op, actor, u, t)
      PROVE  AccountInv'
  BY <1>2, AccountBegin DEF A!MemberOps
<1>3. ASSUME NEW q \in Changes,
             A!SetRole(q) \/ A!Decide(q) \/ A!Revoke(q) \/ A!Abort(q) \/ A!Reset(q) \/ A!SignIn(q) \/ \E u \in Users : A!Verify(q, u)
      PROVE  AccountInv'
  BY <1>3, AccountSetRole, AccountDecide, AccountRevoke, AccountAbort, AccountReset, AccountSignIn, AccountVerify
<1>4. ASSUME NEW s \in sessions, A!ChangeOwn(s) \/ A!Logout(s) PROVE AccountInv'
  BY <1>4, AccountChangeOwn, AccountLogout
<1>5. ASSUME NEW u \in Users, (\E t \in Customers : A!Create(u, t)) \/ \E r \in {"admin", "reader"} : A!LdapLogin(u, r)
      PROVE  AccountInv'
  BY <1>5, AccountCreate, AccountLdapLogin
<1> QED BY <1>1, <1>2, <1>3, <1>4, <1>5 DEF A!AccountNext

LEMMA AccountSafe ==
    AccountInv => A!AdminLeft /\ A!OperatorMirrors /\ A!SessionsFresh /\ A!AccountTypeOK
<1> SUFFICES ASSUME AccountInv PROVE A!AdminLeft /\ A!OperatorMirrors /\ A!SessionsFresh /\ A!AccountTypeOK
  OBVIOUS
<1>1. A!AdminLeft
  BY DEF AccountInv, RolesInv, AdminsLeft, MembersExist, A!AdminLeft, A!IsAdmin
<1>2. A!OperatorMirrors
  BY DEF AccountInv, RolesInv, Mirrored, A!OperatorMirrors, A!IsAdmin
<1>3. A!SessionsFresh
  BY DEF AccountInv, Fresh, A!SessionsFresh
<1>4. A!AccountTypeOK
  BY DEF AccountInv, AccountTypes, RoleSet, SessionRec, A!AccountTypeOK
<1> QED BY <1>1, <1>2, <1>3, <1>4

-----------------------------------------------------------------------------
(***************************************************************************)
(* The licence.  What a refresh has read, or a request has stored, and not *)
(* used yet was in force in this tick, for a tick waits for both.          *)
(***************************************************************************)
Known == LC!Texts \cup {LC!Idle}
CacheRec == [text : LC!Texts, age : 0..(TTL + 1)]
LicenceTypes ==
    /\ env \in LC!Texts /\ row \in LC!Texts \ {"bad"} /\ licence_clock \in 0..(Term + Grace + 1)
    /\ licence_cache \in [Processes -> CacheRec] /\ reading \in [Processes -> Known] /\ storing \in [Processes -> Known]
    /\ mode \in [Processes -> {"down", "starting", "election", "alone"}]
    /\ licence_since \in [LC!Texts -> 0..(TTL + 2)]
    /\ first \in [Processes -> LC!Texts \cup {"unread"}]
HeldNow == licence_since[LC!InForce] = 0
ReadNow == \A p \in Processes : reading[p] # LC!Idle /\ env = "none" => licence_since[reading[p]] = 0
StoredNow == \A p \in Processes : storing[p] # LC!Idle => licence_since[storing[p]] = 0
LicenceInv == LicenceTypes /\ HeldNow /\ ReadNow /\ StoredNow /\ LC!LicenceFresh /\ LC!AloneExplained

LEMMA TextsApart == LC!Idle \notin LC!Texts /\ "none" \in LC!Texts /\ "bad" \in LC!Texts
  BY DEF LC!Texts, LC!Idle

LEMMA InForceKnown == ASSUME LicenceTypes PROVE LC!InForce \in LC!Texts
  BY DEF LicenceTypes, LC!InForce

LEMMA LicenceStart == ASSUME LC!LicensingAssumption PROVE LC!Init => LicenceInv
<1> SUFFICES ASSUME LC!Init PROVE LicenceInv
  OBVIOUS
<1>1. Term \in Nat /\ Grace \in Nat /\ TTL \in Nat /\ Envs \subseteq LC!Texts
  BY DEF LC!LicensingAssumption
<1>2. /\ env \in Envs /\ row = "none" /\ licence_clock = 0 /\ blind = {} /\ first = [p \in Processes |-> "none"]
      /\ licence_cache = [p \in Processes |-> [text |-> "none", age |-> TTL + 1]]
      /\ reading = [p \in Processes |-> LC!Idle] /\ storing = [p \in Processes |-> LC!Idle]
      /\ mode = [p \in Processes |-> "down"]
      /\ licence_since = [x \in LC!Texts |-> IF x = LC!InForce THEN 0 ELSE TTL + 1 + 1]
  BY DEF LC!Init, LC!Never
<1>3. "none" \in LC!Texts \ {"bad"}
  BY DEF LC!Texts
<1>4. [text |-> "none", age |-> TTL + 1] \in CacheRec
  BY <1>1, <1>3 DEF CacheRec
<1>5. licence_since \in [LC!Texts -> 0..(TTL + 2)]
  BY <1>1, <1>2
<1>6. LicenceTypes
  BY <1>1, <1>2, <1>3, <1>4, <1>5 DEF LicenceTypes, Known
<1>7. HeldNow
  BY <1>2, <1>6, InForceKnown DEF HeldNow
<1>8. ReadNow /\ StoredNow
  BY <1>2 DEF ReadNow, StoredNow
<1>9. LC!LicenceFresh
  BY <1>1, <1>2 DEF LC!LicenceFresh
<1>10. LC!AloneExplained
  BY <1>2 DEF LC!AloneExplained
<1> QED BY <1>6, <1>7, <1>8, <1>9, <1>10 DEF LicenceInv

(* A process without a licence to look at decides by what it has read.     *)
LEMMA AloneByText ==
    ASSUME NEW p \in Processes, NEW text \in LC!Texts, LicenceTypes
    PROVE  /\ LC!Decided(p, text) \in [Processes -> {"down", "starting", "election", "alone"}]
           /\ \A q \in Processes : q # p => LC!Decided(p, text)[q] = mode[q]
           /\ mode[p] # "starting" => LC!Decided(p, text)[p] = mode[p]
           /\ mode[p] = "starting" /\ LC!Decided(p, text)[p] = "alone" => text \in {"none", "bad"}
<1>1. mode \in [Processes -> {"down", "starting", "election", "alone"}]
  BY DEF LicenceTypes
<1>2. text \notin {"none", "bad"} => LC!FeatureMode(text, "ha_scheduler") = "full"
  <2> SUFFICES ASSUME text \notin {"none", "bad"} PROVE LC!FeatureMode(text, "ha_scheduler") = "full"
    OBVIOUS
  <2>1. text \in {"short", "long"}
    BY DEF LC!Texts
  <2>2. LC!Evaluate(text) \notin {"missing", "invalid"}
    BY <2>1 DEF LC!Evaluate, LC!Verified
  <2> QED BY <2>2 DEF LC!FeatureMode
<1>3. CASE mode[p] # "starting"
  BY <1>1, <1>3 DEF LC!Decided
<1>4. CASE mode[p] = "starting" /\ LC!FeatureMode(text, "ha_scheduler") = "full"
  BY <1>1, <1>4 DEF LC!Decided
<1>5. CASE mode[p] = "starting" /\ LC!FeatureMode(text, "ha_scheduler") # "full"
  BY <1>1, <1>2, <1>5 DEF LC!Decided
<1> QED BY <1>3, <1>4, <1>5

(* A refresh ends: the process keeps what was in force, or is blind.       *)
LEMMA LicenceKept ==
    ASSUME LC!LicensingAssumption, LicenceInv, NEW p \in Processes, NEW text \in LC!Texts, NEW why \in {text, "unread"},
           licence_cache' = [licence_cache EXCEPT ![p] = [text |-> text, age |-> 0]],
           reading' = [reading EXCEPT ![p] = LC!Idle], mode' = LC!Decided(p, text),
           blind' = blind \ {p} \/ blind' = blind \cup {p},
           p \notin blind' => licence_since[text] = 0,
           first' = IF mode[p] = "starting" THEN [first EXCEPT ![p] = why] ELSE first,
           UNCHANGED <<env, row, licence_clock, storing, licence_since>>
    PROVE  LicenceInv'
<1> USE DEF LicenceInv
<1>1. TTL \in Nat
  BY DEF LC!LicensingAssumption
<1>2. /\ licence_cache \in [Processes -> CacheRec] /\ reading \in [Processes -> Known] /\ first \in [Processes -> LC!Texts \cup {"unread"}]
      /\ LC!Idle \in Known
  BY DEF LicenceTypes, Known
<1>3. [text |-> text, age |-> 0] \in CacheRec
  BY <1>1 DEF CacheRec
<1>4. /\ licence_cache' \in [Processes -> CacheRec] /\ licence_cache'[p].text = text /\ licence_cache'[p].age = 0
      /\ \A q \in Processes : q # p => licence_cache'[q] = licence_cache[q]
  BY <1>2, <1>3
<1>5. /\ reading' \in [Processes -> Known] /\ reading'[p] = LC!Idle
      /\ \A q \in Processes : q # p => reading'[q] = reading[q]
  BY <1>2
<1>6. /\ first' \in [Processes -> LC!Texts \cup {"unread"}] /\ (\A q \in Processes : q # p => first'[q] = first[q])
      /\ (mode[p] = "starting" => first'[p] = why) /\ (mode[p] # "starting" => first'[p] = first[p])
  BY <1>2
<1>7. LicenceTypes'
  BY <1>4, <1>5, <1>6, AloneByText DEF LicenceTypes
<1>8. HeldNow' /\ ReadNow' /\ StoredNow'
  BY <1>5 DEF HeldNow, ReadNow, StoredNow, LC!InForce
<1>9. LC!LicenceFresh'
  <2> SUFFICES ASSUME NEW q \in Processes, q \notin blind', licence_cache'[q].age <= TTL
               PROVE  licence_since'[licence_cache'[q].text] <= licence_cache'[q].age
    BY DEF LC!LicenceFresh
  <2>1. CASE q = p
    BY <1>4, <2>1
  <2>2. CASE q # p
    BY <1>4, <2>2 DEF LC!LicenceFresh
  <2> QED BY <2>1, <2>2
<1>10. LC!AloneExplained'
  <2> SUFFICES ASSUME NEW q \in Processes, mode'[q] = "alone" PROVE first'[q] \in {"unread", "none", "bad"}
    BY DEF LC!AloneExplained
  <2>1. CASE q # p \/ mode[p] # "starting"
    BY <1>6, <2>1, AloneByText, SMTT(30) DEF LC!AloneExplained
  <2>2. CASE q = p /\ mode[p] = "starting"
    <3>1. text \in {"none", "bad"}
      BY <2>2, AloneByText
    <3> QED BY <1>6, <2>2, <3>1
  <2> QED BY <2>1, <2>2
<1> QED BY <1>7, <1>8, <1>9, <1>10

LEMMA LicenceReadEnds ==
    ASSUME LC!LicensingAssumption, LicenceInv, NEW p \in Processes, LC!ReadEnds(p)
    PROVE  LicenceInv'
<1> DEFINE text == LC!Refreshed(p, reading[p])
<1>1. /\ reading[p] # LC!Idle /\ reading' = [reading EXCEPT ![p] = LC!Idle]
      /\ licence_cache' = [licence_cache EXCEPT ![p] = [text |-> text, age |-> 0]]
      /\ mode' = LC!Decided(p, text) /\ blind' = blind \ {p}
      /\ first' = (IF mode[p] = "starting" THEN [first EXCEPT ![p] = text] ELSE first)
      /\ UNCHANGED <<env, row, licence_clock, storing, licence_since>>
  BY DEF LC!ReadEnds, LC!Keep
<1>2. text \in LC!Texts
  BY <1>1 DEF LicenceInv, LicenceTypes, Known, LC!Refreshed
<1>3. licence_since[text] = 0
  <2>1. CASE env # "none"
    BY <2>1 DEF LicenceInv, HeldNow, LC!InForce, LC!Refreshed
  <2>2. CASE env = "none"
    BY <1>1, <2>2 DEF LicenceInv, ReadNow, LC!Refreshed
  <2> QED BY <2>1, <2>2
<1> HIDE DEF text
<1> QED BY <1>1, <1>2, <1>3, LicenceKept

LEMMA LicenceReadFails ==
    ASSUME LC!LicensingAssumption, LicenceInv, NEW p \in Processes, LC!ReadFails(p)
    PROVE  LicenceInv'
<1> DEFINE text == IF env # "none" THEN env ELSE licence_cache[p].text
<1>1. /\ reading' = [reading EXCEPT ![p] = LC!Idle]
      /\ licence_cache' = [licence_cache EXCEPT ![p] = [text |-> text, age |-> 0]]
      /\ mode' = LC!Decided(p, text) /\ blind' = blind \cup {p}
      /\ first' = (IF mode[p] = "starting" THEN [first EXCEPT ![p] = "unread"] ELSE first)
      /\ UNCHANGED <<env, row, licence_clock, storing, licence_since>>
  BY DEF LC!ReadFails, LC!Keep
<1>2. text \in LC!Texts
  BY DEF LicenceInv, LicenceTypes, CacheRec
<1> HIDE DEF text
<1>3. p \in blind'
  BY <1>1
<1> QED BY <1>1, <1>2, <1>3, LicenceKept

LEMMA LicenceInstall ==
    ASSUME LC!LicensingAssumption, LicenceInv, NEW p \in Processes, LC!Install(p)
    PROVE  LicenceInv'
<1> USE DEF LicenceInv
<1> DEFINE text == storing[p]
<1>1. /\ text # LC!Idle /\ storing' = [storing EXCEPT ![p] = LC!Idle]
      /\ licence_cache' = [licence_cache EXCEPT ![p] = [text |-> text, age |-> 0]] /\ blind' = blind \ {p}
      /\ UNCHANGED <<env, row, licence_clock, reading, mode, licence_since, first>>
  BY DEF LC!Install, LC!Keep
<1>2. text \in LC!Texts /\ licence_since[text] = 0
  BY <1>1 DEF LicenceTypes, Known, StoredNow
<1> HIDE DEF text
<1>3. TTL \in Nat /\ licence_cache \in [Processes -> CacheRec] /\ storing \in [Processes -> Known] /\ LC!Idle \in Known
  BY DEF LC!LicensingAssumption, LicenceTypes, Known
<1>4. [text |-> text, age |-> 0] \in CacheRec
  BY <1>2, <1>3 DEF CacheRec
<1>5. /\ licence_cache' \in [Processes -> CacheRec] /\ licence_cache'[p].text = text /\ licence_cache'[p].age = 0
      /\ \A q \in Processes : q # p => licence_cache'[q] = licence_cache[q]
  BY <1>1, <1>3, <1>4
<1>6. storing' \in [Processes -> Known] /\ storing'[p] = LC!Idle /\ \A q \in Processes : q # p => storing'[q] = storing[q]
  BY <1>1, <1>3
<1>7. LicenceTypes'
  BY <1>1, <1>5, <1>6 DEF LicenceTypes
<1>8. HeldNow' /\ ReadNow' /\ StoredNow' /\ LC!AloneExplained'
  BY <1>1, <1>6 DEF HeldNow, ReadNow, StoredNow, LC!InForce, LC!AloneExplained
<1>9. LC!LicenceFresh'
  <2> SUFFICES ASSUME NEW q \in Processes, q \notin blind', licence_cache'[q].age <= TTL
               PROVE  licence_since'[licence_cache'[q].text] <= licence_cache'[q].age
    BY DEF LC!LicenceFresh
  <2>1. CASE q = p
    BY <1>1, <1>2, <1>5, <2>1
  <2>2. CASE q # p
    BY <1>1, <1>5, <2>2 DEF LC!LicenceFresh
  <2> QED BY <2>1, <2>2
<1> QED BY <1>7, <1>8, <1>9

LEMMA LicenceRead ==
    ASSUME LicenceInv, NEW p \in Processes, NEW page \in BOOLEAN, LC!Read(p, page)
    PROVE  LicenceInv'
<1> USE DEF LicenceInv
<1>1. reading' = [reading EXCEPT ![p] = row] /\ UNCHANGED <<env, row, licence_clock, licence_cache, storing, mode, licence_since, blind, first>>
  BY DEF LC!Read
<1>2. reading \in [Processes -> Known] /\ row \in Known
  BY DEF LicenceTypes, Known
<1>3. reading' \in [Processes -> Known] /\ reading'[p] = row /\ \A q \in Processes : q # p => reading'[q] = reading[q]
  BY <1>1, <1>2
<1>4. LicenceTypes'
  BY <1>1, <1>3 DEF LicenceTypes
<1>5. HeldNow' /\ StoredNow' /\ LC!LicenceFresh' /\ LC!AloneExplained'
  BY <1>1 DEF HeldNow, StoredNow, LC!InForce, LC!LicenceFresh, LC!AloneExplained
<1>6. ReadNow'
  BY <1>1, <1>3 DEF HeldNow, ReadNow, LC!InForce
<1> QED BY <1>4, <1>5, <1>6

LEMMA LicenceStore ==
    ASSUME LC!LicensingAssumption, LicenceInv, NEW p \in Processes, NEW text \in LC!Texts, LC!Store(p, text)
    PROVE  LicenceInv'
<1> USE DEF LicenceInv
<1>1. /\ env = "none" /\ (text = "none" \/ LC!Verified(text)) /\ row' = text /\ licence_since' = LC!Now(text, row)
      /\ storing' = [storing EXCEPT ![p] = text]
      /\ UNCHANGED <<env, licence_clock, licence_cache, reading, mode, blind, first>>
  BY DEF LC!Store
<1>2. TTL \in Nat /\ storing \in [Processes -> Known] /\ text \in Known /\ licence_since \in [LC!Texts -> 0..(TTL + 2)]
  BY DEF LC!LicensingAssumption, LicenceTypes, Known
<1>3. licence_since' = [x \in LC!Texts |-> IF x \in {text, row} THEN 0 ELSE licence_since[x]]
  BY <1>1 DEF LC!Now
<1>4. /\ licence_since' \in [LC!Texts -> 0..(TTL + 2)] /\ licence_since'[text] = 0
      /\ \A x \in LC!Texts : licence_since'[x] = 0 \/ licence_since'[x] = licence_since[x]
  BY <1>2, <1>3
<1>5. storing' \in [Processes -> Known] /\ storing'[p] = text /\ \A q \in Processes : q # p => storing'[q] = storing[q]
  BY <1>1, <1>2
<1>6. row' \in LC!Texts \ {"bad"}
  BY <1>1 DEF LC!Verified
<1>7. LicenceTypes'
  BY <1>1, <1>4, <1>5, <1>6 DEF LicenceTypes
<1>8. HeldNow'
  BY <1>1, <1>4 DEF HeldNow, LC!InForce
<1>9. ReadNow'
  BY <1>1, <1>4 DEF ReadNow, LicenceTypes, Known
<1>10. StoredNow'
  BY <1>4, <1>5 DEF StoredNow, LicenceTypes, Known
<1>11. LC!LicenceFresh'
  <2> SUFFICES ASSUME NEW q \in Processes, q \notin blind', licence_cache'[q].age <= TTL
               PROVE  licence_since'[licence_cache'[q].text] <= licence_cache'[q].age
    BY DEF LC!LicenceFresh
  <2>1. licence_cache'[q] = licence_cache[q] /\ licence_cache[q].text \in LC!Texts /\ licence_cache[q].age \in Nat
    BY <1>1, <1>2 DEF LicenceTypes, CacheRec
  <2>2. licence_since[licence_cache[q].text] <= licence_cache[q].age
    BY <1>1, <2>1 DEF LC!LicenceFresh
  <2> QED BY <1>4, <2>1, <2>2
<1>12. LC!AloneExplained'
  BY <1>1 DEF LC!AloneExplained
<1> QED BY <1>7, <1>8, <1>9, <1>10, <1>11, <1>12

LEMMA LicenceStartAgain ==
    ASSUME LC!LicensingAssumption, LicenceInv, NEW p \in Processes, LC!Start(p)
    PROVE  LicenceInv'
<1> USE DEF LicenceInv
<1>1. /\ mode' = [mode EXCEPT ![p] = "starting"]
      /\ reading' = [reading EXCEPT ![p] = LC!Idle] /\ storing' = [storing EXCEPT ![p] = LC!Idle]
      /\ licence_cache' = [licence_cache EXCEPT ![p] = [text |-> "none", age |-> TTL + 1]]
      /\ blind' = blind \ {p} /\ first' = [first EXCEPT ![p] = "none"]
      /\ UNCHANGED <<env, row, licence_clock, licence_since>>
  BY DEF LC!Start, LC!Never
<1>2. TTL \in Nat /\ LC!Idle \in Known /\ "none" \in LC!Texts
  BY DEF LC!LicensingAssumption, Known, LC!Texts
<1>3. [text |-> "none", age |-> TTL + 1] \in CacheRec
  BY <1>2 DEF CacheRec
<1>4. /\ licence_cache' \in [Processes -> CacheRec] /\ licence_cache'[p].age = TTL + 1
      /\ \A q \in Processes : q # p => licence_cache'[q] = licence_cache[q]
  BY <1>1, <1>3 DEF LicenceTypes
<1>5. LicenceTypes'
  BY <1>1, <1>2, <1>4 DEF LicenceTypes
<1>6. HeldNow' /\ ReadNow' /\ StoredNow'
  BY <1>1 DEF HeldNow, ReadNow, StoredNow, LC!InForce, LicenceTypes
<1>7. LC!LicenceFresh'
  <2> SUFFICES ASSUME NEW q \in Processes, q \notin blind', licence_cache'[q].age <= TTL
               PROVE  licence_since'[licence_cache'[q].text] <= licence_cache'[q].age
    BY DEF LC!LicenceFresh
  <2>1. q # p
    BY <1>2, <1>4
  <2> QED BY <1>1, <1>4, <2>1 DEF LC!LicenceFresh
<1>8. LC!AloneExplained'
  BY <1>1 DEF LC!AloneExplained, LicenceTypes
<1> QED BY <1>5, <1>6, <1>7, <1>8

LEMMA LicenceTick ==
    ASSUME LC!LicensingAssumption, LicenceInv, LC!Tick
    PROVE  LicenceInv'
<1> USE DEF LicenceInv
<1>1. TTL \in Nat /\ Term \in Nat /\ Grace \in Nat
  BY DEF LC!LicensingAssumption
<1>2. /\ \A p \in Processes : reading[p] = LC!Idle /\ storing[p] = LC!Idle
      /\ licence_clock' = LC!Next1(licence_clock, Term + Grace + 1)
      /\ licence_cache' = [p \in Processes |-> [licence_cache[p] EXCEPT !.age = LC!Next1(licence_cache[p].age, TTL + 1)]]
      /\ licence_since' = [x \in LC!Texts |-> IF x = LC!InForce THEN 0 ELSE LC!Next1(licence_since[x], TTL + 1 + 1)]
      /\ UNCHANGED <<env, row, reading, storing, mode, blind, first>>
  BY DEF LC!Tick, LC!Never
<1>4. licence_clock' \in 0..(Term + Grace + 1)
  BY <1>1, <1>2 DEF LicenceTypes, LC!Next1
<1>5. ASSUME NEW p \in Processes
      PROVE  /\ licence_cache'[p] \in CacheRec /\ licence_cache'[p].text = licence_cache[p].text
             /\ licence_cache[p].text \in LC!Texts /\ licence_cache[p].age \in 0..(TTL + 1)
             /\ licence_cache'[p].age \in 0..(TTL + 1)
             /\ licence_cache'[p].age = TTL + 1 \/ licence_cache'[p].age = licence_cache[p].age + 1
  <2>1. licence_cache[p] \in CacheRec /\ licence_cache[p].age \in 0..(TTL + 1) /\ licence_cache[p].text \in LC!Texts
    BY DEF LicenceTypes, CacheRec
  <2>2. LC!Next1(licence_cache[p].age, TTL + 1) \in 0..(TTL + 1)
        /\ (LC!Next1(licence_cache[p].age, TTL + 1) = TTL + 1 \/ LC!Next1(licence_cache[p].age, TTL + 1) = licence_cache[p].age + 1)
    BY <1>1, <2>1 DEF LC!Next1
  <2>3. licence_cache'[p] = [licence_cache[p] EXCEPT !.age = LC!Next1(licence_cache[p].age, TTL + 1)]
    BY <1>2
  <2> QED BY <2>1, <2>2, <2>3 DEF CacheRec
<1>6. licence_cache' \in [Processes -> CacheRec]
  BY <1>2, <1>5
<1>7. /\ licence_since' \in [LC!Texts -> 0..(TTL + 2)] /\ licence_since'[LC!InForce] = 0
      /\ \A x \in LC!Texts : licence_since[x] \in Nat /\ licence_since'[x] \in Nat /\ licence_since'[x] <= licence_since[x] + 1
  <2>1. \A x \in LC!Texts : licence_since[x] \in 0..(TTL + 2) /\ TTL + 1 + 1 = TTL + 2
    BY <1>1 DEF LicenceTypes
  <2>2. \A x \in LC!Texts : LC!Next1(licence_since[x], TTL + 2) \in 0..(TTL + 2) /\ LC!Next1(licence_since[x], TTL + 2) <= licence_since[x] + 1
    BY <1>1, <2>1 DEF LC!Next1
  <2>3. LC!InForce \in LC!Texts
    BY InForceKnown
  <2> QED BY <1>1, <1>2, <2>1, <2>2, <2>3
<1>8. LicenceTypes'
  BY <1>2, <1>4, <1>6, <1>7 DEF LicenceTypes
<1>9. HeldNow' /\ ReadNow' /\ StoredNow' /\ LC!AloneExplained'
  BY <1>2, <1>7 DEF HeldNow, ReadNow, StoredNow, LC!InForce, LC!AloneExplained
<1>10. LC!LicenceFresh'
  <2> SUFFICES ASSUME NEW p \in Processes, p \notin blind', licence_cache'[p].age <= TTL
               PROVE  licence_since'[licence_cache'[p].text] <= licence_cache'[p].age
    BY DEF LC!LicenceFresh
  <2> DEFINE a == licence_cache[p].age
             x == licence_cache[p].text
  <2>1. licence_cache'[p].age = a + 1 /\ a \in Nat /\ x \in LC!Texts /\ licence_cache'[p].text = x
    BY <1>1, <1>5
  <2>2. licence_since[x] <= a
    BY <1>1, <1>2, <2>1 DEF LC!LicenceFresh
  <2> HIDE DEF a, x
  <2>3. licence_since[x] \in Nat /\ licence_since'[x] \in Nat /\ licence_since'[x] <= licence_since[x] + 1
    BY <1>7, <2>1
  <2> QED BY <2>1, <2>2, <2>3
<1> QED BY <1>8, <1>9, <1>10

LEMMA LicenceStep ==
    ASSUME LC!LicensingAssumption, LicenceInv, LC!Next \/ UNCHANGED LC!vars
    PROVE  LicenceInv'
<1>1. ASSUME UNCHANGED LC!vars PROVE LicenceInv'
  BY <1>1 DEF LC!vars, LicenceInv, LicenceTypes, HeldNow, ReadNow, StoredNow, LC!InForce, LC!LicenceFresh, LC!AloneExplained
<1>2. ASSUME NEW p \in Processes,
             \/ \E page \in BOOLEAN : LC!Read(p, page)
             \/ LC!ReadEnds(p) \/ LC!ReadFails(p) \/ LC!Install(p) \/ LC!Start(p)
             \/ \E text \in LC!Texts : LC!Store(p, text)
      PROVE  LicenceInv'
  BY <1>2, LicenceRead, LicenceReadEnds, LicenceReadFails, LicenceInstall, LicenceStartAgain, LicenceStore
<1> QED BY <1>1, <1>2, LicenceTick DEF LC!Next

-----------------------------------------------------------------------------
(***************************************************************************)
(* What goes to an AI provider.  Until the upgrade check has run nothing   *)
(* is decided and nobody saves; one process at a time has claimed it.      *)
(* While the saves have not mixed, one admin at a time saves, and what is  *)
(* stored differs from what is to be stored only by what is still to be    *)
(* written.  A call that has read while nothing was written knows what was *)
(* decided.                                                                *)
(***************************************************************************)
Stage(i) == CASE i = 4 -> <<"key", "provider", "redact", "on">> [] i = 3 -> <<"provider", "redact", "on">>
              [] i = 2 -> <<"redact", "on">> [] OTHER -> <<"on">>
Switch == {"absent", "0", "1"}
SettingRec == [on : Switch, provider : AI!Providers, key : BOOLEAN, redact : BOOLEAN]
WorkerRec == [at : {"down", "claim", "claimed", "up"}, key : BOOLEAN, fresh : BOOLEAN]
Busy(a) == save[a] # AI!NoSave
CallRec == [at : {"idle", "read", "queue", "sent"}, on : BOOLEAN, provider : AI!Providers, key : BOOLEAN, redact : BOOLEAN,
            clean : BOOLEAN, wish : BOOLEAN, chosen : AI!Decisions]
SendRec == [pair : AI!Providers \X BOOLEAN, clean : BOOLEAN, wish : BOOLEAN, chosen : AI!Decisions]
SaveRec == [todo : {Stage(i) : i \in 1..4}, form : AI!Forms, was : Switch]
ConsentTypes ==
    /\ settings \in SettingRec /\ marker \in BOOLEAN /\ wish \in BOOLEAN /\ chosen \in AI!Decisions /\ mixed \in BOOLEAN
    /\ worker \in [Workers -> WorkerRec] /\ save \in [Admins -> SaveRec \cup {AI!NoSave}]
    /\ consent_call \in [AiCalls -> CallRec] /\ sends \in SUBSET SendRec
BeforeUpgrade ==
    ~marker => /\ settings.on = "absent" /\ settings.provider = "anthropic" /\ settings.redact = TRUE
               /\ wish = FALSE /\ chosen = {<<"anthropic", TRUE>>}
               /\ \A a \in Admins : ~Busy(a)
               /\ \A w \in Workers : worker[w].at # "up"
OneClaim ==
    /\ \A w \in Workers : worker[w].at = "claimed" => ~marker
    /\ \A v, w \in Workers : worker[v].at = "claimed" /\ worker[w].at = "claimed" => v = w
CallsSettled == \A c \in AiCalls, w \in Workers : consent_call[c].at # "idle" => worker[w].at \in {"down", "up"}
IdleIsNone == \A c \in AiCalls : consent_call[c].at = "idle" => consent_call[c] = AI!NoCall
OneSaver == ~mixed => \A a, b \in Admins : Busy(a) /\ Busy(b) => a = b
SaveState ==
    ~mixed => \A a \in Admins : Busy(a) =>
        /\ save[a].was = settings.on
        /\ save[a].todo = Stage(1) => settings.redact = save[a].form.redact
        /\ save[a].todo \in {Stage(1), Stage(2)} => settings.provider = save[a].form.provider
Agreed == ~mixed /\ (\A a \in Admins : ~Busy(a)) => (settings.on = "1" <=> wish) /\ <<settings.provider, settings.redact>> \in chosen
CleanReads ==
    \A c \in AiCalls : consent_call[c].at = "read" /\ consent_call[c].clean =>
        /\ consent_call[c].on <=> settings.on = "1"
        /\ consent_call[c].provider = settings.provider
        /\ consent_call[c].wish = wish /\ consent_call[c].chosen = chosen
CleanCalls ==
    \A c \in AiCalls : consent_call[c].at = "queue" /\ consent_call[c].clean =>
        consent_call[c].wish /\ <<consent_call[c].provider, consent_call[c].redact>> \in consent_call[c].chosen
ConsentInv ==
    /\ ConsentTypes /\ BeforeUpgrade /\ OneClaim /\ CallsSettled /\ IdleIsNone /\ OneSaver /\ SaveState /\ Agreed
    /\ CleanReads /\ CleanCalls /\ AI!SentAsDecided

LEMMA Stages ==
    /\ AI!Len(Stage(1)) = 1 /\ AI!Head(Stage(1)) = "on"
    /\ AI!Len(Stage(2)) = 2 /\ AI!Head(Stage(2)) = "redact" /\ AI!Tail(Stage(2)) = Stage(1)
    /\ AI!Len(Stage(3)) = 3 /\ AI!Head(Stage(3)) = "provider" /\ AI!Tail(Stage(3)) = Stage(2)
    /\ AI!Len(Stage(4)) = 4 /\ AI!Head(Stage(4)) = "key" /\ AI!Tail(Stage(4)) = Stage(3)
<1>1. AI!Len(Stage(1)) = 1 /\ AI!Head(Stage(1)) = "on"
  BY DEF Stage
<1>2. AI!Len(Stage(2)) = 2 /\ AI!Head(Stage(2)) = "redact" /\ AI!Tail(Stage(2)) = Stage(1)
  BY DEF Stage
<1>3. AI!Len(Stage(3)) = 3 /\ AI!Head(Stage(3)) = "provider" /\ AI!Tail(Stage(3)) = Stage(2)
  BY DEF Stage
<1>4. AI!Len(Stage(4)) = 4 /\ AI!Head(Stage(4)) = "key" /\ AI!Tail(Stage(4)) = Stage(3)
  BY DEF Stage
<1> QED BY <1>1, <1>2, <1>3, <1>4

LEMMA NoneOfThese ==
    /\ AI!NoCall \in CallRec /\ AI!NoCall.at = "idle"
    /\ AI!Down \in WorkerRec /\ AI!Down.at = "down"
    /\ AI!NoSave \notin SaveRec
<1>1. AI!NoCall \in CallRec /\ AI!NoCall.at = "idle"
  BY DEF AI!NoCall, CallRec, AI!Providers, AI!Decisions
<1>2. AI!Down \in WorkerRec /\ AI!Down.at = "down"
  BY DEF AI!Down, WorkerRec
<1>3. AI!NoSave \notin SaveRec
  <2>1. <<>> \notin {Stage(i) : i \in 1..4}
    BY DEF Stage
  <2> QED BY <2>1 DEF AI!NoSave, SaveRec
<1> QED BY <1>1, <1>2, <1>3


LEMMA ConsentStart == AI!ConsentInit => ConsentInv
<1> SUFFICES ASSUME AI!ConsentInit PROVE ConsentInv
  OBVIOUS
<1>1. PICK key \in BOOLEAN : settings = [on |-> "absent", provider |-> "anthropic", key |-> key, redact |-> TRUE]
  BY DEF AI!ConsentInit
<1>2. /\ marker = FALSE /\ worker = [w \in Workers |-> AI!Down] /\ save = [a \in Admins |-> AI!NoSave]
      /\ consent_call = [c \in AiCalls |-> AI!NoCall] /\ sends = {} /\ wish = FALSE /\ chosen = {<<"anthropic", TRUE>>} /\ mixed = FALSE
  BY DEF AI!ConsentInit
<1>3. ConsentTypes
  <2>1. settings \in SettingRec
    BY <1>1 DEF SettingRec, Switch, AI!Providers
  <2>2. chosen \in AI!Decisions
    <3>1. "anthropic" \in AI!Providers /\ TRUE \in BOOLEAN
      BY DEF AI!Providers
    <3>2. <<"anthropic", TRUE>> \in AI!Providers \X BOOLEAN
      BY <3>1
    <3> QED BY <1>2, <3>2 DEF AI!Decisions
  <2> QED BY <1>2, <2>1, <2>2, NoneOfThese DEF ConsentTypes
<1>4. settings.on = "absent" /\ settings.provider = "anthropic" /\ settings.redact = TRUE /\ \A a \in Admins : ~Busy(a)
  BY <1>1, <1>2 DEF Busy
<1>5. BeforeUpgrade /\ OneSaver /\ SaveState /\ Agreed
  BY <1>2, <1>4, NoneOfThese DEF BeforeUpgrade, OneSaver, SaveState, Agreed
<1>6. OneClaim /\ CallsSettled /\ IdleIsNone /\ CleanReads /\ CleanCalls /\ AI!SentAsDecided
  BY <1>2, NoneOfThese DEF OneClaim, CallsSettled, IdleIsNone, CleanReads, CleanCalls, AI!SentAsDecided
<1> QED BY <1>3, <1>5, <1>6 DEF ConsentInv

(* A process starts, stops, or claims the upgrade.                         *)
LEMMA ConsentWorker ==
    ASSUME ConsentInv, NEW w \in Workers, NEW next \in WorkerRec,
           worker' = [worker EXCEPT ![w] = next],
           next.at = "claimed" => ~marker /\ \A v \in Workers : worker[v].at # "claimed",
           next.at = "up" => marker,
           next.at \in {"claim", "claimed"} => \A c \in AiCalls : consent_call[c].at = "idle",
           UNCHANGED <<settings, marker, save, consent_call, sends, wish, chosen, mixed>>
    PROVE  ConsentInv'
<1> USE DEF ConsentInv
<1>1. worker' \in [Workers -> WorkerRec] /\ worker'[w] = next /\ \A v \in Workers : v # w => worker'[v] = worker[v]
  BY DEF ConsentTypes
<1>2. ConsentTypes'
  BY <1>1 DEF ConsentTypes
<1>3. BeforeUpgrade'
  BY <1>1 DEF BeforeUpgrade, Busy
<1>4. OneClaim'
  BY <1>1 DEF OneClaim
<1>5. CallsSettled'
  <2>1. next.at \in {"down", "claim", "claimed", "up"}
    BY DEF WorkerRec
  <2> QED BY <1>1, <2>1 DEF CallsSettled
<1>6. IdleIsNone' /\ OneSaver' /\ SaveState' /\ Agreed' /\ CleanReads' /\ CleanCalls' /\ AI!SentAsDecided'
  BY DEF IdleIsNone, OneSaver, SaveState, Agreed, CleanReads, CleanCalls, AI!SentAsDecided, Busy
<1> QED BY <1>2, <1>3, <1>4, <1>5, <1>6

LEMMA ConsentMigrateRead ==
    ASSUME ConsentInv, NEW w \in Workers, AI!MigrateRead(w)
    PROVE  ConsentInv'
<1> DEFINE next == IF marker THEN [AI!Down EXCEPT !.at = "up"]
                   ELSE [at |-> "claim", key |-> settings.key, fresh |-> settings.on = "absent"]
<1>1. /\ \A c \in AiCalls : consent_call[c] = AI!NoCall
      /\ worker' = [worker EXCEPT ![w] = next]
      /\ UNCHANGED <<settings, marker, save, consent_call, sends, wish, chosen, mixed>>
  BY DEF AI!MigrateRead
<1>2. settings.key \in BOOLEAN
  BY DEF ConsentInv, ConsentTypes, SettingRec
<1>3. next \in WorkerRec /\ next.at = IF marker THEN "up" ELSE "claim"
  BY <1>2, NoneOfThese DEF WorkerRec
<1> HIDE DEF next
<1>4. (next.at = "up" => marker) /\ next.at # "claimed"
  BY <1>3
<1> QED BY <1>1, <1>3, <1>4, NoneOfThese, ConsentWorker

LEMMA ConsentMigrateClaim ==
    ASSUME ConsentInv, NEW w \in Workers, AI!MigrateClaim(w)
    PROVE  ConsentInv'
<1> DEFINE next == [worker[w] EXCEPT !.at = IF marker THEN "up" ELSE "claimed"]
<1>1. worker \in [Workers -> WorkerRec] /\ worker[w] \in WorkerRec
  BY DEF ConsentInv, ConsentTypes
<1>2. /\ worker[w].at = "claim" /\ \A v \in Workers : worker[v].at # "claimed"
      /\ worker' = [worker EXCEPT ![w] = next]
      /\ UNCHANGED <<settings, marker, save, consent_call, sends, wish, chosen, mixed>>
  BY <1>1 DEF AI!MigrateClaim
<1>3. next \in WorkerRec /\ next.at = IF marker THEN "up" ELSE "claimed"
  BY <1>1 DEF WorkerRec
<1>4. \A c \in AiCalls : consent_call[c].at = "idle"
  BY <1>2 DEF ConsentInv, CallsSettled
<1> HIDE DEF next
<1>5. (next.at = "up" => marker) /\ (next.at = "claimed" => ~marker)
  BY <1>3
<1> QED BY <1>2, <1>3, <1>4, <1>5, ConsentWorker

LEMMA ConsentStop ==
    ASSUME ConsentInv, NEW w \in Workers, AI!Stop(w)
    PROVE  ConsentInv'
<1>1. worker' = [worker EXCEPT ![w] = AI!Down] /\ UNCHANGED <<settings, marker, save, consent_call, sends, wish, chosen, mixed>>
  BY DEF AI!Stop
<1> QED BY <1>1, NoneOfThese, ConsentWorker

LEMMA ConsentMigrateCommit ==
    ASSUME ConsentInv, NEW w \in Workers, AI!MigrateCommit(w)
    PROVE  ConsentInv'
<1> USE DEF ConsentInv
<1> DEFINE enable == worker[w].key /\ worker[w].fresh
           next == [AI!Down EXCEPT !.at = "up"]
<1>1. /\ worker[w].at = "claimed" /\ marker' = TRUE
      /\ settings' = (IF enable THEN [settings EXCEPT !.on = "1", !.provider = "anthropic"] ELSE settings)
      /\ wish' = (wish \/ (enable /\ ~marker))
      /\ worker' = [worker EXCEPT ![w] = next]
      /\ UNCHANGED <<save, consent_call, sends, chosen, mixed>>
  BY DEF AI!MigrateCommit
<1>2. ~marker
  BY <1>1 DEF OneClaim
<1>3. /\ settings.on = "absent" /\ settings.provider = "anthropic" /\ settings.redact = TRUE /\ wish = FALSE /\ chosen = {<<"anthropic", TRUE>>}
      /\ \A a \in Admins : ~Busy(a)
  BY <1>2 DEF BeforeUpgrade
<1>4. \A c \in AiCalls : consent_call[c].at = "idle"
  BY <1>1 DEF CallsSettled
<1>5. next \in WorkerRec /\ next.at = "up"
  BY NoneOfThese DEF WorkerRec
<1>6. enable \in BOOLEAN /\ wish' = enable
  BY <1>1, <1>2, <1>3
<1> HIDE DEF enable, next
<1>7. worker' \in [Workers -> WorkerRec] /\ worker'[w] = next /\ \A v \in Workers : v # w => worker'[v] = worker[v]
  BY <1>1, <1>5 DEF ConsentTypes
<1>8. settings' \in SettingRec /\ settings'.provider = "anthropic" /\ settings'.redact = TRUE /\ (settings'.on = "1" <=> enable)
  <2>1. settings \in SettingRec
    BY DEF ConsentTypes
  <2>2. CASE enable
    BY <1>1, <1>3, <2>1, <2>2 DEF SettingRec, Switch, AI!Providers
  <2>3. CASE ~enable
    BY <1>1, <1>3, <2>1, <2>3
  <2> QED BY <2>2, <2>3
<1>9. ConsentTypes'
  BY <1>1, <1>6, <1>7, <1>8 DEF ConsentTypes
<1>10. BeforeUpgrade'
  BY <1>1 DEF BeforeUpgrade
<1>11. OneClaim'
  BY <1>1, <1>5, <1>7 DEF OneClaim
<1>12. CallsSettled' /\ IdleIsNone' /\ CleanReads' /\ CleanCalls' /\ AI!SentAsDecided'
  BY <1>1, <1>4 DEF CallsSettled, IdleIsNone, CleanReads, CleanCalls, AI!SentAsDecided
<1>13. OneSaver' /\ SaveState'
  BY <1>1, <1>3 DEF OneSaver, SaveState, Busy
<1>14. Agreed'
  <2>1. <<settings'.provider, settings'.redact>> = <<"anthropic", TRUE>>
    BY <1>8, Zenon
  <2>2. <<settings'.provider, settings'.redact>> \in chosen'
    <3>1. chosen' = {<<"anthropic", TRUE>>}
      BY <1>1, <1>3
    <3> QED BY <2>1, <3>1, Zenon
  <2>3. settings'.on = "1" <=> wish'
    BY <1>6, <1>8
  <2> QED BY <2>2, <2>3, Zenon DEF Agreed
<1> QED BY <1>9, <1>10, <1>11, <1>12, <1>13, <1>14

LEMMA ConsentBeginSave ==
    ASSUME ConsentInv, NEW a \in Admins, NEW f \in AI!Forms, AI!BeginSave(a, f)
    PROVE  ConsentInv'
<1> USE DEF ConsentInv
<1> DEFINE next == [todo |-> AI!Order(a), form |-> f, was |-> settings.on]
<1>1. /\ ~mixed /\ AI!Serving /\ ~Busy(a) /\ ~AI!Refused(a, f)
      /\ save' = [save EXCEPT ![a] = next]
      /\ mixed' = (mixed \/ AI!Saving)
      /\ UNCHANGED <<settings, marker, worker, consent_call, sends, wish, chosen>>
  BY DEF AI!BeginSave, AI!Followed, Busy
<1>2. marker
  BY <1>1 DEF BeforeUpgrade, AI!Serving
<1>3. settings \in SettingRec /\ settings.on \in Switch
  BY DEF ConsentTypes, SettingRec
<1>4. AI!Order(a) \in {Stage(4), Stage(2)} /\ (AI!Order(a) = Stage(2) => settings.provider = f.provider) /\ Stage(2) # Stage(4) /\ Stage(1) \notin {Stage(2), Stage(4)}
  BY <1>1 DEF AI!Order, Stage, AI!Refused
<1>5. next \in SaveRec /\ next.was = settings.on /\ next.form = f /\ next.todo = AI!Order(a)
  <2>1. Stage(4) \in {Stage(i) : i \in 1..4} /\ Stage(2) \in {Stage(i) : i \in 1..4}
    OBVIOUS
  <2> QED BY <1>3, <1>4, <2>1 DEF SaveRec
<1> HIDE DEF next
<1>6. save' \in [Admins -> SaveRec \cup {AI!NoSave}] /\ save'[a] = next /\ \A b \in Admins : b # a => save'[b] = save[b]
  BY <1>1, <1>5 DEF ConsentTypes
<1>7. mixed' \in BOOLEAN /\ (~mixed' => \A b \in Admins : ~Busy(b))
  BY <1>1 DEF AI!Saving, Busy
<1>8. Busy(a)' /\ \A b \in Admins : b # a => (Busy(b)' <=> Busy(b))
  BY <1>5, <1>6, NoneOfThese DEF Busy
<1>9. ConsentTypes'
  BY <1>1, <1>6, <1>7 DEF ConsentTypes
<1>10. BeforeUpgrade'
  BY <1>1, <1>2 DEF BeforeUpgrade
<1>11. OneClaim' /\ CallsSettled' /\ IdleIsNone' /\ CleanReads' /\ CleanCalls' /\ AI!SentAsDecided'
  BY <1>1 DEF OneClaim, CallsSettled, IdleIsNone, CleanReads, CleanCalls, AI!SentAsDecided
<1>12. OneSaver'
  BY <1>7, <1>8 DEF OneSaver
<1>13. SaveState'
  BY <1>1, <1>4, <1>5, <1>6, <1>7, <1>8 DEF SaveState
<1>14. Agreed'
  BY <1>8 DEF Agreed
<1> QED BY <1>9, <1>10, <1>11, <1>12, <1>13, <1>14

LEMMA ConsentBreakOff ==
    ASSUME ConsentInv, NEW a \in Admins, AI!BreakOff(a)
    PROVE  ConsentInv'
<1> USE DEF ConsentInv
<1>1. /\ save' = [save EXCEPT ![a] = AI!NoSave] /\ mixed' = TRUE
      /\ UNCHANGED <<settings, marker, worker, consent_call, sends, wish, chosen>>
  BY DEF AI!BreakOff
<1>2. save' \in [Admins -> SaveRec \cup {AI!NoSave}] /\ save'[a] = AI!NoSave /\ \A b \in Admins : b # a => save'[b] = save[b]
  BY <1>1 DEF ConsentTypes
<1>3. ConsentTypes'
  BY <1>1, <1>2 DEF ConsentTypes
<1>4. BeforeUpgrade'
  BY <1>1, <1>2 DEF BeforeUpgrade, Busy
<1>5. OneClaim' /\ CallsSettled' /\ IdleIsNone' /\ CleanReads' /\ CleanCalls' /\ AI!SentAsDecided'
  BY <1>1 DEF OneClaim, CallsSettled, IdleIsNone, CleanReads, CleanCalls, AI!SentAsDecided
<1>6. OneSaver' /\ SaveState' /\ Agreed'
  BY <1>1 DEF OneSaver, SaveState, Agreed
<1> QED BY <1>3, <1>4, <1>5, <1>6


(* What a write changes.                                                   *)
LEMMA SettingsStored ==
    ASSUME ConsentTypes, NEW a \in Admins, save[a] \in SaveRec
    PROVE  /\ AI!Stored(settings, a, "key") \in SettingRec
           /\ AI!Stored(settings, a, "key").on = settings.on
           /\ AI!Stored(settings, a, "key").provider = settings.provider
           /\ AI!Stored(settings, a, "key").redact = settings.redact
           /\ AI!Stored(settings, a, "provider") \in SettingRec
           /\ AI!Stored(settings, a, "provider").on = settings.on
           /\ AI!Stored(settings, a, "provider").provider = save[a].form.provider
           /\ AI!Stored(settings, a, "provider").redact = settings.redact
           /\ AI!Stored(settings, a, "redact") \in SettingRec
           /\ AI!Stored(settings, a, "redact").on = settings.on
           /\ AI!Stored(settings, a, "redact").provider = settings.provider
           /\ AI!Stored(settings, a, "redact").redact = save[a].form.redact
           /\ AI!Stored(settings, a, "on") \in SettingRec
           /\ AI!Stored(settings, a, "on").provider = settings.provider
           /\ AI!Stored(settings, a, "on").redact = settings.redact
           /\ save[a].was = settings.on => (AI!Stored(settings, a, "on").on = "1" <=> save[a].form.on = "1")
<1> DEFINE f == save[a].form
<1>1. f.on \in {"0", "1"} /\ f.provider \in AI!Providers /\ f.key \in BOOLEAN /\ f.redact \in BOOLEAN
  BY DEF SaveRec, AI!Forms
<1>2. settings \in SettingRec
  BY DEF ConsentTypes
<1>3. settings.key \in BOOLEAN /\ settings.on \in Switch /\ settings.provider \in AI!Providers /\ settings.redact \in BOOLEAN
  BY <1>2 DEF SettingRec
<1>4. (settings.key \/ f.key) \in BOOLEAN
  OBVIOUS
<1>5. AI!Stored(settings, a, "key") = [settings EXCEPT !.key = settings.key \/ f.key]
  BY <1>2 DEF AI!Stored, SettingRec
<1>6. AI!Stored(settings, a, "provider") = [settings EXCEPT !.provider = f.provider]
  BY DEF AI!Stored
<1>7. AI!Stored(settings, a, "redact") = [settings EXCEPT !.redact = f.redact]
  BY DEF AI!Stored
<1>8. AI!Stored(settings, a, "on") = IF (f.on = "1") # (save[a].was = "1") THEN [settings EXCEPT !.on = f.on] ELSE settings
  BY DEF AI!Stored
<1> HIDE DEF f
<1>9. /\ AI!Stored(settings, a, "key") \in SettingRec
      /\ AI!Stored(settings, a, "key").on = settings.on
      /\ AI!Stored(settings, a, "key").provider = settings.provider
      /\ AI!Stored(settings, a, "key").redact = settings.redact
  <2> DEFINE k == settings.key \/ f.key
  <2>1. k \in BOOLEAN /\ AI!Stored(settings, a, "key") = [settings EXCEPT !.key = k]
    BY <1>4, <1>5
  <2> HIDE DEF k
  <2> QED BY <1>2, <2>1 DEF SettingRec
<1>10. /\ AI!Stored(settings, a, "provider") \in SettingRec
       /\ AI!Stored(settings, a, "provider").on = settings.on
       /\ AI!Stored(settings, a, "provider").provider = f.provider
       /\ AI!Stored(settings, a, "provider").redact = settings.redact
  BY <1>1, <1>2, <1>6 DEF SettingRec
<1>11. /\ AI!Stored(settings, a, "redact") \in SettingRec
       /\ AI!Stored(settings, a, "redact").on = settings.on
       /\ AI!Stored(settings, a, "redact").provider = settings.provider
       /\ AI!Stored(settings, a, "redact").redact = f.redact
  BY <1>1, <1>2, <1>7 DEF SettingRec
<1>12. [settings EXCEPT !.on = f.on] \in SettingRec
  BY <1>1, <1>2 DEF SettingRec, Switch
<1>13. /\ AI!Stored(settings, a, "on") \in SettingRec
       /\ AI!Stored(settings, a, "on").provider = settings.provider
       /\ AI!Stored(settings, a, "on").redact = settings.redact
  BY <1>2, <1>8, <1>12 DEF SettingRec
<1>14. save[a].was = settings.on => (AI!Stored(settings, a, "on").on = "1" <=> f.on = "1")
  BY <1>2, <1>8 DEF SettingRec
<1> QED BY <1>9, <1>10, <1>11, <1>13, <1>14 DEF f

LEMMA ConsentWrite ==
    ASSUME ConsentInv, NEW a \in Admins, AI!Write(a)
    PROVE  ConsentInv'
<1> USE DEF ConsentInv
<1> DEFINE f == save[a].form
           last == AI!Len(save[a].todo) = 1
           next == IF last THEN AI!NoSave ELSE [save[a] EXCEPT !.todo = AI!Tail(@)]
<1>1. /\ Busy(a) /\ settings' = AI!Stored(settings, a, AI!Head(save[a].todo))
      /\ consent_call' = [c \in AiCalls |-> IF consent_call[c].at = "read" THEN [consent_call[c] EXCEPT !.clean = FALSE] ELSE consent_call[c]]
      /\ save' = [save EXCEPT ![a] = next]
      /\ wish' = (IF last THEN f.on = "1" ELSE wish)
      /\ chosen' = (IF last THEN {<<f.provider, f.redact>>} ELSE chosen)
      /\ UNCHANGED <<marker, worker, sends, mixed>>
  <2>1. save \in [Admins -> SaveRec \cup {AI!NoSave}]
    BY DEF ConsentTypes
  <2>2. save' = [save EXCEPT ![a] = next]
    BY <2>1 DEF AI!Write
  <2>3. Busy(a) /\ settings' = AI!Stored(settings, a, AI!Head(save[a].todo)) /\ UNCHANGED <<marker, worker, sends, mixed>>
    BY DEF AI!Write, Busy
  <2>4. /\ consent_call' = [c \in AiCalls |-> IF consent_call[c].at = "read" THEN [consent_call[c] EXCEPT !.clean = FALSE] ELSE consent_call[c]]
        /\ wish' = (IF last THEN f.on = "1" ELSE wish)
        /\ chosen' = (IF last THEN {<<f.provider, f.redact>>} ELSE chosen)
    BY DEF AI!Write
  <2> QED BY <2>2, <2>3, <2>4
<1>2. save[a] \in SaveRec /\ marker
  BY <1>1 DEF ConsentTypes, Busy, BeforeUpgrade
<1>3. PICK i \in 1..4 : save[a].todo = Stage(i)
  BY <1>2 DEF SaveRec
<1>4. /\ last <=> i = 1
      /\ AI!Head(save[a].todo) = CASE i = 4 -> "key" [] i = 3 -> "provider" [] i = 2 -> "redact" [] OTHER -> "on"
      /\ i # 1 => AI!Tail(save[a].todo) = Stage(i - 1)
  BY <1>3, Stages
<1>5. f.on \in {"0", "1"} /\ f.provider \in AI!Providers /\ f.redact \in BOOLEAN
  BY <1>2 DEF SaveRec, AI!Forms
<1>6. /\ i = 1 => next = AI!NoSave
      /\ i # 1 => next \in SaveRec /\ next.todo = Stage(i - 1) /\ next.form = f /\ next.was = save[a].was
  <2>1. CASE i = 1
    BY <1>4, <2>1
  <2>2. CASE i # 1
    <3>1. Stage(i - 1) \in {Stage(k) : k \in 1..4}
      BY <2>2
    <3>2. next = [save[a] EXCEPT !.todo = Stage(i - 1)]
      BY <1>4, <2>2
    <3> HIDE DEF next
    <3> QED BY <1>2, <2>2, <3>1, <3>2 DEF SaveRec
  <2> QED BY <2>1, <2>2
<1> HIDE DEF last, next
<1>7. save' \in [Admins -> SaveRec \cup {AI!NoSave}] /\ save'[a] = next /\ \A b \in Admins : b # a => save'[b] = save[b]
  BY <1>1, <1>6 DEF ConsentTypes
<1>8. ASSUME NEW c \in AiCalls
      PROVE  /\ consent_call'[c] \in CallRec /\ consent_call'[c].at = consent_call[c].at
             /\ consent_call[c].at # "read" => consent_call'[c] = consent_call[c]
             /\ consent_call[c].at = "read" => ~consent_call'[c].clean
  <2>1. consent_call[c] \in CallRec
    BY DEF ConsentTypes
  <2>2. CASE consent_call[c].at = "read"
    BY <1>1, <2>1, <2>2 DEF CallRec
  <2>3. CASE consent_call[c].at # "read"
    BY <1>1, <2>1, <2>3
  <2> QED BY <2>2, <2>3
<1>9. consent_call' \in [AiCalls -> CallRec]
  BY <1>1, <1>8
<1>10. settings' \in SettingRec
  <2>1. i = 1 \/ i = 2 \/ i = 3 \/ i = 4
    BY <1>3
  <2> QED BY <1>1, <1>2, <1>4, <2>1, SettingsStored
<1>11. wish' \in BOOLEAN /\ chosen' \in AI!Decisions
  <2>1. <<f.provider, f.redact>> \in AI!Providers \X BOOLEAN
    BY <1>5
  <2>2. {<<f.provider, f.redact>>} \in AI!Decisions
    BY <2>1, Zenon DEF AI!Decisions
  <2>3. CASE last
    <3>1. wish' = (f.on = "1") /\ chosen' = {<<f.provider, f.redact>>}
      BY <1>1, <2>3
    <3> QED BY <2>2, <3>1
  <2>4. CASE ~last
    BY <1>1, <2>4 DEF ConsentTypes
  <2> QED BY <2>3, <2>4
<1>12. ConsentTypes'
  BY <1>1, <1>7, <1>9, <1>10, <1>11 DEF ConsentTypes
<1>13. BeforeUpgrade'
  BY <1>1, <1>2 DEF BeforeUpgrade
<1>14. OneClaim' /\ CallsSettled' /\ AI!SentAsDecided'
  BY <1>1, <1>8 DEF OneClaim, CallsSettled, AI!SentAsDecided
<1>15. IdleIsNone' /\ CleanReads' /\ CleanCalls'
  BY <1>8 DEF IdleIsNone, CleanReads, CleanCalls
<1>16. \A b \in Admins : b # a => (Busy(b)' <=> Busy(b))
  BY <1>7 DEF Busy
<1>17. Busy(a)' <=> i # 1
  BY <1>6, <1>7, NoneOfThese DEF Busy
<1>18. OneSaver'
  BY <1>1, <1>16 DEF OneSaver
<1>19. SaveState'
  <2> SUFFICES ASSUME ~mixed, NEW b \in Admins, Busy(b)'
               PROVE  /\ save'[b].was = settings'.on
                      /\ save'[b].todo = Stage(1) => settings'.redact = save'[b].form.redact
                      /\ save'[b].todo \in {Stage(1), Stage(2)} => settings'.provider = save'[b].form.provider
    BY <1>1 DEF SaveState
  <2>1. b = a
    BY <1>1, <1>16 DEF OneSaver
  <2>2. i # 1
    BY <1>17, <2>1
  <2>3. save'[b].todo = Stage(i - 1) /\ save'[b].form = f /\ save'[b].was = save[a].was
    BY <1>6, <1>7, <2>1, <2>2
  <2>4. /\ save[a].was = settings.on
        /\ save[a].todo \in {Stage(1), Stage(2)} => settings.provider = f.provider
    BY <1>1 DEF SaveState
  <2> HIDE DEF f
  <2>5. CASE i = 4
    <3>1. Stage(3) \notin {Stage(1), Stage(2)}
      BY Stages
    <3>2. settings'.on = settings.on
      BY <1>1, <1>2, <1>4, <2>5, SettingsStored
    <3> QED BY <2>3, <2>4, <2>5, <3>1, <3>2
  <2>6. CASE i = 3
    <3>1. Stage(2) # Stage(1)
      BY Stages
    <3>2. settings'.on = settings.on /\ settings'.provider = f.provider
      BY <1>1, <1>2, <1>4, <2>6, SettingsStored DEF f
    <3> QED BY <2>3, <2>4, <2>6, <3>1, <3>2
  <2>7. CASE i = 2
    <3>1. settings'.on = settings.on /\ settings'.provider = settings.provider /\ settings'.redact = f.redact
      BY <1>1, <1>2, <1>4, <2>7, SettingsStored DEF f
    <3> QED BY <1>3, <2>3, <2>4, <2>7, <3>1
  <2> QED BY <1>3, <2>2, <2>5, <2>6, <2>7
<1>20. Agreed'
  <2> SUFFICES ASSUME ~mixed, \A b \in Admins : ~Busy(b)'
               PROVE  (settings'.on = "1" <=> wish') /\ <<settings'.provider, settings'.redact>> \in chosen'
    BY <1>1 DEF Agreed
  <2>1. i = 1 /\ save[a].todo = Stage(1)
    BY <1>3, <1>17
  <2>2. settings.redact = f.redact /\ settings.provider = f.provider /\ save[a].was = settings.on
    BY <1>1, <2>1 DEF SaveState
  <2>3. settings'.provider = settings.provider /\ settings'.redact = settings.redact /\ (settings'.on = "1" <=> f.on = "1")
    BY <1>1, <1>2, <1>4, <2>1, <2>2, SettingsStored
  <2>4. wish' = (f.on = "1") /\ chosen' = {<<f.provider, f.redact>>}
    BY <1>1, <1>4, <2>1
  <2> HIDE DEF f
  <2>5. <<settings'.provider, settings'.redact>> = <<f.provider, f.redact>>
    BY <2>2, <2>3, Zenon
  <2> QED BY <2>3, <2>4, <2>5, Zenon
<1> QED BY <1>12, <1>13, <1>14, <1>15, <1>18, <1>19, <1>20


(* A step of one call, that reads, waits or ends; what goes out goes with  *)
(* what the call knew.                                                     *)
LEMMA ConsentCall ==
    ASSUME ConsentInv, NEW c \in AiCalls, NEW next \in CallRec,
           consent_call' = [consent_call EXCEPT ![c] = next],
           next.at = "idle" => next = AI!NoCall,
           next.at # "idle" => \A w \in Workers : worker[w].at \in {"down", "up"},
           next.at = "read" /\ next.clean =>
               (next.on <=> settings.on = "1") /\ next.provider = settings.provider /\ next.wish = wish /\ next.chosen = chosen,
           next.at = "queue" /\ next.clean => next.wish /\ <<next.provider, next.redact>> \in next.chosen,
           sends' \in SUBSET SendRec, AI!SentAsDecided',
           UNCHANGED <<settings, marker, worker, save, wish, chosen, mixed>>
    PROVE  ConsentInv'
<1> USE DEF ConsentInv
<1>1. consent_call' \in [AiCalls -> CallRec] /\ consent_call'[c] = next /\ \A d \in AiCalls : d # c => consent_call'[d] = consent_call[d]
  BY DEF ConsentTypes
<1>2. ConsentTypes'
  BY <1>1 DEF ConsentTypes
<1>3. BeforeUpgrade' /\ OneClaim' /\ OneSaver' /\ SaveState' /\ Agreed'
  BY DEF BeforeUpgrade, OneClaim, OneSaver, SaveState, Agreed, Busy
<1>4. CallsSettled'
  BY <1>1 DEF CallsSettled
<1>5. IdleIsNone'
  BY <1>1 DEF IdleIsNone
<1>6. CleanReads'
  BY <1>1 DEF CleanReads
<1>7. CleanCalls'
  BY <1>1 DEF CleanCalls
<1> QED BY <1>2, <1>3, <1>4, <1>5, <1>6, <1>7

LEMMA ConsentBeginCall ==
    ASSUME ConsentInv, NEW c \in AiCalls, AI!BeginCall(c)
    PROVE  ConsentInv'
<1> DEFINE on1 == settings.on = "1"
           next == [AI!NoCall EXCEPT !.at = "read", !.on = on1, !.provider = settings.provider,
                                     !.key = settings.key, !.wish = wish, !.chosen = chosen]
<1>1. /\ \A w \in Workers : worker[w].at \in {"down", "up"}
      /\ consent_call' = [consent_call EXCEPT ![c] = next]
      /\ UNCHANGED <<settings, marker, worker, save, sends, wish, chosen, mixed>>
  BY DEF AI!BeginCall, AI!Settled, AI!IsOn
<1>2. settings.provider \in AI!Providers /\ settings.key \in BOOLEAN /\ wish \in BOOLEAN /\ chosen \in AI!Decisions /\ on1 \in BOOLEAN
  BY DEF ConsentInv, ConsentTypes, SettingRec
<1>3. on1 <=> settings.on = "1"
  OBVIOUS
<1> HIDE DEF on1
<1>4. next.at = "read" /\ next.on = on1 /\ next.provider = settings.provider /\ next.wish = wish /\ next.chosen = chosen
  BY DEF AI!NoCall
<1>5. next \in CallRec
  BY <1>2, NoneOfThese DEF CallRec
<1>6. next.on <=> settings.on = "1"
  BY <1>3, <1>4
<1> HIDE DEF next
<1>7. sends' \in SUBSET SendRec /\ AI!SentAsDecided'
  BY <1>1 DEF ConsentInv, ConsentTypes, AI!SentAsDecided
<1> QED BY <1>1, <1>4, <1>5, <1>6, <1>7, ConsentCall

LEMMA ConsentCallOver ==
    ASSUME ConsentInv, NEW c \in AiCalls, consent_call' = [consent_call EXCEPT ![c] = AI!NoCall],
           UNCHANGED <<settings, marker, worker, save, sends, wish, chosen, mixed>>
    PROVE  ConsentInv'
<1>1. sends' \in SUBSET SendRec /\ AI!SentAsDecided'
  BY DEF ConsentInv, ConsentTypes, AI!SentAsDecided
<1> QED BY <1>1, NoneOfThese, ConsentCall

LEMMA ConsentPrepare ==
    ASSUME ConsentInv, NEW c \in AiCalls, AI!Prepare(c)
    PROVE  ConsentInv'
<1> DEFINE still == consent_call[c].clean /\ ~AI!Saving /\ ~mixed
           next == [consent_call[c] EXCEPT !.at = "queue", !.redact = settings.redact, !.clean = still]
<1>1. consent_call \in [AiCalls -> CallRec] /\ consent_call[c] \in CallRec
  BY DEF ConsentInv, ConsentTypes
<1>2. /\ consent_call[c].at = "read"
      /\ \/ consent_call[c].on /\ consent_call' = [consent_call EXCEPT ![c] = next]
         \/ consent_call' = [consent_call EXCEPT ![c] = AI!NoCall]
      /\ UNCHANGED <<settings, marker, worker, save, sends, wish, chosen, mixed>>
  BY <1>1 DEF AI!Prepare
<1>3. CASE consent_call[c].on /\ consent_call' = [consent_call EXCEPT ![c] = next]
  <2>1. settings.redact \in BOOLEAN /\ still \in BOOLEAN
    BY DEF ConsentInv, ConsentTypes, SettingRec
  <2>2. still => consent_call[c].clean /\ ~mixed /\ \A a \in Admins : ~Busy(a)
    BY DEF AI!Saving, Busy
  <2> HIDE DEF still
  <2>3. /\ next.at = "queue" /\ next.clean = still /\ next.provider = consent_call[c].provider
        /\ next.redact = settings.redact /\ next.wish = consent_call[c].wish /\ next.chosen = consent_call[c].chosen
    BY <1>1 DEF CallRec
  <2>4. next \in CallRec
    BY <1>1, <2>1 DEF CallRec
  <2> HIDE DEF next
  <2>5. ASSUME still PROVE next.wish /\ <<next.provider, next.redact>> \in next.chosen
    <3>1. (consent_call[c].on <=> settings.on = "1") /\ consent_call[c].provider = settings.provider
          /\ consent_call[c].wish = wish /\ consent_call[c].chosen = chosen
      BY <1>2, <2>2, <2>5 DEF ConsentInv, CleanReads
    <3>2. (settings.on = "1" <=> wish) /\ <<settings.provider, settings.redact>> \in chosen
      BY <2>2, <2>5 DEF ConsentInv, Agreed
    <3>3. next.wish
      BY <1>3, <2>3, <3>1, <3>2
    <3>4. <<next.provider, next.redact>> \in next.chosen
      BY <2>3, <3>1, <3>2, Zenon
    <3> QED BY <3>3, <3>4
  <2>6. \A w \in Workers : worker[w].at \in {"down", "up"}
    BY <1>2 DEF ConsentInv, CallsSettled
  <2>7. sends' \in SUBSET SendRec /\ AI!SentAsDecided'
    BY <1>2 DEF ConsentInv, ConsentTypes, AI!SentAsDecided
  <2>8. next.at = "queue" /\ next.clean => next.wish /\ <<next.provider, next.redact>> \in next.chosen
    BY <2>3, <2>5
  <2> QED BY <1>2, <1>3, <2>3, <2>4, <2>6, <2>7, <2>8, ConsentCall
<1>4. CASE consent_call' = [consent_call EXCEPT ![c] = AI!NoCall]
  BY <1>2, <1>4, ConsentCallOver
<1> QED BY <1>2, <1>3, <1>4

LEMMA ConsentSend ==
    ASSUME ConsentInv, NEW c \in AiCalls, AI!Send(c)
    PROVE  ConsentInv'
<1> DEFINE me == consent_call[c]
           next == [me EXCEPT !.at = "sent"]
           out == [pair |-> <<me.provider, me.redact>>, clean |-> me.clean, wish |-> me.wish, chosen |-> me.chosen]
<1>1. consent_call \in [AiCalls -> CallRec] /\ me \in CallRec
  BY DEF ConsentInv, ConsentTypes
<1>2. /\ me.at = "queue" /\ consent_call' = [consent_call EXCEPT ![c] = next]
      /\ sends' = sends \cup {out}
      /\ UNCHANGED <<settings, marker, worker, save, wish, chosen, mixed>>
  BY <1>1 DEF AI!Send, AI!Pair
<1>3. next \in CallRec /\ next.at = "sent"
  BY <1>1 DEF CallRec
<1>4. \A w \in Workers : worker[w].at \in {"down", "up"}
  BY <1>2 DEF ConsentInv, CallsSettled
<1>5. me.clean => me.wish /\ <<me.provider, me.redact>> \in me.chosen
  BY <1>2 DEF ConsentInv, CleanCalls
<1>6. out \in SendRec
  <2>1. <<me.provider, me.redact>> \in AI!Providers \X BOOLEAN /\ me.clean \in BOOLEAN /\ me.wish \in BOOLEAN /\ me.chosen \in AI!Decisions
    BY <1>1 DEF CallRec
  <2> HIDE DEF me
  <2> QED BY <2>1, Zenon DEF SendRec
<1>7. out.clean = me.clean /\ out.wish = me.wish /\ out.pair = <<me.provider, me.redact>> /\ out.chosen = me.chosen
  OBVIOUS
<1> HIDE DEF me, next, out
<1>8. out.clean => out.wish /\ out.pair \in out.chosen
  BY <1>5, <1>7, Zenon
<1>9. sends' \in SUBSET SendRec
  BY <1>2, <1>6 DEF ConsentInv, ConsentTypes
<1>10. AI!SentAsDecided'
  BY <1>2, <1>8 DEF ConsentInv, AI!SentAsDecided
<1> QED BY <1>2, <1>3, <1>4, <1>9, <1>10, ConsentCall

LEMMA ConsentStep ==
    ASSUME ConsentInv, AI!ConsentNext \/ UNCHANGED AI!consentVars
    PROVE  ConsentInv'
<1>1. ASSUME UNCHANGED AI!consentVars PROVE ConsentInv'
  <2>1. UNCHANGED <<settings, marker, worker, save, consent_call, sends, wish, chosen, mixed>>
    BY <1>1 DEF AI!consentVars
  <2> QED BY <2>1 DEF ConsentInv, ConsentTypes, BeforeUpgrade, OneClaim, CallsSettled, IdleIsNone, OneSaver, SaveState, Agreed,
                     CleanReads, CleanCalls, AI!SentAsDecided, Busy
<1>2. ASSUME NEW w \in Workers, AI!MigrateRead(w) \/ AI!MigrateClaim(w) \/ AI!MigrateCommit(w) \/ AI!Stop(w)
      PROVE  ConsentInv'
  BY <1>2, ConsentMigrateRead, ConsentMigrateClaim, ConsentMigrateCommit, ConsentStop
<1>3. ASSUME NEW a \in Admins, AI!Write(a) \/ AI!BreakOff(a) \/ \E f \in AI!Forms : AI!BeginSave(a, f)
      PROVE  ConsentInv'
  BY <1>3, ConsentWrite, ConsentBreakOff, ConsentBeginSave
<1>4. ASSUME NEW c \in AiCalls, AI!Answered(c) PROVE ConsentInv'
  <2>1. consent_call' = [consent_call EXCEPT ![c] = AI!NoCall] /\ UNCHANGED <<settings, marker, worker, save, sends, wish, chosen, mixed>>
    BY <1>4 DEF AI!Answered
  <2> QED BY <2>1, ConsentCallOver
<1>5. ASSUME NEW c \in AiCalls, AI!BeginCall(c) \/ AI!Prepare(c) \/ AI!Send(c) PROVE ConsentInv'
  BY <1>5, ConsentBeginCall, ConsentPrepare, ConsentSend
<1> QED BY <1>1, <1>2, <1>3, <1>4, <1>5 DEF AI!ConsentNext

LEMMA ConsentSafe == ConsentInv => AI!OptInHonest /\ AI!SentAsDecided
<1> SUFFICES ASSUME ConsentInv PROVE AI!OptInHonest
  BY DEF ConsentInv
<1>1. wish \in BOOLEAN /\ (~mixed /\ ~AI!Saving => (settings.on = "1" <=> wish))
  BY DEF ConsentInv, ConsentTypes, Agreed, AI!Saving, Busy
<1> QED BY <1>1 DEF AI!OptInHonest, AI!IsOn

-----------------------------------------------------------------------------
(***************************************************************************)
(* Alert rules.  A rule that rests has no streak; the matches in a row are *)
(* at least the streak, unless the rule was moved.  A rule has waited no   *)
(* longer than its title is away from the gate, or the gate is open; and   *)
(* since it was last held back by the gate it has waited for its cooldown  *)
(* and its streak only.                                                    *)
(***************************************************************************)
RuleTypes ==
    /\ name \in [Rules -> Names] /\ streak \in [Rules -> 0..Required] /\ rules_since \in [Rules -> 0..Cooldown]
    /\ recentTitles \in [Names -> 0..(GateWindow + 1)] /\ rules_seen \in [Rules -> 0..Required] /\ wait \in [Rules -> Nat]
NamesDiffer == \A r, q \in Rules : name[r] = name[q] => r = q
Calm(r) == rules_since[r] < Cooldown => streak[r] = 0
Counts(r) == r \notin moved => rules_seen[r] >= streak[r]
BehindGate(r) ==
    recentTitles[name[r]] = GateWindow + 1 \/ wait[r] <= recentTitles[name[r]] + (IF r \in todo THEN 0 ELSE 1)
SinceHeld(r) ==
    wait[r] <= GateWindow + 1 + rules_since[r] + streak[r] + (IF rules_since[r] < Cooldown /\ r \notin todo THEN 1 ELSE 0)
RuleOk(r) == Calm(r) /\ Counts(r) /\ BehindGate(r) /\ SinceHeld(r)
RuleInv == RuleTypes /\ NamesDiffer /\ \A r \in Rules : RuleOk(r)

LEMMA RuleStart ==
    ASSUME AL!RulesAssumption, Distinct PROVE AL!RuleInit => RuleInv
<1> SUFFICES ASSUME AL!RuleInit PROVE RuleInv
  OBVIOUS
<1>1. Required \in Nat \ {0} /\ Cooldown \in Nat \ {0} /\ GateWindow \in Nat
  BY DEF AL!RulesAssumption
<1>2. /\ name \in [Rules -> Names] /\ \A r, q \in Rules : name[r] = name[q] => r = q
      /\ streak = [r \in Rules |-> 0] /\ rules_since = [r \in Rules |-> Cooldown]
      /\ recentTitles = [n \in Names |-> GateWindow + 1]
      /\ rules_seen = [r \in Rules |-> 0] /\ wait = [r \in Rules |-> 0]
  BY DEF AL!RuleInit
<1>3. RuleTypes /\ NamesDiffer
  BY <1>1, <1>2 DEF RuleTypes, NamesDiffer
<1>4. ASSUME NEW r \in Rules PROVE RuleOk(r)
  <2>1. name[r] \in Names /\ streak[r] = 0 /\ rules_since[r] = Cooldown /\ recentTitles[name[r]] = GateWindow + 1 /\ rules_seen[r] = 0 /\ wait[r] = 0
    BY <1>2
  <2> QED BY <1>1, <2>1 DEF RuleOk, Calm, Counts, BehindGate, SinceHeld
<1> QED BY <1>3, <1>4 DEF RuleInv

(* A step about one rule.                                                  *)
LEMMA RuleTouched ==
    ASSUME RuleInv, NEW r \in Rules, RuleTypes', name' = name,
           \A q \in Rules : q # r => /\ streak'[q] = streak[q] /\ rules_since'[q] = rules_since[q]
                                     /\ rules_seen'[q] = rules_seen[q] /\ wait'[q] = wait[q]
                                     /\ (q \in moved' <=> q \in moved) /\ (q \in todo' <=> q \in todo),
           \A n \in Names : n # name[r] => recentTitles'[n] = recentTitles[n],
           RuleOk(r)'
    PROVE  RuleInv'
<1>1. NamesDiffer'
  BY DEF RuleInv, NamesDiffer
<1>2. ASSUME NEW q \in Rules, q # r PROVE RuleOk(q)'
  <2>1. name[q] # name[r] /\ name[q] \in Names /\ name'[q] = name[q]
    BY <1>2 DEF RuleInv, NamesDiffer, RuleTypes
  <2>2. recentTitles'[name'[q]] = recentTitles[name[q]]
    BY <2>1
  <2>3. RuleOk(q)
    BY DEF RuleInv
  <2> QED BY <1>2, <2>2, <2>3 DEF RuleOk, Calm, Counts, BehindGate, SinceHeld
<1> QED BY <1>1, <1>2 DEF RuleInv

LEMMA OlderOnce ==
    ASSUME NEW m \in Nat, NEW k \in Nat
    PROVE  AL!Older(k, m) \in Nat /\ AL!Older(k, m) <= k + 1 /\ AL!Older(k, m) >= k
           /\ (k <= m => AL!Older(k, m) \in 0..m /\ (AL!Older(k, m) = m \/ AL!Older(k, m) = k + 1))
           /\ (k < m => AL!Older(k, m) = k + 1)
  BY DEF AL!Older

LEMMA RuleNumbers ==
    ASSUME AL!RulesAssumption, RuleInv, NEW r \in Rules
    PROVE  /\ Required \in Nat /\ Required >= 1 /\ Cooldown \in Nat /\ Cooldown >= 1 /\ GateWindow \in Nat /\ AL!Bound + 1 \in Nat
           /\ name[r] \in Names /\ streak[r] \in 0..Required /\ rules_since[r] \in 0..Cooldown
           /\ recentTitles[name[r]] \in 0..(GateWindow + 1) /\ rules_seen[r] \in 0..Required /\ wait[r] \in Nat
           /\ RuleOk(r)
<1>1. Required \in Nat /\ Required >= 1 /\ Cooldown \in Nat /\ Cooldown >= 1 /\ GateWindow \in Nat
  BY DEF AL!RulesAssumption
<1>2. AL!Bound + 1 \in Nat
  BY <1>1 DEF AL!Bound
<1> QED BY <1>1, <1>2 DEF RuleInv, RuleTypes

LEMMA RuleBegin ==
    ASSUME AL!RulesAssumption, RuleInv, AL!BeginRules
    PROVE  RuleInv'
<1>1. /\ todo = {} /\ rules_since' = [r \in Rules |-> AL!Older(rules_since[r], Cooldown)]
      /\ recentTitles' = [n \in Names |-> AL!Older(recentTitles[n], GateWindow + 1)]
      /\ UNCHANGED <<name, streak, rules_seen, wait, moved>>
  BY DEF AL!BeginRules
<1>2. Required \in Nat /\ Cooldown \in Nat /\ GateWindow \in Nat /\ GateWindow + 1 \in Nat
  BY DEF AL!RulesAssumption
<1>3. ASSUME NEW n \in Names
      PROVE  /\ recentTitles'[n] \in 0..(GateWindow + 1) /\ recentTitles[n] \in 0..(GateWindow + 1)
             /\ recentTitles'[n] = GateWindow + 1 \/ recentTitles'[n] = recentTitles[n] + 1
  <2>1. recentTitles[n] \in 0..(GateWindow + 1)
    BY DEF RuleInv, RuleTypes
  <2> QED BY <1>1, <1>2, <2>1 DEF AL!Older
<1>4. ASSUME NEW r \in Rules
      PROVE  /\ rules_since'[r] \in 0..Cooldown /\ rules_since[r] \in 0..Cooldown
             /\ rules_since[r] < Cooldown => rules_since'[r] = rules_since[r] + 1
             /\ rules_since[r] = Cooldown => rules_since'[r] = Cooldown
  <2>1. rules_since[r] \in 0..Cooldown
    BY DEF RuleInv, RuleTypes
  <2> QED BY <1>1, <1>2, <2>1 DEF AL!Older
<1>5. RuleTypes' /\ NamesDiffer'
  BY <1>1, <1>3, <1>4 DEF RuleInv, RuleTypes, NamesDiffer
<1>6. ASSUME NEW r \in Rules PROVE RuleOk(r)'
  <2>1. /\ name[r] \in Names /\ streak[r] \in 0..Required /\ wait[r] \in Nat /\ RuleOk(r) /\ name' = name /\ streak' = streak
        /\ wait' = wait /\ rules_seen' = rules_seen /\ moved' = moved
    BY <1>1 DEF RuleInv, RuleTypes
  <2>2. Calm(r)'
    BY <1>2, <1>4, <2>1 DEF RuleOk, Calm
  <2>3. Counts(r)'
    BY <2>1 DEF RuleOk, Counts
  <2>4. BehindGate(r)'
    <3>1. recentTitles[name[r]] = GateWindow + 1 \/ wait[r] <= recentTitles[name[r]] + 1
      BY <1>1, <2>1 DEF RuleOk, BehindGate
    <3>2. recentTitles'[name[r]] = GateWindow + 1 \/ (recentTitles'[name[r]] = recentTitles[name[r]] + 1)
      BY <1>3, <2>1
    <3>3. recentTitles[name[r]] \in 0..(GateWindow + 1) /\ recentTitles'[name[r]] \in 0..(GateWindow + 1)
      BY <1>3, <2>1
    <3> QED BY <1>2, <2>1, <3>1, <3>2, <3>3 DEF BehindGate
  <2>5. SinceHeld(r)'
    <3>1. wait[r] <= GateWindow + 1 + rules_since[r] + streak[r] + (IF rules_since[r] < Cooldown THEN 1 ELSE 0)
      BY <1>1, <2>1 DEF RuleOk, SinceHeld
    <3>2. wait[r] <= GateWindow + 1 + rules_since'[r] + streak[r]
      BY <1>2, <1>4, <2>1, <3>1
    <3> QED BY <1>2, <1>4, <2>1, <3>2 DEF SinceHeld
  <2> QED BY <2>2, <2>3, <2>4, <2>5 DEF RuleOk
<1> QED BY <1>5, <1>6 DEF RuleInv

LEMMA RuleResting ==
    ASSUME AL!RulesAssumption, RuleInv, NEW r \in Rules, AL!Resting(r)
    PROVE  RuleInv'
<1> DEFINE w == IF AL!Matches(r) THEN AL!Older(wait[r], AL!Bound + 1) ELSE 0
           s == IF AL!Matches(r) THEN rules_seen[r] ELSE 0
<1>1. wait \in [Rules -> Nat] /\ rules_seen \in [Rules -> 0..Required]
  BY DEF RuleInv, RuleTypes
<1>2. /\ r \in todo /\ todo' = todo \ {r} /\ rules_since[r] < Cooldown
      /\ wait' = [wait EXCEPT ![r] = w] /\ rules_seen' = [rules_seen EXCEPT ![r] = s]
      /\ UNCHANGED <<name, streak, rules_since, recentTitles, moved>>
  BY <1>1 DEF AL!Resting, AL!Done
<1>3. /\ Required \in Nat /\ Cooldown \in Nat /\ GateWindow \in Nat
      /\ name[r] \in Names /\ streak[r] \in 0..Required /\ rules_since[r] \in 0..Cooldown
      /\ recentTitles[name[r]] \in 0..(GateWindow + 1) /\ rules_seen[r] \in 0..Required /\ wait[r] \in Nat /\ RuleOk(r)
  BY RuleNumbers
<1>4. w \in Nat /\ w <= wait[r] + 1 /\ s \in 0..Required
  <2>1. AL!Bound + 1 \in Nat
    BY RuleNumbers
  <2>2. AL!Older(wait[r], AL!Bound + 1) \in Nat /\ AL!Older(wait[r], AL!Bound + 1) <= wait[r] + 1
    BY <1>3, <2>1, OlderOnce
  <2>3. CASE AL!Matches(r)
    BY <1>3, <2>2, <2>3
  <2>4. CASE ~AL!Matches(r)
    BY <1>3, <2>4
  <2> QED BY <2>3, <2>4
<1> HIDE DEF w, s
<1>5. wait'[r] = w /\ rules_seen'[r] = s /\ streak[r] = 0 /\ r \notin todo'
  BY <1>1, <1>2, <1>3 DEF RuleOk, Calm
<1>6. RuleTypes'
  BY <1>1, <1>2, <1>4 DEF RuleInv, RuleTypes
<1>7. Calm(r)' /\ Counts(r)'
  BY <1>2, <1>3, <1>4, <1>5 DEF RuleOk, Calm, Counts
<1>8. BehindGate(r)'
  BY <1>2, <1>3, <1>4, <1>5 DEF RuleOk, BehindGate
<1>9. SinceHeld(r)'
  BY <1>2, <1>3, <1>4, <1>5 DEF RuleOk, SinceHeld
<1>10. RuleOk(r)'
  BY <1>7, <1>8, <1>9 DEF RuleOk
<1> QED BY <1>1, <1>2, <1>6, <1>10, RuleTouched

LEMMA RuleMiss ==
    ASSUME AL!RulesAssumption, RuleInv, NEW r \in Rules, AL!Miss(r)
    PROVE  RuleInv'
<1>1. wait \in [Rules -> Nat] /\ rules_seen \in [Rules -> 0..Required] /\ streak \in [Rules -> 0..Required]
  BY DEF RuleInv, RuleTypes
<1>2. /\ todo' = todo \ {r} /\ streak' = [streak EXCEPT ![r] = 0] /\ moved' = moved \ {r}
      /\ rules_seen' = [rules_seen EXCEPT ![r] = 0] /\ wait' = [wait EXCEPT ![r] = 0]
      /\ UNCHANGED <<name, rules_since, recentTitles>>
  BY DEF AL!Miss, AL!Missed, AL!Done
<1>3. /\ Required \in Nat /\ Cooldown \in Nat /\ GateWindow \in Nat /\ rules_since[r] \in 0..Cooldown
      /\ recentTitles[name[r]] \in 0..(GateWindow + 1)
  BY RuleNumbers
<1>4. wait'[r] = 0 /\ rules_seen'[r] = 0 /\ streak'[r] = 0
  BY <1>1, <1>2
<1>5. RuleTypes'
  BY <1>1, <1>2, <1>3 DEF RuleInv, RuleTypes
<1>6. RuleOk(r)'
  BY <1>2, <1>3, <1>4 DEF RuleOk, Calm, Counts, BehindGate, SinceHeld
<1> QED BY <1>1, <1>2, <1>5, <1>6, RuleTouched

LEMMA RuleMatch ==
    ASSUME AL!RulesAssumption, RuleInv, NEW r \in Rules, AL!Match(r)
    PROVE  RuleInv'
<1> DEFINE w == AL!Older(wait[r], AL!Bound + 1)
           s == AL!Older(rules_seen[r], Required)
<1>1. wait \in [Rules -> Nat] /\ rules_seen \in [Rules -> 0..Required] /\ streak \in [Rules -> 0..Required]
  BY DEF RuleInv, RuleTypes
<1>2. /\ r \in todo /\ todo' = todo \ {r} /\ rules_since[r] >= Cooldown /\ streak[r] + 1 < Required
      /\ streak' = [streak EXCEPT ![r] = streak[r] + 1]
      /\ wait' = [wait EXCEPT ![r] = w] /\ rules_seen' = [rules_seen EXCEPT ![r] = s]
      /\ UNCHANGED <<name, rules_since, recentTitles, moved>>
  BY <1>1 DEF AL!Match, AL!Done, AL!Counted
<1>3. /\ Required \in Nat /\ Cooldown \in Nat /\ GateWindow \in Nat
      /\ name[r] \in Names /\ streak[r] \in 0..Required /\ rules_since[r] \in 0..Cooldown
      /\ recentTitles[name[r]] \in 0..(GateWindow + 1) /\ rules_seen[r] \in 0..Required /\ wait[r] \in Nat /\ RuleOk(r)
  BY RuleNumbers
<1>4. w \in Nat /\ w <= wait[r] + 1 /\ s \in 0..Required /\ (s = Required \/ s = rules_seen[r] + 1)
  <2>1. AL!Bound + 1 \in Nat /\ rules_seen[r] \in Nat /\ rules_seen[r] <= Required
    BY <1>3, RuleNumbers
  <2> QED BY <1>3, <2>1, OlderOnce
<1> HIDE DEF w, s
<1>5. wait'[r] = w /\ rules_seen'[r] = s /\ streak'[r] = streak[r] + 1 /\ r \notin todo'
  BY <1>1, <1>2
<1>6. RuleTypes'
  BY <1>1, <1>2, <1>3, <1>4 DEF RuleInv, RuleTypes
<1>7. Calm(r)'
  BY <1>2, <1>3 DEF Calm
<1>8. Counts(r)'
  BY <1>2, <1>3, <1>4, <1>5 DEF RuleOk, Counts
<1>9. BehindGate(r)'
  BY <1>2, <1>3, <1>4, <1>5 DEF RuleOk, BehindGate
<1>10. SinceHeld(r)'
  BY <1>2, <1>3, <1>4, <1>5 DEF RuleOk, SinceHeld
<1>11. RuleOk(r)'
  BY <1>7, <1>8, <1>9, <1>10 DEF RuleOk
<1> QED BY <1>1, <1>2, <1>6, <1>11, RuleTouched

(* The gate: a title it holds back leaves it as it was.                    *)
LEMMA TitlePassed ==
    ASSUME AL!RulesAssumption, RuleInv, NEW r \in Rules, NEW early \in BOOLEAN
    PROVE  /\ AL!Passed(name[r], early) \in [Names -> 0..(GateWindow + 1)]
           /\ \A n \in Names : n # name[r] => AL!Passed(name[r], early)[n] = recentTitles[n]
           /\ AL!TitleLimited(name[r], early) => AL!Passed(name[r], early) = recentTitles /\ recentTitles[name[r]] <= GateWindow
<1>1. GateWindow \in Nat /\ name[r] \in Names /\ recentTitles \in [Names -> 0..(GateWindow + 1)]
  BY RuleNumbers DEF RuleInv, RuleTypes
<1>2. AL!TitleLimited(name[r], early) => recentTitles[name[r]] <= GateWindow
  BY <1>1 DEF AL!TitleLimited
<1> QED BY <1>1, <1>2 DEF AL!Passed

LEMMA RuleFire ==
    ASSUME AL!RulesAssumption, RuleInv, NEW r \in Rules, NEW early \in BOOLEAN, AL!Fire(r, early)
    PROVE  RuleInv' /\ (rules_seen'[r] >= Required \/ r \in moved)
<1> DEFINE back == AL!Announces(r) /\ AL!TitleLimited(name[r], early)
           w == IF back THEN AL!Older(wait[r], AL!Bound + 1) ELSE 0
           s == AL!Older(rules_seen[r], Required)
<1>1. wait \in [Rules -> Nat] /\ rules_seen \in [Rules -> 0..Required] /\ streak \in [Rules -> 0..Required] /\ rules_since \in [Rules -> 0..Cooldown]
  BY DEF RuleInv, RuleTypes
<1>2. /\ r \in todo /\ todo' = todo \ {r} /\ rules_since[r] >= Cooldown /\ streak[r] + 1 >= Required
      /\ streak' = [streak EXCEPT ![r] = 0] /\ rules_since' = [rules_since EXCEPT ![r] = 0] /\ moved' = moved \ {r}
      /\ recentTitles' = (IF AL!Announces(r) THEN AL!Passed(name[r], early) ELSE recentTitles)
      /\ rules_seen' = [rules_seen EXCEPT ![r] = s]
      /\ wait' = [wait EXCEPT ![r] = w]
      /\ UNCHANGED name
  BY <1>1 DEF AL!Fire, AL!Done, AL!Counted
<1>3. /\ Required \in Nat /\ Required >= 1 /\ Cooldown \in Nat /\ Cooldown >= 1 /\ GateWindow \in Nat
      /\ name[r] \in Names /\ streak[r] \in 0..Required /\ rules_since[r] \in 0..Cooldown
      /\ recentTitles[name[r]] \in 0..(GateWindow + 1) /\ rules_seen[r] \in 0..Required /\ wait[r] \in Nat /\ RuleOk(r)
  BY RuleNumbers
<1>4. s \in 0..Required /\ (s = Required \/ s = rules_seen[r] + 1)
  <2>1. rules_seen[r] \in Nat /\ rules_seen[r] <= Required
    BY <1>3
  <2> QED BY <1>3, <2>1, OlderOnce
<1>5. w \in Nat /\ (back => w <= wait[r] + 1) /\ (~back => w = 0)
  BY <1>3, RuleNumbers, OlderOnce
<1>6. back => recentTitles' = recentTitles /\ recentTitles[name[r]] <= GateWindow
  BY <1>2, TitlePassed
<1>7. recentTitles' \in [Names -> 0..(GateWindow + 1)] /\ \A n \in Names : n # name[r] => recentTitles'[n] = recentTitles[n]
  BY <1>2, TitlePassed DEF RuleInv, RuleTypes
<1> HIDE DEF back, w, s
<1>8. wait'[r] = w /\ rules_seen'[r] = s /\ streak'[r] = 0 /\ rules_since'[r] = 0 /\ r \notin todo'
  BY <1>1, <1>2
<1>9. RuleTypes'
  BY <1>1, <1>2, <1>3, <1>4, <1>5, <1>7 DEF RuleInv, RuleTypes
<1>10. back => wait[r] <= GateWindow /\ wait[r] <= recentTitles[name[r]]
  <2>1. wait[r] <= recentTitles[name[r]] \/ recentTitles[name[r]] = GateWindow + 1
    BY <1>2, <1>3 DEF RuleOk, BehindGate
  <2> QED BY <1>3, <1>6, <2>1
<1>11. Calm(r)' /\ Counts(r)'
  BY <1>3, <1>4, <1>8 DEF Calm, Counts
<1>12. BehindGate(r)'
  <2>1. recentTitles'[name[r]] \in Nat
    BY <1>3, <1>7
  <2>2. wait'[r] <= recentTitles'[name[r]] + 1
    <3>1. CASE back
      <4>1. w <= wait[r] + 1 /\ wait[r] <= recentTitles[name[r]] /\ recentTitles'[name[r]] = recentTitles[name[r]]
        BY <1>5, <1>6, <1>10, <3>1
      <4> QED BY <1>3, <1>5, <1>8, <2>1, <4>1
    <3>2. CASE ~back
      BY <1>5, <1>8, <2>1, <3>2
    <3> QED BY <3>1, <3>2
  <2>3. name'[r] = name[r]
    BY <1>2
  <2> QED BY <1>8, <2>2, <2>3 DEF BehindGate
<1>13. SinceHeld(r)'
  <2>1. w <= GateWindow + 1
    BY <1>3, <1>5, <1>10
  <2> QED BY <1>3, <1>5, <1>8, <2>1 DEF SinceHeld
<1>14. RuleOk(r)'
  BY <1>11, <1>12, <1>13 DEF RuleOk
<1>15. RuleInv'
  BY <1>1, <1>2, <1>7, <1>9, <1>14, RuleTouched
<1>16. rules_seen'[r] >= Required \/ r \in moved
  BY <1>2, <1>3, <1>4, <1>8 DEF RuleOk, Counts
<1> QED BY <1>15, <1>16


LEMMA RuleFails ==
    ASSUME AL!RulesAssumption, RuleInv, NEW r \in Rules, NEW stage \in {"query", "fire", "commit"}, NEW early \in BOOLEAN,
           AL!Fails(r, stage, early)
    PROVE  RuleInv' /\ rules_since' = rules_since
<1> DEFINE s == IF stage = "query" THEN rules_seen[r] ELSE AL!Older(rules_seen[r], Required)
           k == IF stage = "query" THEN streak[r] ELSE Required
<1>1. wait \in [Rules -> Nat] /\ rules_seen \in [Rules -> 0..Required] /\ streak \in [Rules -> 0..Required]
  BY DEF RuleInv, RuleTypes
<1>2. /\ todo' = todo \ {r} /\ rules_since[r] >= Cooldown /\ (stage # "query" => streak[r] + 1 >= Required)
      /\ streak' = [streak EXCEPT ![r] = k] /\ rules_seen' = [rules_seen EXCEPT ![r] = s]
      /\ recentTitles' = (IF stage = "commit" /\ AL!Announces(r) THEN AL!Passed(name[r], early) ELSE recentTitles)
      /\ wait' = [wait EXCEPT ![r] = 0]
      /\ UNCHANGED <<name, rules_since, moved>>
  BY <1>1 DEF AL!Fails, AL!Done, AL!Counted
<1>3. /\ Required \in Nat /\ Required >= 1 /\ Cooldown \in Nat /\ Cooldown >= 1 /\ GateWindow \in Nat
      /\ name[r] \in Names /\ streak[r] \in 0..Required /\ rules_since[r] \in 0..Cooldown
      /\ rules_seen[r] \in 0..Required /\ RuleOk(r)
  BY RuleNumbers
<1>4. s \in 0..Required /\ k \in 0..Required /\ (stage = "query" => s = rules_seen[r] /\ k = streak[r])
      /\ (stage # "query" => k = Required /\ (s = Required \/ s = rules_seen[r] + 1))
  <2>1. rules_seen[r] \in Nat /\ rules_seen[r] <= Required
    BY <1>3
  <2>2. AL!Older(rules_seen[r], Required) \in 0..Required
        /\ (AL!Older(rules_seen[r], Required) = Required \/ AL!Older(rules_seen[r], Required) = rules_seen[r] + 1)
    BY <1>3, <2>1, OlderOnce
  <2>3. CASE stage = "query"
    BY <1>3, <2>3
  <2>4. CASE stage # "query"
    BY <1>3, <2>2, <2>4
  <2> QED BY <2>3, <2>4
<1>5. recentTitles' \in [Names -> 0..(GateWindow + 1)] /\ \A n \in Names : n # name[r] => recentTitles'[n] = recentTitles[n]
  BY <1>2, TitlePassed DEF RuleInv, RuleTypes
<1> HIDE DEF s, k
<1>6. wait'[r] = 0 /\ rules_seen'[r] = s /\ streak'[r] = k /\ r \notin todo' /\ name'[r] = name[r] /\ recentTitles'[name[r]] \in Nat
  BY <1>1, <1>2, <1>3, <1>5
<1>7. RuleTypes'
  BY <1>1, <1>2, <1>3, <1>4, <1>5 DEF RuleInv, RuleTypes
<1>8. Calm(r)'
  BY <1>2, <1>3 DEF Calm
<1>9. Counts(r)'
  BY <1>2, <1>3, <1>4, <1>6 DEF RuleOk, Counts
<1>10. BehindGate(r)'
  BY <1>6 DEF BehindGate
<1>11. SinceHeld(r)'
  BY <1>2, <1>3, <1>4, <1>6 DEF SinceHeld
<1>12. RuleOk(r)'
  BY <1>8, <1>9, <1>10, <1>11 DEF RuleOk
<1> QED BY <1>1, <1>2, <1>5, <1>7, <1>12, RuleTouched

(* Toggle and Edit: the rule begins anew.                                  *)
LEMMA RuleMoved ==
    ASSUME AL!RulesAssumption, RuleInv, NEW r \in Rules, moved' = moved \cup {r},
           rules_seen' = [rules_seen EXCEPT ![r] = 0], wait' = [wait EXCEPT ![r] = 0],
           UNCHANGED <<name, streak, rules_since, recentTitles, todo>>
    PROVE  RuleInv'
<1>1. wait \in [Rules -> Nat] /\ rules_seen \in [Rules -> 0..Required]
  BY DEF RuleInv, RuleTypes
<1>2. /\ Required \in Nat /\ Cooldown \in Nat /\ GateWindow \in Nat /\ streak[r] \in 0..Required /\ rules_since[r] \in 0..Cooldown
      /\ recentTitles[name[r]] \in 0..(GateWindow + 1) /\ RuleOk(r)
  BY RuleNumbers
<1>3. wait'[r] = 0 /\ rules_seen'[r] = 0 /\ r \in moved'
  BY <1>1
<1>4. RuleTypes'
  BY <1>1, <1>2 DEF RuleInv, RuleTypes
<1>5. RuleOk(r)'
  BY <1>2, <1>3 DEF RuleOk, Calm, Counts, BehindGate, SinceHeld
<1> QED BY <1>1, <1>4, <1>5, RuleTouched

LEMMA RuleRestart ==
    ASSUME AL!RulesAssumption, RuleInv, AL!Restart
    PROVE  RuleInv' /\ rules_since' = rules_since
<1>1. /\ streak' = [r \in Rules |-> 0] /\ recentTitles' = [n \in Names |-> GateWindow + 1]
      /\ rules_seen' = [r \in Rules |-> 0] /\ wait' = [r \in Rules |-> 0]
      /\ UNCHANGED <<name, rules_since>>
  BY DEF AL!Restart
<1>2. Required \in Nat /\ Cooldown \in Nat /\ GateWindow \in Nat
  BY DEF AL!RulesAssumption
<1>3. RuleTypes' /\ NamesDiffer'
  BY <1>1, <1>2 DEF RuleInv, RuleTypes, NamesDiffer
<1>4. ASSUME NEW r \in Rules PROVE RuleOk(r)'
  <2>1. name'[r] \in Names /\ rules_since'[r] \in 0..Cooldown
    BY <1>3 DEF RuleTypes
  <2>2. wait'[r] = 0 /\ rules_seen'[r] = 0 /\ streak'[r] = 0 /\ recentTitles'[name'[r]] = GateWindow + 1
    BY <1>1, <2>1
  <2> QED BY <1>2, <2>1, <2>2 DEF RuleOk, Calm, Counts, BehindGate, SinceHeld
<1> QED BY <1>1, <1>3, <1>4 DEF RuleInv

LEMMA RuleStill ==
    ASSUME RuleInv, UNCHANGED <<name, streak, rules_since, recentTitles, rules_seen, wait, moved, todo>>
    PROVE  RuleInv'
  BY DEF RuleInv, RuleTypes, NamesDiffer, RuleOk, Calm, Counts, BehindGate, SinceHeld

(* What FiredEarned says of a step.                                        *)
Earned == \A r \in Rules : rules_since[r] >= Cooldown /\ rules_since'[r] = 0 => rules_seen'[r] >= Required \/ r \in moved

LEMMA EarnedStill ==
    ASSUME AL!RulesAssumption, RuleInv, rules_since' = rules_since
    PROVE  Earned
<1> SUFFICES ASSUME NEW r \in Rules, rules_since[r] >= Cooldown, rules_since'[r] = 0 PROVE FALSE
  BY DEF Earned
<1>1. Cooldown \in Nat \ {0}
  BY DEF AL!RulesAssumption
<1> QED BY <1>1

LEMMA RuleStep ==
    ASSUME AL!RulesAssumption, RuleInv, AL!RuleNext \/ UNCHANGED AL!ruleVars
    PROVE  RuleInv' /\ Earned
<1>1. ASSUME UNCHANGED AL!ruleVars PROVE RuleInv' /\ Earned
  <2>1. UNCHANGED <<name, streak, rules_since, recentTitles, rules_seen, wait, moved, todo>>
    BY <1>1 DEF AL!ruleVars
  <2> QED BY <2>1, RuleStill, EarnedStill
<1>2. ASSUME AL!BeginRules PROVE RuleInv' /\ Earned
  <2>1. ASSUME NEW r \in Rules, rules_since[r] >= Cooldown PROVE rules_since'[r] # 0
    <3>1. Cooldown \in Nat /\ Cooldown >= 1 /\ rules_since[r] \in 0..Cooldown
      BY RuleNumbers
    <3>2. rules_since'[r] = AL!Older(rules_since[r], Cooldown)
      BY <1>2 DEF AL!BeginRules
    <3> QED BY <2>1, <3>1, <3>2 DEF AL!Older
  <2> QED BY <1>2, <2>1, RuleBegin DEF Earned
<1>3. ASSUME AL!World \/ AL!Resolve PROVE RuleInv' /\ Earned
  <2>1. UNCHANGED <<name, streak, rules_since, recentTitles, rules_seen, wait, moved, todo>>
    BY <1>3 DEF AL!World, AL!Resolve
  <2> QED BY <2>1, RuleStill, EarnedStill
<1>4. ASSUME AL!Restart PROVE RuleInv' /\ Earned
  BY <1>4, RuleRestart, EarnedStill
<1>5. ASSUME NEW r \in Rules, AL!Resting(r) \/ AL!Miss(r) \/ AL!Match(r) PROVE RuleInv' /\ Earned
  <2>1. rules_since' = rules_since
    BY <1>5 DEF AL!Resting, AL!Miss, AL!Match
  <2> QED BY <1>5, <2>1, RuleResting, RuleMiss, RuleMatch, EarnedStill
<1>6. ASSUME NEW r \in Rules, AL!Toggle(r) \/ AL!Edit(r) PROVE RuleInv' /\ Earned
  <2>1. /\ moved' = moved \cup {r} /\ rules_seen' = [rules_seen EXCEPT ![r] = 0] /\ wait' = [wait EXCEPT ![r] = 0]
        /\ UNCHANGED <<name, streak, rules_since, recentTitles, todo>>
    BY <1>6 DEF AL!Toggle, AL!Edit
  <2> QED BY <2>1, RuleMoved, EarnedStill
<1>7. ASSUME NEW r \in Rules, NEW early \in BOOLEAN, NEW stage \in {"query", "fire", "commit"}, AL!Fails(r, stage, early)
      PROVE  RuleInv' /\ Earned
  BY <1>7, RuleFails, EarnedStill
<1>8. ASSUME NEW r \in Rules, NEW early \in BOOLEAN, AL!Fire(r, early) PROVE RuleInv' /\ Earned
  <2>1. RuleInv' /\ (rules_seen'[r] >= Required \/ r \in moved)
    BY <1>8, RuleFire
  <2>2. ASSUME NEW q \in Rules, rules_since[q] >= Cooldown, rules_since'[q] = 0, q # r PROVE FALSE
    <3>1. Cooldown \in Nat /\ Cooldown >= 1 /\ rules_since[q] \in 0..Cooldown /\ rules_since \in [Rules -> 0..Cooldown]
      BY RuleNumbers DEF RuleInv, RuleTypes
    <3>2. rules_since'[q] = rules_since[q]
      BY <1>8, <2>2, <3>1 DEF AL!Fire
    <3> QED BY <2>2, <3>1, <3>2
  <2> QED BY <2>1, <2>2 DEF Earned
<1> QED BY <1>1, <1>2, <1>3, <1>4, <1>5, <1>6, <1>7, <1>8 DEF AL!RuleNext

LEMMA RuleTold == ASSUME AL!RulesAssumption, RuleInv PROVE AL!ToldInTime
<1> SUFFICES ASSUME NEW r \in Rules PROVE wait[r] <= AL!Bound
  BY DEF AL!ToldInTime
<1>1. /\ Required \in Nat /\ Required >= 1 /\ Cooldown \in Nat /\ Cooldown >= 1 /\ GateWindow \in Nat
      /\ streak[r] \in 0..Required /\ rules_since[r] \in 0..Cooldown /\ wait[r] \in Nat /\ RuleOk(r)
  BY RuleNumbers
<1>2. wait[r] <= GateWindow + 1 + rules_since[r] + streak[r] + (IF rules_since[r] < Cooldown /\ r \notin todo THEN 1 ELSE 0)
  BY <1>1 DEF RuleOk, SinceHeld
<1>3. wait[r] <= GateWindow + 1 + Cooldown + Required
  BY <1>1, <1>2
<1> QED BY <1>1, <1>3 DEF AL!Bound

-----------------------------------------------------------------------------
(***************************************************************************)
(* Notifications.  Within its window a tenant has let one message through, *)
(* and none outside of it; a call that is about to send has logged exactly *)
(* the secrets that did not open.                                          *)
(***************************************************************************)
Secrets == [AL!Channels -> {"none", "ok", "bad"}]
NotifyRec == [pc : {"idle", "load", "test", "send", "done"}, t : Tenants \cup {"none"}, only : SUBSET AL!Channels, low : BOOLEAN,
              cfg : Secrets, got : SUBSET AL!Channels, log : [AL!Channels -> {"none", "sent", "failed"}]]
NotifyTypes ==
    /\ recent \in [Tenants -> 0..(Window + 1)] /\ passed \in [Tenants -> Nat] /\ secret \in [Tenants -> Secrets]
    /\ notify_call \in [Calls -> NotifyRec]
    /\ \A k \in Calls : notify_call[k].pc \in {"load", "test"} => notify_call[k].t \in Tenants
GateExact == refused = {} /\ \A t \in Tenants : passed[t] = IF recent[t] < Window THEN 1 ELSE 0
LoggedBad == \A k \in Calls : notify_call[k].pc = "send" =>
    \A c \in AL!Channels : notify_call[k].cfg[c] = "bad" /\ AL!Wanted(k, c) => notify_call[k].log[c] = "failed"
NotifyInv == NotifyTypes /\ GateExact /\ LoggedBad /\ AL!NothingSilent

LEMMA IdleCall == AL!Idle \in NotifyRec /\ AL!Idle.pc = "idle"
<1>1. AL!Nothing \in Secrets /\ AL!Nothing \in [AL!Channels -> {"none", "sent", "failed"}]
  BY DEF AL!Nothing, Secrets
<1> QED BY <1>1 DEF AL!Idle, NotifyRec

LEMMA NotifyStart == ASSUME AL!NotifyAssumption PROVE AL!NotifyInit => NotifyInv
<1> SUFFICES ASSUME AL!NotifyInit PROVE NotifyInv
  OBVIOUS
<1>1. Window \in Nat /\ Window >= 1
  BY DEF AL!NotifyAssumption
<1>2. /\ recent = [t \in Tenants |-> Window + 1] /\ secret = [t \in Tenants |-> [c \in AL!Channels |-> "ok"]]
      /\ notify_call = [k \in Calls |-> AL!Idle] /\ passed = [t \in Tenants |-> 0] /\ refused = {}
  BY DEF AL!NotifyInit
<1>3. \A k \in Calls : notify_call[k].pc = "idle"
  BY <1>2, IdleCall
<1>4. NotifyTypes
  BY <1>1, <1>2, <1>3, IdleCall DEF NotifyTypes, Secrets
<1>5. GateExact
  BY <1>1, <1>2 DEF GateExact
<1>6. LoggedBad /\ AL!NothingSilent
  BY <1>3 DEF LoggedBad, AL!NothingSilent
<1> QED BY <1>4, <1>5, <1>6 DEF NotifyInv

(* A step of one call.                                                     *)
LEMMA NotifyCall ==
    ASSUME NotifyInv, NEW k \in Calls, NEW next \in NotifyRec, notify_call' = [notify_call EXCEPT ![k] = next],
           next.pc \in {"load", "test"} => next.t \in Tenants,
           next.pc = "send" => \A c \in AL!Channels :
               next.cfg[c] = "bad" /\ (next.only = {} \/ c \in next.only) => next.log[c] = "failed",
           next.pc = "done" => \A c \in AL!Channels :
               (next.only = {} \/ c \in next.only) /\ AL!Configured(next.cfg, c) /\ AL!SeverityPasses(c, next.low) =>
                   c \in next.got \/ next.log[c] = "failed" \/ (c \in LegacyChannels /\ next.log[c] = "sent"),
           recent' \in [Tenants -> 0..(Window + 1)], passed' \in [Tenants -> Nat], secret' \in [Tenants -> Secrets], GateExact'
    PROVE  NotifyInv'
<1> USE DEF NotifyInv
<1>1. notify_call' \in [Calls -> NotifyRec] /\ notify_call'[k] = next /\ \A j \in Calls : j # k => notify_call'[j] = notify_call[j]
  BY DEF NotifyTypes
<1>2. NotifyTypes'
  BY <1>1 DEF NotifyTypes
<1>3. LoggedBad'
  BY <1>1 DEF LoggedBad, AL!Wanted
<1>4. AL!NothingSilent'
  <2> SUFFICES ASSUME NEW j \in Calls, notify_call'[j].pc = "done", NEW c \in AL!Channels, AL!Wanted(j, c)',
                      AL!Configured(notify_call'[j].cfg, c), AL!SeverityPasses(c, notify_call'[j].low)
               PROVE  c \in notify_call'[j].got \/ notify_call'[j].log[c] = "failed" \/ (c \in LegacyChannels /\ notify_call'[j].log[c] = "sent")
    BY DEF AL!NothingSilent
  <2>1. CASE j = k
    BY <1>1, <2>1 DEF AL!Wanted
  <2>2. CASE j # k
    BY <1>1, <2>2 DEF AL!NothingSilent, AL!Wanted
  <2> QED BY <2>1, <2>2
<1> QED BY <1>2, <1>3, <1>4

(* One that leaves the calls alone.                                        *)
LEMMA NotifyAround ==
    ASSUME NotifyInv, UNCHANGED notify_call,
           recent' \in [Tenants -> 0..(Window + 1)], passed' \in [Tenants -> Nat], secret' \in [Tenants -> Secrets], GateExact'
    PROVE  NotifyInv'
  BY DEF NotifyInv, NotifyTypes, LoggedBad, AL!NothingSilent, AL!Wanted

LEMMA GateStays ==
    ASSUME NotifyInv, UNCHANGED <<recent, passed, refused, secret>>
    PROVE  recent' \in [Tenants -> 0..(Window + 1)] /\ passed' \in [Tenants -> Nat] /\ secret' \in [Tenants -> Secrets] /\ GateExact'
  BY DEF NotifyInv, NotifyTypes, GateExact

LEMMA CallIdles ==
    ASSUME NotifyInv, NEW k \in Calls, notify_call' = [notify_call EXCEPT ![k] = AL!Idle], UNCHANGED <<recent, passed, refused, secret>>
    PROVE  NotifyInv'
  BY IdleCall, GateStays, NotifyCall

LEMMA NotifyBegins ==
    ASSUME AL!NotifyAssumption, NotifyInv, NEW k \in Calls, NEW t \in Tenants, NEW only \in {{}, Extra}, NEW low \in BOOLEAN,
           AL!Notify(k, t, only, low)
    PROVE  NotifyInv'
<1>1. Window \in Nat /\ Window >= 1 /\ recent \in [Tenants -> 0..(Window + 1)] /\ passed \in [Tenants -> Nat]
  BY DEF AL!NotifyAssumption, NotifyInv, NotifyTypes
<1>2. CASE AL!Limited(t)
  <2>1. passed[t] = 1
    BY <1>1, <1>2 DEF NotifyInv, GateExact, AL!Limited
  <2>2. UNCHANGED <<recent, passed, refused, secret>> /\ UNCHANGED notify_call
    BY <1>2, <2>1 DEF AL!Notify, AL!store
  <2> QED BY <2>2, GateStays, NotifyAround
<1>3. CASE ~AL!Limited(t)
  <2> DEFINE next == [AL!Idle EXCEPT !.pc = "load", !.t = t, !.only = only, !.low = low]
  <2>1. /\ recent' = [recent EXCEPT ![t] = 0] /\ passed' = [passed EXCEPT ![t] = passed[t] + 1]
        /\ notify_call' = [notify_call EXCEPT ![k] = next] /\ UNCHANGED <<refused, secret>>
    BY <1>1, <1>3 DEF AL!Notify, AL!Begin, AL!store
  <2>2. next \in NotifyRec /\ next.pc = "load" /\ next.t = t
    BY IdleCall DEF NotifyRec, AL!Channels
  <2> HIDE DEF next
  <2>3. passed[t] = 0
    BY <1>1, <1>3 DEF NotifyInv, GateExact, AL!Limited
  <2>4. recent' \in [Tenants -> 0..(Window + 1)] /\ passed' \in [Tenants -> Nat] /\ secret' \in [Tenants -> Secrets]
    BY <1>1, <2>1, <2>3 DEF NotifyInv, NotifyTypes
  <2>5. GateExact'
    BY <1>1, <2>1, <2>3 DEF NotifyInv, GateExact
  <2> QED BY <2>1, <2>2, <2>4, <2>5, NotifyCall
<1> QED BY <1>2, <1>3

LEMMA NotifyTest ==
    ASSUME NotifyInv, NEW k \in Calls, NEW t \in Tenants, NEW c \in AL!Channels, AL!Test(k, t, c)
    PROVE  NotifyInv'
<1> DEFINE next == [AL!Idle EXCEPT !.pc = "test", !.t = t, !.only = {c}]
<1>1. notify_call' = [notify_call EXCEPT ![k] = next] /\ UNCHANGED <<recent, passed, refused, secret>>
  BY DEF AL!Test, AL!gate, AL!store
<1>2. next \in NotifyRec /\ next.pc = "test" /\ next.t = t
  BY IdleCall DEF NotifyRec
<1> HIDE DEF next
<1> QED BY <1>1, <1>2, GateStays, NotifyCall

LEMMA NotifyLoad ==
    ASSUME NotifyInv, NEW k \in Calls, AL!Load(k)
    PROVE  NotifyInv'
<1> DEFINE me == notify_call[k]
           cfg == secret[me.t]
           log == [c \in AL!Channels |-> IF c \in AL!Failed(k, cfg) THEN "failed" ELSE "none"]
           next == [me EXCEPT !.pc = "send", !.cfg = cfg, !.log = log]
<1>1. notify_call \in [Calls -> NotifyRec] /\ me \in NotifyRec
  BY DEF NotifyInv, NotifyTypes
<1>2. /\ me.pc \in {"load", "test"} /\ UNCHANGED <<recent, passed, refused, secret>>
      /\ notify_call' = [notify_call EXCEPT ![k] = AL!Idle] \/ notify_call' = [notify_call EXCEPT ![k] = next]
  BY <1>1 DEF AL!Load, AL!gate, AL!store
<1>3. CASE notify_call' = [notify_call EXCEPT ![k] = AL!Idle]
  BY <1>2, <1>3, CallIdles
<1>4. CASE notify_call' = [notify_call EXCEPT ![k] = next]
  <2>1. cfg \in Secrets /\ log \in [AL!Channels -> {"none", "sent", "failed"}]
    BY <1>2 DEF NotifyInv, NotifyTypes
  <2>2. \A c \in AL!Channels : cfg[c] = "bad" /\ (me.only = {} \/ c \in me.only) => log[c] = "failed"
    BY DEF AL!Failed, AL!Wanted
  <2> HIDE DEF cfg, log
  <2>3. next.pc = "send" /\ next.cfg = cfg /\ next.log = log /\ next.only = me.only
    BY <1>1 DEF NotifyRec
  <2>4. next \in NotifyRec
    BY <1>1, <2>1 DEF NotifyRec
  <2> HIDE DEF next, me
  <2> QED BY <1>2, <1>4, <2>2, <2>3, <2>4, GateStays, NotifyCall
<1> QED BY <1>2, <1>3, <1>4

LEMMA NotifyGather ==
    ASSUME NotifyInv, NEW k \in Calls, AL!Gather(k)
    PROVE  NotifyInv'
<1> DEFINE me == notify_call[k]
           S == AL!Sends(k, me.cfg)
<1>1. notify_call \in [Calls -> NotifyRec] /\ me \in NotifyRec
  BY DEF NotifyInv, NotifyTypes
<1>2. me.pc = "send" /\ UNCHANGED <<recent, passed, refused, secret>>
  BY DEF AL!Gather, AL!gate, AL!store
<1>3. PICK result \in [S -> {"taken", "failed", "blocked"}] :
        /\ \A c \in S : result[c] \in AL!Outcomes(c)
        /\ notify_call' = [notify_call EXCEPT ![k] = [me EXCEPT
              !.pc = "done", !.got = {c \in S : result[c] = "taken"},
              !.log = [c \in AL!Channels |-> IF c \in S THEN AL!Logged(result[c]) ELSE me.log[c]]]]
  BY <1>1, ZenonT(40) DEF AL!Gather
<1> DEFINE got == {c \in S : result[c] = "taken"}
           log == [c \in AL!Channels |-> IF c \in S THEN AL!Logged(result[c]) ELSE me.log[c]]
           next == [me EXCEPT !.pc = "done", !.got = got, !.log = log]
<1>4. S \subseteq AL!Channels
  BY DEF AL!Sends, AL!LegacySends, AL!ExtraSends, AL!Channels
<1>5. me.log \in [AL!Channels -> {"none", "sent", "failed"}] /\ me.cfg \in Secrets
  BY <1>1 DEF NotifyRec
<1>6. got \in SUBSET AL!Channels /\ log \in [AL!Channels -> {"none", "sent", "failed"}]
  BY <1>4, <1>5 DEF AL!Logged
<1>7. ASSUME NEW c \in AL!Channels, me.only = {} \/ c \in me.only, AL!Configured(me.cfg, c), AL!SeverityPasses(c, me.low)
      PROVE  c \in got \/ log[c] = "failed" \/ (c \in LegacyChannels /\ log[c] = "sent")
  <2>1. CASE me.cfg[c] = "bad"
    <3>1. c \notin S
      BY <2>1 DEF AL!Sends
    <3>2. me.log[c] = "failed"
      BY <1>2, <1>7, <2>1 DEF NotifyInv, LoggedBad, AL!Wanted
    <3> QED BY <3>1, <3>2
  <2>2. CASE me.cfg[c] # "bad"
    <3>1. c \in S
      BY <1>7, <2>2 DEF AL!Sends, AL!LegacySends, AL!ExtraSends, AL!Wanted, AL!Channels
    <3>2. result[c] \in {"taken", "failed", "blocked"} /\ (result[c] = "blocked" => c \in LegacyChannels)
      BY <1>3, <3>1 DEF AL!Outcomes, AL!ExtraOutcomes
    <3>3. log[c] = AL!Logged(result[c])
      BY <3>1
    <3>4. result[c] = "taken" => c \in got
      BY <3>1
    <3> QED BY <3>2, <3>3, <3>4 DEF AL!Logged
  <2> QED BY <2>1, <2>2
<1>8. notify_call' = [notify_call EXCEPT ![k] = next]
  BY <1>3
<1> HIDE DEF got, log, S
<1>9. next.pc = "done" /\ next.got = got /\ next.log = log /\ next.only = me.only /\ next.cfg = me.cfg /\ next.low = me.low
  BY <1>1 DEF NotifyRec
<1>10. next \in NotifyRec
  BY <1>1, <1>6 DEF NotifyRec
<1> HIDE DEF next, me
<1> QED BY <1>2, <1>7, <1>8, <1>9, <1>10, GateStays, NotifyCall

LEMMA NotifyTick ==
    ASSUME AL!NotifyAssumption, NotifyInv, AL!Tick
    PROVE  NotifyInv'
<1>1. Window \in Nat /\ Window >= 1 /\ recent \in [Tenants -> 0..(Window + 1)] /\ passed \in [Tenants -> Nat]
  BY DEF AL!NotifyAssumption, NotifyInv, NotifyTypes
<1>2. /\ recent' = [t \in Tenants |-> IF recent[t] > Window THEN recent[t] ELSE recent[t] + 1]
      /\ passed' = [t \in Tenants |-> IF recent'[t] >= Window THEN 0 ELSE passed[t]]
      /\ UNCHANGED <<refused, secret, notify_call>>
  BY DEF AL!Tick, AL!store
<1>3. ASSUME NEW t \in Tenants
      PROVE  /\ recent'[t] \in 0..(Window + 1) /\ passed'[t] \in Nat
             /\ passed'[t] = IF recent'[t] < Window THEN 1 ELSE 0
  <2>1. recent[t] \in 0..(Window + 1) /\ passed[t] \in Nat /\ passed[t] = IF recent[t] < Window THEN 1 ELSE 0
    BY <1>1 DEF NotifyInv, GateExact
  <2>2. recent'[t] = (IF recent[t] > Window THEN recent[t] ELSE recent[t] + 1) /\ passed'[t] = IF recent'[t] >= Window THEN 0 ELSE passed[t]
    BY <1>2
  <2>3. recent'[t] \in 0..(Window + 1) /\ (recent'[t] < Window => recent[t] < Window)
    BY <1>1, <2>1, <2>2
  <2> QED BY <1>1, <2>1, <2>2, <2>3
<1>4. recent' \in [Tenants -> 0..(Window + 1)] /\ passed' \in [Tenants -> Nat] /\ secret' \in [Tenants -> Secrets]
  BY <1>2, <1>3 DEF NotifyInv, NotifyTypes
<1>5. GateExact'
  BY <1>2, <1>3 DEF NotifyInv, GateExact
<1> QED BY <1>2, <1>4, <1>5, NotifyAround

LEMMA NotifyStep ==
    ASSUME AL!NotifyAssumption, NotifyInv, AL!NotifyNext \/ UNCHANGED AL!notifyVars
    PROVE  NotifyInv'
<1>1. ASSUME UNCHANGED AL!notifyVars PROVE NotifyInv'
  <2>1. UNCHANGED <<recent, passed, refused, secret>> /\ UNCHANGED notify_call
    BY <1>1 DEF AL!notifyVars
  <2> QED BY <2>1, GateStays, NotifyAround
<1>2. ASSUME NEW k \in Calls, NEW t \in Tenants, NEW only \in {{}, Extra}, NEW low \in BOOLEAN, AL!Notify(k, t, only, low)
      PROVE  NotifyInv'
  BY <1>2, NotifyBegins
<1>3. ASSUME NEW k \in Calls, NEW t \in Tenants, NEW c \in AL!Channels, AL!Test(k, t, c) PROVE NotifyInv'
  BY <1>3, NotifyTest
<1>4. ASSUME NEW k \in Calls, AL!Load(k) \/ AL!Gather(k) PROVE NotifyInv'
  BY <1>4, NotifyLoad, NotifyGather
<1>5. ASSUME NEW k \in Calls, AL!LoadFails(k) \/ AL!Return(k) PROVE NotifyInv'
  <2>1. notify_call' = [notify_call EXCEPT ![k] = AL!Idle] /\ UNCHANGED <<recent, passed, refused, secret>>
    BY <1>5 DEF AL!LoadFails, AL!Return, AL!gate, AL!store
  <2> QED BY <2>1, CallIdles
<1>6. ASSUME NEW t \in Tenants, NEW c \in AL!Channels, NEW what \in {"toggle", "none", "ok", "bad"}, AL!Save(t, c, what)
      PROVE  NotifyInv'
  <2>1. /\ secret' = secret \/ (what \in {"none", "ok", "bad"} /\ secret' = [secret EXCEPT ![t][c] = what])
        /\ UNCHANGED <<recent, passed, refused>> /\ UNCHANGED notify_call
    BY <1>6 DEF AL!Save, AL!gate
  <2>2. secret \in [Tenants -> Secrets]
    BY DEF NotifyInv, NotifyTypes
  <2>3. secret' \in [Tenants -> Secrets]
    BY <2>1, <2>2 DEF Secrets
  <2>4. recent' \in [Tenants -> 0..(Window + 1)] /\ passed' \in [Tenants -> Nat] /\ GateExact'
    BY <2>1 DEF NotifyInv, NotifyTypes, GateExact
  <2> QED BY <2>1, <2>3, <2>4, NotifyAround
<1> QED BY <1>1, <1>2, <1>3, <1>4, <1>5, <1>6, NotifyTick DEF AL!NotifyNext

LEMMA NotifySafe == ASSUME AL!NotifyAssumption, NotifyInv PROVE AL!OnePerWindow /\ AL!NothingSilent
  BY DEF NotifyInv, GateExact, AL!OnePerWindow

-----------------------------------------------------------------------------
(* A step of the suite is a step of one component and leaves the others    *)
(* alone.                                                                  *)
LEMMA AccessMove ==
    ASSUME [Next]_vars
    PROVE  /\ A!AccountNext \/ UNCHANGED A!accountVars
           /\ AL!RuleNext \/ UNCHANGED AL!ruleVars
           /\ AL!NotifyNext \/ UNCHANGED AL!notifyVars
           /\ LC!Next \/ UNCHANGED LC!vars
           /\ BK!BackupNext \/ UNCHANGED BK!backupVars
           /\ BK!WatchNext \/ UNCHANGED BK!watchVars
           /\ AI!ConsentNext \/ UNCHANGED AI!consentVars
<1>1. /\ A!AccountNext \/ UNCHANGED accountsVars
      /\ AL!RuleNext \/ UNCHANGED rulesVars
      /\ AL!NotifyNext \/ UNCHANGED notifyVars
      /\ LC!Next \/ UNCHANGED licenceVars
      /\ BK!BackupNext \/ UNCHANGED backupVars
      /\ BK!WatchNext \/ UNCHANGED watchVars
      /\ AI!ConsentNext \/ UNCHANGED consentVars
  BY DEF Next, vars, accountsOnly, limitOnly, rulesOnly, notifyOnly, licenceOnly, backupOnly, watchOnly,
         windowsOnly, scanOnly, portsOnly, snmpOnly, consentOnly, redactionOnly
<1>2. /\ accountsVars = A!accountVars /\ rulesVars = AL!ruleVars /\ notifyVars = AL!notifyVars
      /\ licenceVars = LC!vars /\ backupVars = BK!backupVars /\ watchVars = BK!watchVars
      /\ consentVars = AI!consentVars
  BY DEF accountsVars, rulesVars, notifyVars, licenceVars, backupVars, watchVars, consentVars, A!accountVars,
         AL!ruleVars, AL!notifyVars, LC!vars, BK!backupVars, BK!watchVars, AI!consentVars
<1>3. /\ (accountsVars = A!accountVars)' /\ (rulesVars = AL!ruleVars)' /\ (notifyVars = AL!notifyVars)'
      /\ (licenceVars = LC!vars)' /\ (backupVars = BK!backupVars)' /\ (watchVars = BK!watchVars)'
      /\ (consentVars = AI!consentVars)'
  BY DEF accountsVars, rulesVars, notifyVars, licenceVars, backupVars, watchVars, consentVars, A!accountVars,
         AL!ruleVars, AL!notifyVars, LC!vars, BK!backupVars, BK!watchVars, AI!consentVars
<1> QED BY <1>1, <1>2, <1>3

(* After a restore everyone can sign in and every secret opens, unless the *)
(* restore was broken off or the export lacks the key, whatever the export *)
(* met in between; and when the watch over the backups of a guest is       *)
(* silent there was a backup in time: for any tenants, users, rotations,   *)
(* runs and storages.                                                      *)
THEOREM BackupsAreSafe ==
    ASSUME BK!BackupAssumption, BK!WatchAssumption PROVE Spec => []BackupsHold
<1>1. Init => BackupInv /\ WatchInv
  BY BackupStart, WatchStart DEF Init
<1>2. BackupInv /\ WatchInv /\ [Next]_vars => (BackupInv /\ WatchInv)'
  BY AccessMove, BackupStep, WatchStep
<1>3. BackupInv /\ WatchInv => BackupsHold
  BY BackupSafe, WatchSafe DEF BackupsHold
<1> QED BY <1>1, <1>2, <1>3, PTL DEF Spec

(* Every tenant keeps an admin, the operator flag is that of the admins of *)
(* the default tenant and a session was opened with the present password,  *)
(* but for the overlaps each of them names; a process decides by a licence *)
(* that was in force when it read it, and expiry never makes replicas run  *)
(* the jobs side by side; and what goes to an AI provider goes as an admin *)
(* decided: for any users, tenants, requests, processes, saves and calls.  *)
THEOREM AccountsAreSafe ==
    ASSUME A!AccountsAssumption, LC!LicensingAssumption PROVE Spec => []AccountsSafe
<1>1. Init => AccountInv /\ LicenceInv /\ ConsentInv
  BY AccountStart, LicenceStart, ConsentStart DEF Init
<1>2. AccountInv /\ LicenceInv /\ ConsentInv /\ [Next]_vars => (AccountInv /\ LicenceInv /\ ConsentInv)'
  BY AccessMove, AccountStep, LicenceStep, ConsentStep
<1>3. AccountInv /\ LicenceInv /\ ConsentInv => AccountsSafe
  <2>1. LicenceInv => LC!LicenceFresh /\ LC!AloneExplained
    BY DEF LicenceInv
  <2> QED BY <2>1, AccountSafe, ConsentSafe DEF AccountsSafe
<1> QED BY <1>1, <1>2, <1>3, PTL DEF Spec

(* A rule fires for the evaluations in a row it asks for and, as long as   *)
(* it matches, is announced within two cooldowns and a window of the gate, *)
(* when the rules' names differ; the gate lets one message per title,      *)
(* window and tenant through; and no channel a call was for stays silent   *)
(* without a word in the history: for any rules, thresholds, windows,      *)
(* channels and overlapping calls.                                         *)
THEOREM MessagesDoArrive ==
    ASSUME AL!RulesAssumption, AL!NotifyAssumption, Distinct PROVE Spec => MessagesArrive
<1>1. Init => RuleInv /\ NotifyInv
  BY RuleStart, NotifyStart DEF Init
<1>2. RuleInv /\ NotifyInv /\ [Next]_vars => (RuleInv /\ NotifyInv)'
  BY AccessMove, RuleStep, NotifyStep
<1>3. RuleInv /\ [Next]_vars =>
        [\A r \in Rules : rules_since[r] >= Cooldown /\ rules_since'[r] = 0 =>
                            rules_seen'[r] >= Required \/ r \in moved]_AL!ruleVars
  BY AccessMove, RuleStep DEF Earned
<1>4. RuleInv /\ NotifyInv =>
        /\ part = "rules" => AL!ToldInTime
        /\ part = "notify" => AL!OnePerWindow /\ AL!NothingSilent
  BY RuleTold, NotifySafe
<1> QED BY <1>1, <1>2, <1>3, <1>4, PTL DEF Spec, MessagesArrive, AL!FiredEarned
=============================================================================
