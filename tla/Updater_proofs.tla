--------------------------- MODULE Updater_proofs ---------------------------
(***************************************************************************)
(* What an update guarantees for every number of releases, retention and   *)
(* faults, in both modes: new code never serves on an old schema, there is *)
(* a dump to go back to, and only signed images run.                       *)
(***************************************************************************)
EXTENDS Updater, Integers, TLAPS

pre == dumps["pre-update"]

(* Dumps that no failing dump takes away again: all but the unfinished one. *)
Settled == IF At("dump") THEN Len(pre) - 1 ELSE Len(pre)

(* There is a dump an app of version v can run on, or there were Retention    *)
(* later ones.                                                                *)
Fallback(v) ==
    \/ \E i \in DOMAIN pre : pre[i].whole /\ pre[i].schema <= v
    \/ Settled >= Retention

(* The unfinished dump of a run is the last one, and not whole; behind it the *)
(* last one is whole; a scheduled dump never runs beside a run; and crashes   *)
(* account for every file above the retention.                                *)
DumpStep == IF mode = "git" THEN 4 ELSE 6
PastDump == run > DumpStep
DumpsInv ==
    /\ \A i \in DOMAIN pre : pre[i].schema <= schema
    /\ run # 0 => ~dumping
    /\ At("dump") => pre # <<>> /\ ~pre[Len(pre)].whole
    /\ PastDump => pre # <<>> /\ pre[Len(pre)].whole
    /\ Settled <= Retention + faults
    /\ dumping => dumps["scheduled"] # <<>>
    /\ Len(dumps["scheduled"]) <= Retention + faults + (IF dumping THEN 1 ELSE 0)

(* Whoever may still move the schema has left a dump of the schema before; a  *)
(* schema that has moved past the serving app has one of before.              *)
RecoveryInv ==
    /\ NeverAhead
    /\ late # {} => Fallback(schema)
    /\ app.up /\ app.version < schema => Fallback(app.version)

(* In image mode the releases that may be started again were verified: the    *)
(* one that serves, the one that is pinned, and the one a run has replaced.   *)
(* A run moves forward only, so that pulling its target touches none of them. *)
ImagesInv ==
    mode = "image" =>
        /\ local[pinned] = "signed" /\ local[app.version] = "signed" /\ app.version <= pinned
        /\ run \in 1..9 => plan.replaced = 0
        /\ run \in 4..9 => pinned < plan.target
        /\ run \in 5..9 => plan.digest = "signed"
        /\ run \in 8..9 => local[plan.target] = "signed"
        /\ run > 9 => /\ plan.target = pinned /\ plan.replaced # 0
                      /\ plan.replaced < pinned /\ local[plan.replaced] = "signed"
        /\ run = 10 => app.version <= plan.replaced

UpdaterInv ==
    /\ UpdaterTypeOK /\ DumpsInv /\ RecoveryInv /\ ImagesInv /\ OnlyVerified

-----------------------------------------------------------------------------
(* Where a run stands, by the number of its step. *)
LEMMA Positions ==
  ASSUME UpdaterTypeOK
  PROVE  /\ mode \in {"git", "image"}
         /\ mode = "git" =>
              /\ Len(Steps) = 8 /\ run \in 0..8
              /\ At("new") <=> run = 1
              /\ At("preflight") <=> run = 2
              /\ At("backup") <=> run = 3
              /\ At("dump") <=> run = 4
              /\ At("pull") <=> run = 5
              /\ At("build") <=> run = 6
              /\ At("migrate") <=> run = 7
              /\ At("restart") <=> run = 8
              /\ ~At("resolve") /\ ~At("verify") /\ ~At("stage") /\ ~At("install") /\ ~At("handoff")
         /\ mode = "image" =>
              /\ Len(Steps) = 12 /\ run \in 0..12
              /\ At("new") <=> run = 1
              /\ At("preflight") <=> run = 2
              /\ At("resolve") <=> run = 3
              /\ At("verify") <=> run = 4
              /\ At("backup") <=> run = 5
              /\ At("dump") <=> run = 6
              /\ At("pull") <=> run = 7
              /\ At("stage") <=> run = 8
              /\ At("install") <=> run = 9
              /\ At("migrate") <=> run = 10
              /\ At("restart") <=> run = 11
              /\ At("handoff") <=> run = 12
              /\ ~At("build")
<1>1. mode \in {"git", "image"}
  BY UpdaterAssumption DEF UpdaterTypeOK
<1>2. ASSUME mode = "git"
      PROVE  /\ Len(Steps) = 8 /\ run \in 0..8
             /\ Steps = <<"new", "preflight", "backup", "dump", "pull", "build", "migrate", "restart">>
  BY <1>2 DEF Steps, GitSteps, UpdaterTypeOK
<1>3. ASSUME mode = "image"
      PROVE  /\ Len(Steps) = 12 /\ run \in 0..12
             /\ Steps = <<"new", "preflight", "resolve", "verify", "backup", "dump", "pull", "stage",
                          "install", "migrate", "restart", "handoff">>
  BY <1>1, <1>3 DEF Steps, ImageSteps, UpdaterTypeOK
<1> QED
  BY <1>1, <1>2, <1>3 DEF At

(* A new file is the last one. *)
LEMMA DumpAdded ==
  ASSUME NEW s \in Seq(Dump), NEW d \in Dump
  PROVE  /\ Append(s, d) \in Seq(Dump) /\ Append(s, d) # <<>> /\ Len(Append(s, d)) = Len(s) + 1
         /\ Append(s, d)[Len(s) + 1] = d
         /\ \A i \in DOMAIN s : i \in DOMAIN Append(s, d) /\ Append(s, d)[i] = s[i]
         /\ DOMAIN Append(s, d) = DOMAIN s \cup {Len(s) + 1}
  OBVIOUS

(* The last file becomes whole, or is taken away. *)
LEMMA DumpFiles ==
  ASSUME NEW s \in Seq(Dump), s # <<>>
  PROVE  /\ Len(s) \in DOMAIN s
         /\ Finished(s) \in Seq(Dump) /\ Len(Finished(s)) = Len(s)
         /\ DOMAIN Finished(s) = DOMAIN s
         /\ Finished(s)[Len(s)].whole
         /\ \A i \in DOMAIN s : /\ Finished(s)[i].schema = s[i].schema
                                /\ s[i].whole => Finished(s)[i].whole
         /\ SubSeq(s, 1, Len(s) - 1) \in Seq(Dump)
         /\ Len(SubSeq(s, 1, Len(s) - 1)) = Len(s) - 1
         /\ DOMAIN SubSeq(s, 1, Len(s) - 1) = DOMAIN s \ {Len(s)}
         /\ \A i \in DOMAIN s \ {Len(s)} : SubSeq(s, 1, Len(s) - 1)[i] = s[i]
<1>1. /\ Len(s) \in DOMAIN s
      /\ Finished(s) \in Seq(Dump) /\ Len(Finished(s)) = Len(s)
      /\ DOMAIN Finished(s) = DOMAIN s
      /\ Finished(s)[Len(s)].whole
      /\ \A i \in DOMAIN s : /\ Finished(s)[i].schema = s[i].schema
                             /\ s[i].whole => Finished(s)[i].whole
  <2>1. Len(s) \in DOMAIN s /\ Len(s) \in Nat \ {0} /\ DOMAIN s = 1..Len(s)
    OBVIOUS
  <2>2. Finished(s) = [i \in DOMAIN s |-> IF i = Len(s) THEN [s[i] EXCEPT !.whole = TRUE] ELSE s[i]]
    BY <2>1 DEF Finished
  <2>3. \A i \in DOMAIN s : s[i] \in Dump
    OBVIOUS
  <2>4. \A e \in Dump : /\ [e EXCEPT !.whole = TRUE] \in Dump /\ [e EXCEPT !.whole = TRUE].whole
                        /\ [e EXCEPT !.whole = TRUE].schema = e.schema
    BY DEF Dump
  <2>5. DOMAIN Finished(s) = 1..Len(s) /\ \A i \in 1..Len(s) : Finished(s)[i] \in Dump
    BY <2>1, <2>2, <2>3, <2>4
  <2>6. Finished(s) \in [1..Len(s) -> Dump]
    BY <2>2, <2>5, <2>1
  <2>7. Finished(s) \in Seq(Dump) /\ Len(Finished(s)) = Len(s)
    BY <2>1, <2>6
  <2> QED
    BY <2>1, <2>2, <2>3, <2>4, <2>7
<1>2. /\ SubSeq(s, 1, Len(s) - 1) \in Seq(Dump)
      /\ Len(SubSeq(s, 1, Len(s) - 1)) = Len(s) - 1
      /\ DOMAIN SubSeq(s, 1, Len(s) - 1) = DOMAIN s \ {Len(s)}
      /\ \A i \in DOMAIN s \ {Len(s)} : SubSeq(s, 1, Len(s) - 1)[i] = s[i]
  <2>1. Len(s) \in Nat \ {0} /\ DOMAIN s = 1..Len(s)
    OBVIOUS
  <2>2. SubSeq(s, 1, Len(s) - 1) \in Seq(Dump) /\ Len(SubSeq(s, 1, Len(s) - 1)) = Len(s) - 1
    BY <2>1
  <2>3. DOMAIN SubSeq(s, 1, Len(s) - 1) = 1..(Len(s) - 1) /\ DOMAIN s \ {Len(s)} = 1..(Len(s) - 1)
    BY <2>1, <2>2
  <2>4. \A i \in 1..(Len(s) - 1) : SubSeq(s, 1, Len(s) - 1)[i] = s[i]
    BY <2>1
  <2> QED
    BY <2>2, <2>3, <2>4
<1> QED
  BY <1>1, <1>2

(* Pruning keeps the newest files. *)
LEMMA KeptFiles ==
  ASSUME NEW s \in Seq(Dump), s # <<>>
  PROVE  /\ Kept(s) \in Seq(Dump) /\ Kept(s) # <<>> /\ Len(Kept(s)) <= Retention
         /\ Len(s) <= Retention => Kept(s) = s
         /\ Len(s) > Retention => Len(Kept(s)) = Retention
         /\ Kept(s)[Len(Kept(s))] = s[Len(s)]
         /\ \A i \in DOMAIN Kept(s) : \E j \in DOMAIN s : Kept(s)[i] = s[j]
<1>1. CASE Len(s) <= Retention
  <2>1. Kept(s) = s /\ Len(s) \in Nat /\ Retention \in Nat
    BY <1>1, UpdaterAssumption DEF Kept
  <2> QED
    BY <1>1, <2>1
<1>2. CASE ~(Len(s) <= Retention)
  <2>1. Kept(s) = SubSeq(s, Len(s) - Retention + 1, Len(s)) /\ Retention \in Nat \ {0} /\ Len(s) \in Nat
    BY <1>2, UpdaterAssumption DEF Kept
  <2>2. /\ Kept(s) \in Seq(Dump) /\ Len(Kept(s)) = Retention
        /\ \A i \in 1..Retention : Kept(s)[i] = s[Len(s) - Retention + i]
    BY <1>2, <2>1
  <2>3. Kept(s)[Len(Kept(s))] = s[Len(s)] /\ DOMAIN Kept(s) = 1..Retention
    BY <2>1, <2>2
  <2>4. \A i \in 1..Retention : Len(s) - Retention + i \in DOMAIN s
    BY <1>2, <2>1
  <2>5. \A i \in DOMAIN Kept(s) : \E j \in DOMAIN s : Kept(s)[i] = s[j]
    BY <2>2, <2>3, <2>4
  <2>6. Kept(s) # <<>> /\ Len(Kept(s)) <= Retention /\ ~(Len(s) <= Retention)
    <3>1. \A q \in Seq(Dump) : Len(q) # 0 => q # <<>>
      OBVIOUS
    <3>2. Len(Kept(s)) # 0 /\ Len(Kept(s)) <= Retention /\ ~(Len(s) <= Retention)
      BY <1>2, <2>1, <2>2
    <3>3. Kept(s) # <<>>
      BY <2>2, <3>1, <3>2
    <3> QED
      BY <3>2, <3>3
  <2> QED
    BY <2>2, <2>3, <2>5, <2>6
<1> QED
  BY <1>1, <1>2

(* The next step of a run, and its end. *)
LEMMA RunMoves ==
  ASSUME UpdaterTypeOK, run # 0, Advance \/ Abort
  PROVE  /\ run' \in {0, run + 1} /\ run' \in 0..Len(Steps)
         /\ Abort => run' = 0
         /\ file' \in {"idle", "running", "done", "failed"}
<1>1. run \in Nat /\ Len(Steps) \in Nat /\ run <= Len(Steps) /\ run # 0
  <2>1. Len(Steps) \in {8, 12} /\ run \in 0..Len(Steps)
    BY Positions DEF UpdaterTypeOK
  <2> QED
    BY <2>1
<1>2. CASE Abort
  BY <1>1, <1>2 DEF Abort
<1>3. CASE Advance
  <2>1. CASE run = Len(Steps)
    BY <1>1, <1>3, <2>1 DEF Advance, Abort
  <2>2. CASE run # Len(Steps)
    BY <1>1, <1>3, <2>2 DEF Advance, Abort
  <2> QED
    BY <2>1, <2>2
<1> QED
  BY <1>2, <1>3

(* What a run installs is a release. *)
LEMMA TargetIsRelease ==
  ASSUME UpdaterTypeOK, ImagesInv, At("migrate") \/ At("restart")
  PROVE  Target \in Versions
<1>1. CASE mode = "git"
  BY <1>1 DEF Target, UpdaterTypeOK
<1>2. CASE mode = "image"
  <2>1. run > 9
    BY <1>2, Positions
  <2> QED
    BY <1>2, <2>1 DEF Target, ImagesInv, UpdaterTypeOK
<1> QED
  BY <1>1, <1>2, Positions

(* Starting an app of version v. *)
LEMMA StartedApp ==
  ASSUME UpdaterTypeOK, NEW v \in Versions, Started(v)
  PROVE  /\ app' \in [version : Versions, content : Contents, up : BOOLEAN]
         /\ app'.version = v /\ app'.content = (IF mode = "git" THEN "signed" ELSE local[v])
         /\ schema' \in Versions /\ schema <= schema' /\ v <= schema'
         /\ app'.up => schema' = v
<1>1. /\ schema \in Nat /\ v \in Nat /\ schema \in Versions
      /\ (IF mode = "git" THEN "signed" ELSE local[v]) \in Contents /\ Migrates(v) \in BOOLEAN
  BY UpdaterAssumption DEF UpdaterTypeOK, Versions, Contents, Migrates
<1>2. /\ app' = [version |-> v, content |-> IF mode = "git" THEN "signed" ELSE local[v], up |-> Migrates(v)]
      /\ schema' = IF schema > v THEN schema ELSE v
  BY DEF Started, Larger
<1>3. schema' \in Versions /\ schema <= schema' /\ v <= schema' /\ (Migrates(v) => schema' = v)
  BY <1>1, <1>2 DEF Migrates
<1> QED
  BY <1>1, <1>2, <1>3

(* The variables but the dumps and the faults keep their types. *)
SmallTypes ==
    /\ mode \in Modes /\ newest \in Versions /\ moved \subseteq Versions
    /\ pinned \in Versions /\ built \in Versions /\ local \in [Versions -> Contents]
    /\ app \in [version : Versions, content : Contents, up : BOOLEAN]
    /\ schema \in Versions /\ late \subseteq Versions
    /\ run \in 0..Len(Steps) /\ dumping \in BOOLEAN
    /\ plan \in [target : 0..MaxVersion, digest : Contents, replaced : 0..MaxVersion]
    /\ file \in {"idle", "running", "done", "failed"}

LEMMA SmallTypesStep ==
  ASSUME UpdaterTypeOK, ImagesInv, UpdaterNext
  PROVE  SmallTypes'
<1> USE UpdaterAssumption DEF SmallTypes, UpdaterTypeOK, Versions, outside, disk
<1>0. mode' = mode => Len(Steps)' = Len(Steps)
  BY DEF Steps
<1>1. CASE StartRun
  BY <1>0, <1>1, Positions DEF StartRun, NoPlan, Contents
<1>2. CASE Begin
  BY <1>0, <1>2, RunMoves DEF Begin, At
<1>3. CASE Preflight \/ ImagePreflight \/ Stage
  BY <1>0, <1>3, RunMoves DEF Preflight, ImagePreflight, Stage, Check, At
<1>4. CASE Resolve
  BY <1>0, <1>4, RunMoves, SMTT(30) DEF Resolve, At, Contents
<1>5. CASE Verify
  <2>1. plan' \in [target : 0..MaxVersion, digest : Contents, replaced : 0..MaxVersion]
    BY <1>5 DEF Verify, Contents
  <2> QED
    BY <1>0, <1>5, <2>1, RunMoves DEF Verify, At
<1>6. CASE StepBackupBegin \/ StepBackupEnd
  BY <1>0, <1>6, RunMoves DEF StepBackupBegin, StepBackupEnd, At
<1>7. CASE BackupBegin \/ BackupEnd
  BY <1>0, <1>7 DEF BackupBegin, BackupEnd
<1>8. CASE Pull
  BY <1>0, <1>8, RunMoves DEF Pull, At
<1>9. CASE Build
  BY <1>0, <1>9, RunMoves DEF Build, At
<1>10. CASE ImagePull
  BY <1>0, <1>10, RunMoves DEF ImagePull, At, Content, Contents
<1>11. CASE Install
  <2>1. run = 9 /\ mode = "image"
    BY <1>11, Positions DEF Install
  <2>2. plan.target \in Versions
    BY <2>1 DEF ImagesInv
  <2>3. plan' \in [target : 0..MaxVersion, digest : Contents, replaced : 0..MaxVersion] /\ pinned' \in Versions
    BY <1>11, <2>2 DEF Install
  <2> QED
    BY <1>0, <1>11, <2>3, RunMoves DEF Install, At
<1>12. CASE Migrate
  <2>1. Target \in Versions /\ Reverted \in Versions
    BY <1>12, TargetIsRelease DEF Migrate, Reverted
  <2> QED
    BY <1>0, <1>12, <2>1, RunMoves DEF Migrate, MigrationLeft, At
<1>13. CASE Restart
  <2>1. Target \in Versions
    BY <1>13, TargetIsRelease DEF Restart
  <2> QED
    BY <1>0, <1>13, <2>1, RunMoves, StartedApp DEF Restart, At
<1>14. CASE Handoff
  BY <1>0, <1>14, RunMoves DEF Handoff, At
<1>15. CASE \E v \in Versions : LateMigration(v)
  BY <1>0, <1>15 DEF LateMigration, Larger
<1>16. CASE Crash
  <2>1. At("migrate") \/ At("restart") => Target \in Versions
    BY TargetIsRelease
  <2>2. NoPlan \in [target : 0..MaxVersion, digest : Contents, replaced : 0..MaxVersion]
    BY DEF NoPlan, Contents
  <2>3. late' \subseteq Versions
    BY <1>16, <2>1 DEF Crash
  <2>4. app' \in [version : Versions, content : Contents, up : BOOLEAN] /\ schema' \in Versions
    BY <1>16, <2>1, StartedApp DEF Crash
  <2>5. run' = 0 /\ 0 \in 0..Len(Steps)
    BY <1>16, Positions DEF Crash
  <2> QED
    BY <1>0, <1>16, <2>2, <2>3, <2>4, <2>5 DEF Crash
<1>17. CASE AppRestarts
  BY <1>0, <1>17, StartedApp DEF AppRestarts
<1>18. CASE ManualUp
  BY <1>0, <1>18, StartedApp DEF ManualUp
<1>19. CASE Publish \/ TagMoves
  <2>1. newest' \in Versions /\ moved' \subseteq Versions
    <3>1. CASE Publish
      BY <3>1 DEF Publish
    <3>2. CASE TagMoves
      <4>1. newest' = newest /\ moved' \subseteq moved \cup {newest}
        BY <3>2 DEF TagMoves
      <4> QED
        BY <4>1
    <3> QED
      BY <1>19, <3>1, <3>2
  <2> QED
    BY <1>0, <1>19, <2>1 DEF Publish, TagMoves
<1> QED
  BY <1>1, <1>2, <1>3, <1>4, <1>5, <1>6, <1>7, <1>8, <1>9, <1>10, <1>11, <1>12, <1>13, <1>14, <1>15,
     <1>16, <1>17, <1>18, <1>19 DEF UpdaterNext, RunStep

-----------------------------------------------------------------------------
(* In image mode a run leaves alone the images that may be started again. *)
LEMMA ImagesStep ==
  ASSUME UpdaterTypeOK, ImagesInv, OnlyVerified, SmallTypes', UpdaterNext, mode = "image"
  PROVE  ImagesInv' /\ OnlyVerified'
<1> USE UpdaterAssumption DEF ImagesInv, OnlyVerified, outside, disk
<1>0. /\ mode' = mode /\ run \in 0..12 /\ Len(Steps) = 12
      /\ pinned \in Nat /\ app.version \in Nat /\ plan.target \in Nat /\ plan.replaced \in Nat
      /\ pinned \in Versions /\ app.version \in Versions
  <2>1. mode' = mode
    BY DEF UpdaterNext, RunStep, StartRun, Begin, Preflight, ImagePreflight, Check, Resolve, Verify,
        StepBackupBegin, StepBackupEnd, Pull, Build, ImagePull, Stage, Install, Migrate, Restart, Handoff,
        BackupBegin, BackupEnd, LateMigration, Crash, AppRestarts, ManualUp, Publish, TagMoves
  <2> QED
    BY <2>1, Positions DEF UpdaterTypeOK, Versions
<1>1. CASE StartRun
  BY <1>0, <1>1 DEF StartRun, NoPlan
<1>2. CASE Begin \/ ImagePreflight
  <2>1. run \in 1..2 /\ (Advance \/ Abort)
    BY <1>2, Positions DEF Begin, ImagePreflight, Check
  <2>2. run' \in {0, run + 1}
    BY <2>1, RunMoves
  <2> QED
    BY <1>0, <1>2, <2>1, <2>2 DEF Begin, ImagePreflight, Check
<1>3. CASE Preflight \/ Pull \/ Build
  BY <1>3, Positions DEF Preflight, Pull, Build
<1>4. CASE Resolve
  <2>1. run = 3 /\ run' \in {0, run + 1}
    BY <1>4, RunMoves, Positions DEF Resolve
  <2>2. run' = 4 => plan' = [plan EXCEPT !.target = newest] /\ newest > pinned
    BY <1>4, <2>1 DEF Resolve, Advance, Abort, NewerReleases, Versions, UpdaterTypeOK
  <2>3. run' = 4 => plan'.target = newest /\ plan'.replaced = plan.replaced
    BY <2>2 DEF UpdaterTypeOK
  <2> QED
    BY <1>0, <1>4, <2>1, <2>2, <2>3 DEF Resolve
<1>5. CASE Verify
  <2>1. run = 4 /\ run' \in {0, run + 1}
    BY <1>5, RunMoves, Positions DEF Verify
  <2>2. run' = 5 => plan' = [plan EXCEPT !.digest = "signed"]
    BY <1>5, <2>1 DEF Verify, Advance, Abort
  <2>3. run' = 5 => plan'.target = plan.target /\ plan'.replaced = plan.replaced /\ plan'.digest = "signed"
    BY <2>2 DEF UpdaterTypeOK
  <2> QED
    BY <1>0, <1>5, <2>1, <2>3 DEF Verify
<1>6. CASE StepBackupBegin \/ StepBackupEnd
  <2>1. run \in 5..6 /\ run' \in {0, run + 1}
    BY <1>6, RunMoves, Positions DEF StepBackupBegin, StepBackupEnd
  <2> QED
    BY <1>0, <1>6, <2>1 DEF StepBackupBegin, StepBackupEnd
<1>7. CASE ImagePull
  <2>1. run = 7 /\ run' \in {0, run + 1}
    BY <1>7, RunMoves, Positions DEF ImagePull
  <2>2. \A v \in Versions : v # plan.target => local'[v] = local[v]
    BY <1>7 DEF ImagePull, UpdaterTypeOK
  <2>3. run' = 8 => local'[plan.target] = plan.digest
    BY <1>7, <2>1 DEF ImagePull, Abort
  <2>4. pinned # plan.target /\ app.version # plan.target
    BY <1>0, <2>1
  <2> QED
    BY <1>0, <1>7, <2>1, <2>2, <2>3, <2>4 DEF ImagePull
<1>8. CASE Stage
  <2>1. run = 8 /\ run' \in {0, run + 1}
    BY <1>8, RunMoves, Positions DEF Stage, Check
  <2> QED
    BY <1>0, <1>8, <2>1 DEF Stage, Check
<1>9. CASE Install
  <2>1. run = 9 /\ run' \in {0, run + 1}
    BY <1>9, RunMoves, Positions DEF Install
  <2>2. run' = 10 => pinned' = plan.target /\ plan' = [plan EXCEPT !.replaced = pinned]
    BY <1>9, <2>1 DEF Install, Abort
  <2>3. run' = 10 => plan'.target = plan.target /\ plan'.replaced = pinned
    BY <2>2 DEF UpdaterTypeOK
  <2>4. pinned # 0
    BY DEF UpdaterTypeOK, Versions
  <2>5. pinned' \in {pinned, plan.target}
    BY <1>9 DEF Install
  <2> QED
    BY <1>0, <1>9, <2>1, <2>2, <2>3, <2>4, <2>5 DEF Install
<1>10. CASE Migrate
  <2>1. run = 10 /\ run' \in {0, run + 1}
    BY <1>10, RunMoves, Positions DEF Migrate
  <2>2. run' = 11 => pinned' = pinned
    BY <1>10, <2>1 DEF Migrate, Abort
  <2>3. run' = 0 => pinned' \in {pinned, plan.replaced}
    BY <1>10, <2>1 DEF Migrate, Abort, Reverted
  <2> QED
    BY <1>0, <1>10, <2>1, <2>2, <2>3 DEF Migrate
<1>11. CASE Restart
  <2>1. run = 11 /\ run' \in {0, run + 1} /\ Target = pinned
    BY <1>11, RunMoves, Positions DEF Restart, Target
  <2>2. Started(Target) => app'.version = pinned /\ app'.content = local[pinned]
    BY <1>0, <2>1, StartedApp
  <2>3. app'.version \in {app.version, pinned} /\ app'.content = "signed"
    BY <1>11, <2>2 DEF Restart, UpdaterTypeOK
  <2> QED
    BY <1>0, <1>11, <2>1, <2>3 DEF Restart
<1>12. CASE Handoff
  <2>1. run = 12 /\ run' = 0
    BY <1>12, <1>0, Positions DEF Handoff, Advance
  <2> QED
    BY <1>0, <1>12, <2>1 DEF Handoff
<1>13. CASE BackupBegin \/ BackupEnd \/ (\E v \in Versions : LateMigration(v)) \/ Publish \/ TagMoves
  BY <1>0, <1>13 DEF BackupBegin, BackupEnd, LateMigration, Publish, TagMoves
<1>14. CASE Crash
  <2>1. Started(Target) /\ At("restart") => app'.version = pinned /\ app'.content = local[pinned]
    <3>1. At("restart") => Target = pinned
      BY Positions DEF Target
    <3> QED
      BY <1>0, <3>1, StartedApp
  <2>2. app'.version \in {app.version, pinned} /\ app'.content = "signed"
    BY <1>14, <2>1 DEF Crash
  <2> QED
    BY <1>0, <1>14, <2>2 DEF Crash
<1>15. CASE AppRestarts
  BY <1>0, <1>15, StartedApp DEF AppRestarts
<1>16. CASE ManualUp
  BY <1>0, <1>16, StartedApp DEF ManualUp
<1> QED
  BY <1>1, <1>2, <1>3, <1>4, <1>5, <1>6, <1>7, <1>8, <1>9, <1>10, <1>11, <1>12, <1>13, <1>14, <1>15,
     <1>16 DEF UpdaterNext, RunStep

-----------------------------------------------------------------------------
(* Where the dump of a run stands, before and after a step. *)
LEMMA DumpPlace ==
  ASSUME UpdaterTypeOK, SmallTypes', mode' = mode
  PROVE  /\ DumpStep \in {4, 6} /\ DumpStep' = DumpStep /\ run \in Nat /\ run' \in Nat
         /\ At("dump") <=> run = DumpStep
         /\ At("backup") <=> run = DumpStep - 1
         /\ At("dump")' <=> run' = DumpStep
         /\ pre \in Seq(Dump) /\ schema \in Nat /\ schema' \in Nat /\ faults \in Nat
         /\ Len(pre) \in Nat /\ DOMAIN pre = 1..Len(pre)
         /\ dumps["scheduled"] \in Seq(Dump) /\ app.version \in Nat /\ app'.version \in Nat
         /\ \A i \in DOMAIN pre : pre[i].schema \in Nat
<1>1. DumpStep \in {4, 6} /\ DumpStep' = DumpStep
  BY DEF DumpStep
<1>2. (At("dump") <=> run = DumpStep) /\ (At("backup") <=> run = DumpStep - 1) /\ run \in Nat
  BY Positions DEF DumpStep
<1>3. At("dump")' <=> run' = DumpStep
  <2>1. CASE mode = "git"
    <3>1. Steps' = <<"new", "preflight", "backup", "dump", "pull", "build", "migrate", "restart">>
      BY <2>1 DEF Steps, GitSteps
    <3>2. run' \in 0..8
      BY <3>1 DEF SmallTypes
    <3> QED
      BY <2>1, <3>1, <3>2 DEF At, DumpStep
  <2>2. CASE mode # "git"
    <3>1. Steps' = <<"new", "preflight", "resolve", "verify", "backup", "dump", "pull", "stage",
                     "install", "migrate", "restart", "handoff">>
      BY <2>2 DEF Steps, ImageSteps
    <3>2. run' \in 0..12
      BY <3>1 DEF SmallTypes
    <3> QED
      BY <2>2, <3>1, <3>2 DEF At, DumpStep
  <2> QED
    BY <2>1, <2>2
<1>4. pre \in Seq(Dump) /\ dumps["scheduled"] \in Seq(Dump)
  BY DEF pre, UpdaterTypeOK, Kinds
<1>5. run' \in Nat /\ schema \in Nat /\ schema' \in Nat /\ faults \in Nat /\ app.version \in Nat /\ app'.version \in Nat
  BY UpdaterAssumption, SMTT(30) DEF UpdaterTypeOK, SmallTypes, Versions
<1>6. \A i \in DOMAIN pre : pre[i].schema \in Nat
  <2>1. \A i \in DOMAIN pre : pre[i] \in Dump
    BY <1>4
  <2>2. \A d \in Dump : d.schema \in Nat
    BY UpdaterAssumption DEF Dump, Versions
  <2> QED
    BY <2>1, <2>2
<1> QED
  BY <1>1, <1>2, <1>3, <1>4, <1>5, <1>6

(* A dump an app can run on is one for every later app. *)
LEMMA FallbackUp ==
  ASSUME UpdaterTypeOK, SmallTypes', mode' = mode, NEW v \in Nat, NEW w \in Nat, v <= w, Fallback(v)
  PROVE  Fallback(w)
BY DumpPlace, SMTT(30) DEF Fallback

(* A step that leaves the dumps alone. *)
LEMMA QuietStep ==
  ASSUME UpdaterTypeOK, SmallTypes', DumpsInv, mode' = mode, dumps' = dumps, schema <= schema',
         faults' \in Nat, faults <= faults',
         \/ run' = run /\ dumping' = dumping
         \/ run = 0 /\ run' = 1 /\ ~dumping /\ ~dumping'
         \/ /\ run # 0 /\ run # DumpStep /\ run # DumpStep - 1 /\ run' \in {0, run + 1}
            /\ dumping' = dumping
         \/ run' = 0 /\ ~dumping' /\ faults' = faults + 1
  PROVE  DumpsInv' /\ \A v \in Nat : Fallback(v) => Fallback(v)'
<1> USE DumpPlace
<1>1. pre' = pre /\ dumps'["scheduled"] = dumps["scheduled"]
  BY DEF pre
<1>2. At("dump")' => At("dump")
  OBVIOUS
<1>3. /\ Settled \in Int /\ Settled' \in Int /\ Settled <= Settled'
      /\ Settled' = Settled \/ (Settled' = Settled + 1 /\ faults' = faults + 1)
  BY <1>1, <1>2 DEF Settled
<1>4. Settled' <= Retention + faults'
  <2> DEFINE a == Settled  b == Settled'  f == faults  g == faults'
  <2>1. /\ a \in Int /\ b \in Int /\ f \in Nat /\ g \in Nat /\ a <= Retention + f /\ f <= g
        /\ b = a \/ (b = a + 1 /\ g = f + 1)
    BY <1>3 DEF DumpsInv
  <2> HIDE DEF a, b, f, g
  <2>2. b <= Retention + g
    BY <2>1, UpdaterAssumption
  <2> QED
    BY <2>2 DEF b, g
<1>5. PastDump' => PastDump
  BY DEF PastDump
<1>6. Len(dumps'["scheduled"]) <= Retention + faults' + (IF dumping' THEN 1 ELSE 0)
  BY <1>1, UpdaterAssumption, SMTT(30) DEF DumpsInv
<1>7. \A i \in DOMAIN pre' : pre'[i].schema <= schema'
  BY <1>1 DEF DumpsInv
<1>8. (run' # 0 => ~dumping') /\ (dumping' => dumps'["scheduled"] # <<>>)
  BY <1>1 DEF DumpsInv
<1>9. (At("dump")' => pre' # <<>> /\ ~pre'[Len(pre')].whole) /\ (PastDump' => pre' # <<>> /\ pre'[Len(pre')].whole)
  BY <1>1, <1>2, <1>5 DEF DumpsInv
<1>10. DumpsInv'
  BY <1>4, <1>6, <1>7, <1>8, <1>9 DEF DumpsInv
<1>11. \A v \in Nat : Fallback(v) => Fallback(v)'
  BY <1>1, <1>3, UpdaterAssumption DEF Fallback
<1> QED
  BY <1>10, <1>11

(* Beginning, ending and losing the dump of a run. *)
LEMMA BackupStep ==
  ASSUME UpdaterTypeOK, SmallTypes', DumpsInv, mode' = mode, schema' = schema,
         StepBackupBegin \/ StepBackupEnd
  PROVE  /\ DumpsInv' /\ (\A v \in Nat : Fallback(v) => Fallback(v)')
         /\ dumps' \in [Kinds -> Seq(Dump)] /\ faults' \in 0..MaxFaults
<1> USE DumpPlace, UpdaterAssumption
<1>0. /\ "pre-update" \in Kinds /\ "scheduled" \in Kinds /\ dumps \in [Kinds -> Seq(Dump)]
      /\ dumping' = dumping /\ run # 0 /\ ~dumping
      /\ Len(dumps["scheduled"]) <= Retention + faults
  BY DEF Kinds, UpdaterTypeOK, StepBackupBegin, StepBackupEnd, At, DumpsInv
<1>1. CASE StepBackupBegin
  <2> DEFINE d == [schema |-> schema, whole |-> FALSE]
  <2>1. d \in Dump /\ d.schema = schema /\ ~d.whole
    BY DEF Dump, UpdaterTypeOK
  <2>2. dumps' = [dumps EXCEPT !["pre-update"] = Append(@, d)] /\ faults' = faults
    BY <1>1 DEF StepBackupBegin, NewDump
  <2>3. /\ pre' = Append(pre, d) /\ dumps'["scheduled"] = dumps["scheduled"]
        /\ dumps' \in [Kinds -> Seq(Dump)]
    BY <1>0, <2>1, <2>2, DumpAdded DEF pre, Kinds
  <2>4. run = DumpStep - 1 /\ run' = DumpStep
    <3>1. run = DumpStep - 1 /\ Advance
      BY <1>1 DEF StepBackupBegin
    <3>2. run # Len(Steps)
      <4> DEFINE n == Len(Steps)
      <4>1. n = 8 \/ n = 12
        BY Positions
      <4>2. run = 3 \/ run = 5
        BY <3>1
      <4> HIDE DEF n
      <4>3. run # n
        BY <4>1, <4>2
      <4> QED
        BY <4>3 DEF n
    <3> QED
      BY <3>1, <3>2 DEF Advance
  <2>5. Settled' = Settled
    <3>1. Len(pre') = Len(pre) + 1 /\ At("dump")' /\ ~At("dump")
      BY <2>1, <2>3, <2>4, DumpAdded
    <3> QED
      BY <3>1 DEF Settled
  <2> HIDE DEF d
  <2>6. /\ pre' # <<>> /\ pre'[Len(pre')] = d
        /\ \A i \in DOMAIN pre' : pre'[i] = d \/ (i \in DOMAIN pre /\ pre'[i] = pre[i])
        /\ \A i \in DOMAIN pre : i \in DOMAIN pre' /\ pre'[i] = pre[i]
    BY <2>1, <2>3, DumpAdded
  <2>7. \A i \in DOMAIN pre' : pre'[i].schema <= schema'
    BY <2>1, <2>6, SMTT(30) DEF DumpsInv
  <2>8. ~PastDump' /\ Settled <= Retention + faults
    BY <2>4 DEF PastDump, DumpsInv
  <2>9. DumpsInv'
    BY <1>0, <2>1, <2>2, <2>3, <2>5, <2>6, <2>7, <2>8 DEF DumpsInv
  <2>10. \A v \in Nat : Fallback(v) => Fallback(v)'
    BY <2>5, <2>6 DEF Fallback
  <2> QED
    BY <2>2, <2>3, <2>9, <2>10 DEF UpdaterTypeOK
<1>2. CASE StepBackupEnd /\ dumps' = Pruned("pre-update") /\ Advance /\ UNCHANGED faults
  <2>1. run = DumpStep /\ pre # <<>> /\ faults' = faults /\ run' # DumpStep
    <3>1. run = DumpStep /\ pre # <<>> /\ faults' = faults
      BY <1>2 DEF StepBackupEnd, DumpsInv
    <3> QED
      BY <1>2, <3>1, RunMoves
  <2> DEFINE f == Finished(pre)
  <2>2. /\ f \in Seq(Dump) /\ f # <<>> /\ Len(f) = Len(pre) /\ DOMAIN f = DOMAIN pre
        /\ f[Len(f)].whole /\ f \in Seq(Dump)
        /\ \A i \in DOMAIN pre : f[i].schema = pre[i].schema /\ (pre[i].whole => f[i].whole)
    <3>1. Len(pre) # 0
      BY <2>1
    <3>2. f \in Seq(Dump) /\ Len(f) = Len(pre)
      BY <2>1, DumpFiles
    <3>3. f # <<>>
      BY <3>1, <3>2
    <3> QED
      BY <2>1, <3>2, <3>3, DumpFiles
  <2> HIDE DEF f
  <2>3. pre' = Kept(f) /\ dumps'["scheduled"] = dumps["scheduled"] /\ dumps' \in [Kinds -> Seq(Dump)]
    <3>1. Kept(f) \in Seq(Dump)
      BY <2>2, KeptFiles
    <3>2. dumps' = [dumps EXCEPT !["pre-update"] = Kept(f)]
      BY <1>2 DEF Pruned, f, pre
    <3> QED
      BY <1>0, <3>1, <3>2 DEF pre, Kinds
  <2>4. /\ pre' \in Seq(Dump) /\ pre' # <<>> /\ Len(pre') <= Retention /\ Len(pre') \in Nat
        /\ Len(pre) <= Retention => pre' = f
        /\ Len(pre) > Retention => Len(pre') = Retention
        /\ pre'[Len(pre')].whole
        /\ \A i \in DOMAIN pre' : \E j \in DOMAIN f : pre'[i] = f[j]
    <3> DEFINE q == Kept(f)
    <3>1. /\ q \in Seq(Dump) /\ q # <<>> /\ Len(q) <= Retention
          /\ (Len(f) <= Retention => q = f) /\ (Len(f) > Retention => Len(q) = Retention)
          /\ q[Len(q)] = f[Len(f)] /\ \A i \in DOMAIN q : \E j \in DOMAIN f : q[i] = f[j]
      BY <2>2, KeptFiles
    <3>2. pre' = q /\ Len(q) \in Nat
      BY <2>3, <3>1
    <3> HIDE DEF q
    <3> QED
      BY <2>2, <3>1, <3>2
  <2>5. \A i \in DOMAIN pre' : pre'[i].schema <= schema'
    <3>1. \A j \in DOMAIN f : f[j].schema <= schema
      BY <2>2 DEF DumpsInv
    <3> QED
      BY <2>4, <3>1
  <2>6. Settled' = Len(pre') /\ Settled = Len(pre) - 1
    BY <2>1 DEF Settled
  <2>7. Settled' <= Retention + faults' /\ Len(dumps'["scheduled"]) <= Retention + faults'
    BY <1>0, <2>1, <2>3, <2>4, <2>6
  <2>8. DumpsInv'
    BY <1>0, <2>1, <2>3, <2>4, <2>5, <2>7 DEF DumpsInv
  <2>9. \A v \in Nat : Fallback(v) => Fallback(v)'
    <3>1. CASE Len(pre) > Retention
      BY <2>4, <2>6, <3>1 DEF Fallback
    <3>2. CASE Len(pre) <= Retention
      <4>1. pre' = f /\ ~(Settled >= Retention)
        BY <2>4, <2>6, <3>2
      <4> QED
        BY <2>2, <4>1 DEF Fallback
    <3> QED
      BY <3>1, <3>2
  <2> QED
    BY <2>1, <2>3, <2>8, <2>9 DEF UpdaterTypeOK
<1>3. CASE StepBackupEnd /\ dumps' = Dropped("pre-update") /\ Abort /\ Fault
  <2>1. run = DumpStep /\ pre # <<>> /\ ~pre[Len(pre)].whole /\ faults' = faults + 1 /\ run' = 0
        /\ faults' \in 0..MaxFaults
    BY <1>3 DEF StepBackupEnd, DumpsInv, Fault, Abort, UpdaterTypeOK
  <2>2. /\ pre' = SubSeq(pre, 1, Len(pre) - 1) /\ dumps'["scheduled"] = dumps["scheduled"]
        /\ dumps' \in [Kinds -> Seq(Dump)]
    <3>1. SubSeq(pre, 1, Len(pre) - 1) \in Seq(Dump)
      BY <2>1, DumpFiles
    <3> QED
      BY <1>0, <1>3, <3>1 DEF Dropped, pre, Kinds
  <2>3. /\ Len(pre') = Len(pre) - 1 /\ DOMAIN pre' = DOMAIN pre \ {Len(pre)}
        /\ \A i \in DOMAIN pre' : pre'[i] = pre[i]
    BY <2>1, <2>2, DumpFiles
  <2>4. Settled' = Settled /\ Settled \in Int
    <3>1. At("dump") /\ ~At("dump")'
      BY <2>1
    <3> QED
      BY <2>3, <3>1 DEF Settled
  <2>5. ~PastDump' /\ Settled <= Retention + faults /\ ~At("dump")'
    BY <2>1 DEF PastDump, DumpsInv
  <2>6. \A i \in DOMAIN pre' : pre'[i].schema <= schema'
    BY <2>3 DEF DumpsInv
  <2>7. Settled' <= Retention + faults' /\ Len(dumps'["scheduled"]) <= Retention + faults'
    BY <1>0, <2>1, <2>2, <2>4, <2>5, SMTT(30)
  <2>8. DumpsInv'
    BY <1>0, <2>1, <2>2, <2>5, <2>6, <2>7 DEF DumpsInv
  <2>9. \A v \in Nat : Fallback(v) => Fallback(v)'
    BY <2>1, <2>3, <2>4 DEF Fallback
  <2> QED
    BY <2>1, <2>2, <2>8, <2>9
<1> QED
  BY <1>1, <1>2, <1>3 DEF StepBackupEnd

(* Beginning and ending a scheduled dump. *)
LEMMA ScheduledStep ==
  ASSUME UpdaterTypeOK, SmallTypes', DumpsInv, mode' = mode, schema' = schema, run' = run,
         BackupBegin \/ BackupEnd
  PROVE  /\ DumpsInv' /\ (\A v \in Nat : Fallback(v) => Fallback(v)')
         /\ dumps' \in [Kinds -> Seq(Dump)] /\ faults' \in 0..MaxFaults
<1> USE DumpPlace, UpdaterAssumption
<1> DEFINE sched == dumps["scheduled"]
<1>0. /\ "pre-update" \in Kinds /\ "scheduled" \in Kinds /\ dumps \in [Kinds -> Seq(Dump)]
      /\ sched \in Seq(Dump) /\ Len(sched) \in Nat /\ faults \in 0..MaxFaults
  BY DEF Kinds, UpdaterTypeOK
<1>1. ASSUME NEW s \in Seq(Dump), dumps' = [dumps EXCEPT !["scheduled"] = s], faults' \in 0..MaxFaults,
             faults <= faults', dumping' => s # <<>> /\ run = 0,
             Len(s) <= Retention + faults' + (IF dumping' THEN 1 ELSE 0)
      PROVE  /\ DumpsInv' /\ (\A v \in Nat : Fallback(v) => Fallback(v)')
             /\ dumps' \in [Kinds -> Seq(Dump)]
  <2>1. pre' = pre /\ sched' = s /\ dumps' \in [Kinds -> Seq(Dump)]
    BY <1>0, <1>1 DEF pre, Kinds
  <2>2. Settled' = Settled /\ Settled \in Int /\ (PastDump' <=> PastDump) /\ (At("dump")' <=> At("dump"))
    BY <2>1 DEF Settled, PastDump
  <2>3. Settled' <= Retention + faults'
    <3> DEFINE a == Settled  f == faults  g == faults'
    <3>1. a \in Int /\ f \in Nat /\ g \in Nat /\ a <= Retention + f /\ f <= g
      BY <1>1, <2>2 DEF DumpsInv
    <3> HIDE DEF a, f, g
    <3>2. a <= Retention + g
      BY <3>1
    <3> QED
      BY <2>2, <3>2 DEF a, g
  <2>4. DumpsInv'
    BY <1>1, <2>1, <2>2, <2>3 DEF DumpsInv
  <2> QED
    BY <2>1, <2>2, <2>4 DEF Fallback
<1>2. CASE BackupBegin
  <2> DEFINE d == [schema |-> schema, whole |-> FALSE]
  <2>1. d \in Dump
    BY DEF Dump, UpdaterTypeOK
  <2>2. /\ dumps' = [dumps EXCEPT !["scheduled"] = Append(sched, d)] /\ faults' = faults /\ dumping'
        /\ run = 0 /\ ~dumping
    BY <1>2 DEF BackupBegin, NewDump
  <2> HIDE DEF d
  <2>3. Append(sched, d) \in Seq(Dump) /\ Append(sched, d) # <<>> /\ Len(Append(sched, d)) = Len(sched) + 1
    <3> HIDE DEF sched
    <3> QED
      BY <1>0, <2>1, DumpAdded
  <2>4. Len(sched) <= Retention + faults
    BY <2>2 DEF DumpsInv
  <2> HIDE DEF sched
  <2>5. faults' \in 0..MaxFaults /\ faults <= faults'
    BY <1>0, <2>2
  <2>6. Len(Append(sched, d)) <= Retention + faults' + (IF dumping' THEN 1 ELSE 0)
    BY <1>0, <2>2, <2>3, <2>4
  <2> QED
    BY <1>1, <2>2, <2>3, <2>5, <2>6
<1>3. CASE BackupEnd
  <2>1. sched # <<>> /\ ~dumping' /\ Len(sched) <= Retention + faults + 1
    BY <1>3 DEF BackupEnd, DumpsInv
  <2>2. CASE dumps' = Pruned("scheduled") /\ UNCHANGED faults
    <3>1. Finished(sched) \in Seq(Dump) /\ Len(Finished(sched)) = Len(sched) /\ Len(sched) # 0
      BY <1>0, <2>1, DumpFiles
    <3>2. Finished(sched) # <<>>
      BY <3>1
    <3>3. Kept(Finished(sched)) \in Seq(Dump) /\ Len(Kept(Finished(sched))) <= Retention
      BY <3>1, <3>2, KeptFiles
    <3>4. dumps' = [dumps EXCEPT !["scheduled"] = Kept(Finished(sched))]
      BY <2>2 DEF Pruned
    <3> HIDE DEF sched
    <3>5. Len(Kept(Finished(sched))) <= Retention + faults'
      BY <1>0, <2>2, <3>3
    <3> QED
      BY <1>0, <1>1, <2>1, <2>2, <3>3, <3>4, <3>5
  <2>3. CASE dumps' = Dropped("scheduled") /\ Fault
    <3> DEFINE q == SubSeq(sched, 1, Len(sched) - 1)
    <3>1. q \in Seq(Dump) /\ Len(q) = Len(sched) - 1
      BY <1>0, <2>1, DumpFiles
    <3>2. dumps' = [dumps EXCEPT !["scheduled"] = q] /\ faults' = faults + 1 /\ faults' \in 0..MaxFaults
      BY <1>0, <2>3 DEF Dropped, Fault
    <3> HIDE DEF sched, q
    <3>3. Len(q) <= Retention + faults' + (IF dumping' THEN 1 ELSE 0) /\ faults <= faults'
      BY <1>0, <2>1, <3>1, <3>2
    <3> QED
      BY <1>1, <2>1, <3>1, <3>2, <3>3
  <2> QED
    BY <1>3, <2>2, <2>3 DEF BackupEnd
<1> QED
  BY <1>2, <1>3

-----------------------------------------------------------------------------
(* The schema never goes back. *)
LEMMA SchemaGrows ==
  ASSUME UpdaterTypeOK, ImagesInv, UpdaterNext
  PROVE  schema <= schema' /\ mode' = mode /\ faults' \in 0..MaxFaults /\ faults <= faults'
<1> USE UpdaterAssumption DEF outside, disk
<1>0. schema \in Nat /\ faults \in 0..MaxFaults /\ \A v \in Versions : v \in Nat
  BY DEF UpdaterTypeOK, Versions
<1>1. mode' = mode
  BY DEF UpdaterNext, RunStep, StartRun, Begin, Preflight, ImagePreflight, Check, Resolve, Verify,
      StepBackupBegin, StepBackupEnd, Pull, Build, ImagePull, Stage, Install, Migrate, Restart, Handoff,
      BackupBegin, BackupEnd, LateMigration, Crash, AppRestarts, ManualUp, Publish, TagMoves
<1>2. faults' = faults \/ Fault
  BY DEF UpdaterNext, RunStep, StartRun, Begin, Preflight, ImagePreflight, Check, Resolve, Verify,
      StepBackupBegin, StepBackupEnd, Pull, Build, ImagePull, Stage, Install, Migrate, Restart, Handoff,
      BackupBegin, BackupEnd, LateMigration, Crash, AppRestarts, ManualUp, Publish, TagMoves
<1>3. faults' \in 0..MaxFaults /\ faults <= faults'
  BY <1>0, <1>2 DEF Fault
<1>4. \A v \in Versions : Started(v) => schema <= schema'
  BY StartedApp
<1>5. ASSUME Migrate \/ Restart \/ Crash
      PROVE  schema <= schema'
  <2>1. At("migrate") \/ At("restart") => Target \in Versions /\ Target \in Nat
    BY <1>0, TargetIsRelease
  <2>2. CASE Migrate
    BY <1>0, <2>1, <2>2 DEF Migrate, MigrationLeft, Migrates
  <2>3. CASE Restart
    BY <1>0, <1>4, <2>1, <2>3 DEF Restart
  <2>4. CASE Crash
    BY <1>0, <1>4, <2>1, <2>4 DEF Crash
  <2> QED
    BY <1>5, <2>2, <2>3, <2>4
<1>6. ASSUME AppRestarts \/ ManualUp
      PROVE  schema <= schema'
  <2>1. app.version \in Versions /\ (IF mode = "git" THEN built ELSE pinned) \in Versions
    BY DEF UpdaterTypeOK
  <2> QED
    BY <1>4, <1>6, <2>1 DEF AppRestarts, ManualUp
<1>7. ASSUME \E v \in Versions : LateMigration(v)
      PROVE  schema <= schema'
  BY <1>0, <1>7 DEF LateMigration, Larger
<1>8. ASSUME ~(Migrate \/ Restart \/ Crash \/ AppRestarts \/ ManualUp \/ \E v \in Versions : LateMigration(v))
      PROVE  schema <= schema'
  <2>1. schema' = schema
    BY <1>8 DEF UpdaterNext, RunStep, StartRun, Begin, Preflight, ImagePreflight, Check, Resolve, Verify,
        StepBackupBegin, StepBackupEnd, Pull, Build, ImagePull, Stage, Install, Handoff,
        BackupBegin, BackupEnd, Publish, TagMoves
  <2> QED
    BY <1>0, <2>1
<1> QED
  BY <1>1, <1>3, <1>5, <1>6, <1>7, <1>8

(* Every step keeps what is said of the dumps, and every dump an app may need. *)
LEMMA DumpsStep ==
  ASSUME UpdaterTypeOK, DumpsInv, ImagesInv, UpdaterNext
  PROVE  UpdaterTypeOK' /\ DumpsInv' /\ (\A v \in Nat : Fallback(v) => Fallback(v)')
<1> USE UpdaterAssumption DEF outside, disk
<1>0. /\ SmallTypes' /\ schema <= schema' /\ mode' = mode
      /\ faults' \in 0..MaxFaults /\ faults' \in Nat /\ faults <= faults'
  BY SmallTypesStep, SchemaGrows
<1>1. ASSUME StepBackupBegin \/ StepBackupEnd
      PROVE  /\ DumpsInv' /\ (\A v \in Nat : Fallback(v) => Fallback(v)')
             /\ dumps' \in [Kinds -> Seq(Dump)]
  BY <1>0, <1>1, BackupStep DEF StepBackupBegin, StepBackupEnd
<1>2. ASSUME BackupBegin \/ BackupEnd
      PROVE  /\ DumpsInv' /\ (\A v \in Nat : Fallback(v) => Fallback(v)')
             /\ dumps' \in [Kinds -> Seq(Dump)]
  BY <1>0, <1>2, ScheduledStep DEF BackupBegin, BackupEnd
<1>3. ASSUME ~(StepBackupBegin \/ StepBackupEnd \/ BackupBegin \/ BackupEnd)
      PROVE  /\ DumpsInv' /\ (\A v \in Nat : Fallback(v) => Fallback(v)')
             /\ dumps' \in [Kinds -> Seq(Dump)]
  <2>1. dumps' = dumps
    BY <1>3 DEF UpdaterNext, RunStep, StartRun, Begin, Preflight, ImagePreflight, Check, Resolve, Verify,
        Pull, Build, ImagePull, Stage, Install, Migrate, Restart, Handoff,
        LateMigration, Crash, AppRestarts, ManualUp, Publish, TagMoves
  <2>2. \/ run' = run /\ dumping' = dumping
        \/ run = 0 /\ run' = 1 /\ ~dumping /\ ~dumping'
        \/ /\ run # 0 /\ run # DumpStep /\ run # DumpStep - 1 /\ run' \in {0, run + 1}
           /\ dumping' = dumping
        \/ run' = 0 /\ ~dumping' /\ faults' = faults + 1
    <3>1. CASE StartRun
      BY <3>1 DEF StartRun
    <3>2. CASE Crash
      BY <3>2 DEF Crash, Fault
    <3>3. CASE (\E v \in Versions : LateMigration(v)) \/ AppRestarts \/ ManualUp \/ Publish \/ TagMoves
      BY <3>3 DEF LateMigration, AppRestarts, ManualUp, Publish, TagMoves
    <3>4. CASE RunStep
      <4>1. /\ dumping' = dumping /\ (Advance \/ Abort)
            /\ \/ At("new") \/ At("preflight") \/ At("resolve") \/ At("verify") \/ At("pull") \/ At("build")
               \/ At("stage") \/ At("install") \/ At("migrate") \/ At("restart") \/ At("handoff")
        BY <1>3, <3>4 DEF RunStep, Begin, Preflight, ImagePreflight, Check, Resolve, Verify,
            Pull, Build, ImagePull, Stage, Install, Migrate, Restart, Handoff
      <4>2. run # 0 /\ run # DumpStep /\ run # DumpStep - 1
        <5>1. ~At("backup") /\ ~At("dump") /\ run # 0
          BY <4>1 DEF At
        <5> QED
          BY <1>0, <5>1, DumpPlace
      <4> QED
        BY <4>1, <4>2, RunMoves
    <3> QED
      BY <1>3, <3>1, <3>2, <3>3, <3>4 DEF UpdaterNext
  <2>3. DumpsInv' /\ (\A v \in Nat : Fallback(v) => Fallback(v)')
    BY <1>0, <2>1, <2>2, QuietStep
  <2> QED
    BY <2>1, <2>3 DEF UpdaterTypeOK
<1>4. /\ DumpsInv' /\ (\A v \in Nat : Fallback(v) => Fallback(v)')
      /\ dumps' \in [Kinds -> Seq(Dump)]
  BY <1>1, <1>2, <1>3
<1>5. \A k \in Kinds : Len(dumps'[k]) <= Retention + MaxFaults + 1
  <2> DEFINE p == Len(dumps'["pre-update"])  q == Len(dumps'["scheduled"])  f == faults'
  <2>1. p \in Nat /\ q \in Nat /\ f \in 0..MaxFaults
    BY <1>0, <1>4 DEF Kinds
  <2>2. p <= Retention + f \/ p - 1 <= Retention + f
    BY <1>4 DEF DumpsInv, Settled, pre
  <2>3. q <= Retention + f + (IF dumping' THEN 1 ELSE 0)
    BY <1>4 DEF DumpsInv
  <2> HIDE DEF p, q, f
  <2>4. p <= Retention + MaxFaults + 1 /\ q <= Retention + MaxFaults + 1
    BY <2>1, <2>2, <2>3
  <2> QED
    BY <2>4 DEF p, q, Kinds
<1> QED
  BY <1>0, <1>4, <1>5 DEF UpdaterTypeOK, SmallTypes

-----------------------------------------------------------------------------
(* The schema moves past an app only behind a dump of before: a run has       *)
(* dumped before it migrates, and so had the run of a migration that nobody   *)
(* waits for.  An app that starts is at the schema, or refuses.               *)
LEMMA RecoveryStep ==
  ASSUME UpdaterTypeOK, DumpsInv, RecoveryInv, ImagesInv, UpdaterNext
  PROVE  RecoveryInv'
<1> USE UpdaterAssumption DEF outside, disk
<1>0. /\ UpdaterTypeOK' /\ SmallTypes' /\ mode' = mode /\ schema <= schema'
      /\ schema \in Nat /\ schema' \in Nat /\ app.version \in Nat /\ app'.version \in Nat
      /\ (\A v \in Nat : Fallback(v) => Fallback(v)')
  BY DumpsStep, SmallTypesStep, SchemaGrows, DumpPlace
<1>1. \A i \in DOMAIN pre' : pre'[i].schema \in Nat
  <2>1. pre' \in Seq(Dump)
    BY <1>0 DEF pre, UpdaterTypeOK, Kinds
  <2>2. \A d \in Dump : d.schema \in Nat
    BY DEF Dump, Versions
  <2> QED
    BY <2>1, <2>2
<1>2. Fallback(schema) => Fallback(schema)'
  <2>1. PICK v \in Nat : v = schema
    BY <1>0
  <2>2. Fallback(schema) => Fallback(v)
    BY <2>1 DEF Fallback
  <2>3. Fallback(v)' => Fallback(schema)'
    BY <1>0, <1>1, <2>1 DEF Fallback
  <2> QED
    BY <1>0, <2>2, <2>3
<1>3. app'.version = app.version /\ Fallback(app.version) => Fallback(app.version)'
  <2>1. PICK v \in Nat : v = app.version
    BY <1>0
  <2>2. Fallback(app.version) => Fallback(v)
    BY <2>1 DEF Fallback
  <2>3. app'.version = app.version /\ Fallback(v)' => Fallback(app.version)'
    BY <2>1 DEF Fallback
  <2> QED
    BY <1>0, <2>2, <2>3
<1>4. schema <= app.version /\ Fallback(schema) => Fallback(app.version)
  BY <1>0, FallbackUp
<1>5. ASSUME app' = app \/ (app'.version = app.version /\ ~app'.up),
             schema' # schema => Fallback(schema), late' # {} => late # {} \/ Fallback(schema)
      PROVE  RecoveryInv'
  <2>1. NeverAhead'
    BY <1>0, <1>5 DEF RecoveryInv, NeverAhead
  <2>2. late' # {} => Fallback(schema)'
    BY <1>2, <1>5 DEF RecoveryInv
  <2>3. app'.up /\ app'.version < schema' => Fallback(app.version)'
    <3> SUFFICES ASSUME app'.up, app'.version < schema'
                 PROVE  Fallback(app.version) /\ app'.version = app.version
      BY <1>3
    <3>1. app' = app /\ app.up
      BY <1>5
    <3>2. CASE app.version < schema
      BY <3>1, <3>2 DEF RecoveryInv
    <3>3. CASE ~(app.version < schema)
      <4>1. schema' # schema /\ schema <= app.version
        BY <1>0, <3>1, <3>3
      <4> QED
        BY <1>4, <1>5, <3>1, <4>1
    <3> QED
      BY <3>1, <3>2, <3>3
  <2> QED
    BY <2>1, <2>2, <2>3 DEF RecoveryInv
<1>6. ASSUME NEW v \in Versions, Started(v), late' = late
      PROVE  RecoveryInv'
  <2>1. app'.version = v /\ v <= schema' /\ (app'.up => schema' = v) /\ v \in Nat
    BY <1>6, StartedApp DEF Versions
  <2>2. NeverAhead' /\ ~(app'.up /\ app'.version < schema')
    BY <1>0, <2>1 DEF NeverAhead
  <2>3. late' # {} => Fallback(schema)'
    BY <1>2, <1>6 DEF RecoveryInv
  <2> QED
    BY <2>2, <2>3 DEF RecoveryInv
<1>7. At("migrate") => Fallback(schema)
  <2>1. At("migrate") => PastDump
    BY Positions DEF PastDump, DumpStep
  <2>2. PastDump => pre # <<>> /\ pre[Len(pre)].whole /\ pre \in Seq(Dump)
    BY <1>0, DumpPlace DEF DumpsInv
  <2>3. PastDump => Len(pre) \in DOMAIN pre /\ pre[Len(pre)].schema <= schema
    BY <2>2, DumpFiles DEF DumpsInv
  <2> QED
    BY <2>1, <2>2, <2>3 DEF Fallback
<1>8. At("migrate") \/ At("restart") => Target \in Versions
  BY TargetIsRelease
<1>9. CASE Migrate
  BY <1>5, <1>7, <1>9 DEF Migrate, MigrationLeft
<1>10. CASE Restart
  <2>1. CASE Started(Target) /\ late' = late
    BY <1>6, <1>8, <1>10, <2>1 DEF Restart
  <2>2. CASE UNCHANGED <<app, schema, late>>
    BY <1>5, <2>2
  <2>3. CASE app' = [app EXCEPT !.up = FALSE] /\ UNCHANGED <<schema, late>>
    <3>1. app'.version = app.version /\ ~app'.up
      BY <2>3 DEF UpdaterTypeOK
    <3> QED
      BY <1>5, <2>3, <3>1
  <2> QED
    BY <1>10, <2>1, <2>2, <2>3 DEF Restart
<1>11. CASE Crash
  <2>1. CASE UNCHANGED <<app, schema, late>>
    BY <1>5, <2>1
  <2>2. CASE At("migrate") /\ UNCHANGED <<app, schema>>
    BY <1>5, <1>7, <2>2
  <2>3. CASE At("restart") /\ Started(Target) /\ UNCHANGED late
    BY <1>6, <1>8, <2>3
  <2> QED
    BY <1>11, <2>1, <2>2, <2>3 DEF Crash
<1>12. CASE AppRestarts \/ ManualUp
  <2>1. app.version \in Versions /\ (IF mode = "git" THEN built ELSE pinned) \in Versions
    BY DEF UpdaterTypeOK
  <2> QED
    BY <1>6, <1>12, <2>1 DEF AppRestarts, ManualUp
<1>13. CASE \E v \in Versions : LateMigration(v)
  <2>1. app' = app /\ late # {} /\ late' \subseteq late
    BY <1>13 DEF LateMigration
  <2> QED
    BY <1>5, <2>1 DEF RecoveryInv
<1>14. CASE ~(Migrate \/ Restart \/ Crash \/ AppRestarts \/ ManualUp \/ \E v \in Versions : LateMigration(v))
  <2>1. UNCHANGED <<app, schema, late>>
    BY <1>14 DEF UpdaterNext, RunStep, StartRun, Begin, Preflight, ImagePreflight, Check, Resolve, Verify,
        StepBackupBegin, StepBackupEnd, Pull, Build, ImagePull, Stage, Install, Handoff,
        BackupBegin, BackupEnd, Publish, TagMoves
  <2> QED
    BY <1>5, <2>1
<1> QED
  BY <1>9, <1>10, <1>11, <1>12, <1>13, <1>14

(* A checkout is built where it runs: its app has no image to verify. *)
LEMMA CheckoutStep ==
  ASSUME UpdaterTypeOK, ImagesInv, OnlyVerified, UpdaterNext, mode = "git"
  PROVE  ImagesInv' /\ OnlyVerified'
<1>1. mode' = "git"
  BY SchemaGrows
<1>2. \A v \in Versions : Started(v) => app'.content = "signed"
  BY StartedApp
<1>3. (At("restart") => Target \in Versions) /\ app.version \in Versions /\ built \in Versions
  BY TargetIsRelease DEF UpdaterTypeOK
<1>4. app' = app \/ app'.content = app.content \/ (\E v \in Versions : Started(v))
  BY <1>3 DEF UpdaterNext, RunStep, StartRun, Begin, Preflight, ImagePreflight, Check, Resolve, Verify,
      StepBackupBegin, StepBackupEnd, Pull, Build, ImagePull, Stage, Install, Migrate, Restart, Handoff,
      BackupBegin, BackupEnd, LateMigration, Crash, AppRestarts, ManualUp, Publish, TagMoves, outside, disk,
      UpdaterTypeOK
<1> QED
  BY <1>1, <1>2, <1>4 DEF ImagesInv, OnlyVerified

-----------------------------------------------------------------------------
(* Every step keeps the inductive invariant. *)
LEMMA UpdaterInductive ==
  /\ UpdaterInit => UpdaterInv
  /\ UpdaterInv /\ [UpdaterNext]_updaterVars => UpdaterInv'
<1>1. UpdaterInit => UpdaterInv
  <2> SUFFICES ASSUME UpdaterInit PROVE UpdaterInv
    OBVIOUS
  <2> USE UpdaterAssumption DEF UpdaterInit
  <2>1. pre = <<>> /\ dumps["scheduled"] = <<>> /\ dumps \in [Kinds -> Seq(Dump)] /\ run = 0
    BY DEF pre, Kinds
  <2>2. UpdaterTypeOK
    <3>1. 0 \in 0..Len(Steps) /\ 1 \in Versions
      BY DEF Steps, GitSteps, ImageSteps, Versions
    <3>2. \A k \in Kinds : Len(dumps[k]) <= Retention + MaxFaults + 1
      BY DEF Kinds
    <3>3. plan \in [target : 0..MaxVersion, digest : Contents, replaced : 0..MaxVersion]
      BY DEF NoPlan, Contents
    <3>4. local \in [Versions -> Contents]
      BY DEF Contents
    <3>5. app \in [version : Versions, content : Contents, up : BOOLEAN]
      BY <3>1 DEF Contents
    <3>6. mode \in Modes /\ newest = 1 /\ moved = {} /\ pinned = 1 /\ built = 1 /\ schema = 1 /\ late = {}
          /\ dumping = FALSE /\ file = "idle" /\ faults = 0 /\ faults \in 0..MaxFaults
      OBVIOUS
    <3> QED
      BY <2>1, <3>1, <3>2, <3>3, <3>4, <3>5, <3>6 DEF UpdaterTypeOK
  <2>3. ~At("dump") /\ ~PastDump /\ Settled = 0
    BY <2>1 DEF At, PastDump, DumpStep, Settled
  <2>4. DumpsInv
    BY <2>1, <2>3 DEF DumpsInv
  <2>5. RecoveryInv /\ OnlyVerified
    BY DEF RecoveryInv, NeverAhead, OnlyVerified
  <2>6. ImagesInv
    BY DEF ImagesInv, Versions
  <2> QED
    BY <2>2, <2>4, <2>5, <2>6 DEF UpdaterInv
<1>2. ASSUME UpdaterInv, UpdaterNext
      PROVE  UpdaterInv'
  <2>1. UpdaterTypeOK /\ DumpsInv /\ RecoveryInv /\ ImagesInv /\ OnlyVerified
    BY <1>2 DEF UpdaterInv
  <2>2. UpdaterTypeOK' /\ DumpsInv' /\ RecoveryInv'
    BY <1>2, <2>1, DumpsStep, RecoveryStep
  <2>3. ImagesInv' /\ OnlyVerified'
    <3>1. mode \in {"git", "image"}
      BY <2>1, Positions
    <3> QED
      BY <1>2, <2>1, <3>1, SmallTypesStep, ImagesStep, CheckoutStep
  <2> QED
    BY <2>2, <2>3 DEF UpdaterInv
<1>3. ASSUME UpdaterInv, UNCHANGED updaterVars
      PROVE  UpdaterInv'
  BY <1>3 DEF UpdaterInv, updaterVars, outside, disk, UpdaterTypeOK, DumpsInv, RecoveryInv, ImagesInv,
      OnlyVerified, NeverAhead, Fallback, Settled, pre, PastDump, DumpStep, At, Steps
<1> QED
  BY <1>1, <1>2, <1>3

(* The invariant says what the run checks. *)
LEMMA InvSafe ==
  ASSUME UpdaterInv
  PROVE  UpgradeSafe
<1> USE UpdaterAssumption DEF UpdaterInv
<1>1. At("migrate") \/ At("restart") => PastDump /\ run # 0
  BY Positions DEF PastDump, DumpStep
<1>2. DumpedBeforeMigrate
  BY <1>1 DEF DumpedBeforeMigrate, DumpsInv, pre
<1>3. RecoveryPath
  <2>1. Settled >= Retention => Len(pre) >= Retention
    <3>1. Len(pre) \in Nat
      BY DEF pre, UpdaterTypeOK, Kinds
    <3> QED
      BY <3>1 DEF Settled
  <2> QED
    BY <2>1 DEF RecoveryPath, RecoveryInv, Fallback, pre
<1> QED
  BY <1>2, <1>3 DEF UpgradeSafe, RecoveryInv

(* The types of the updater: no version out of range, a plan only where one   *)
(* was made, and no more files than the retention, the crashes and the dump   *)
(* that is being written account for (prune_backups).                         *)
THEOREM UpdaterTypeCorrect == UpdaterSpec => []UpdaterTypeOK
<1>1. UpdaterInv => UpdaterTypeOK
  BY DEF UpdaterInv
<1> QED
  BY <1>1, UpdaterInductive, PTL DEF UpdaterSpec

(* Whatever fails, dies, restarts or goes on by itself: no app serves on a    *)
(* schema older than its code, an app the schema has left behind has a dump   *)
(* to go back to (or Retention later ones were made), the dump of a run is    *)
(* whole before it migrates, and in image mode only verified images run       *)
(* (orchestrator.py, image_update.py, migrate.py).                            *)
THEOREM UpgradesAreSafe == UpdaterSpec => []UpgradeSafe
BY UpdaterInductive, InvSafe, PTL DEF UpdaterSpec

=============================================================================
