------------------------ MODULE RecoveryBundlesProofs ------------------------
(* Theorems about RecoveryBundles for every value of its constants. *)
EXTENDS RecoveryBundles, TLAPS

\* No counter outruns the changes it counts.
Typed ==
  /\ TypeOK
  /\ deployment.database <= edits + 1
  /\ \A b \in Bundles : bundles[b].moved <= edits

\* Each actor has jobs of its own.
Publishing == {"flush", "rename", "sync"}
IdleJobs == [pc : {"idle"}, name : Names]
TimerJobs ==
  [pc : {"status", "copy", "identity", "recheck"} \cup Publishing, name : Bundles]
OperatorJobs ==
  [pc : {"run"}, name : Bundles]
    \cup [pc : {"hash", "read"} \cup Publishing, name : {"package"}]
RecovererJobs ==
  [pc : {"download", "compare"}, name : {"retrieved"}]
    \cup [pc : {"unpack", "check"}, name : Unpackings]
    \cup [pc : Publishing, name : RecoveryNames]
JobsOf(a) ==
  CASE a = "timer" -> TimerJobs
    [] a = "operator" -> OperatorJobs
    [] a = "recoverer" -> RecovererJobs
Assigned == \A a \in Actors : jobs[a] \in IdleJobs \cup JobsOf(a)

\* Where the directory is that a works on, and what of it is on the disk.
Placed(a) ==
  LET d == disk[jobs[a].name] IN
  /\ jobs[a].pc \notin {"idle", "run", "sync"} => d.place = "stage"
  /\ jobs[a].pc \in {"run", "sync"} => d.place = "final"
  /\ jobs[a].pc = "rename" /\ jobs[a].name \in FullyFlushed => d.flushed

\* What has been flushed survives, and success is reported of nothing else.
Kept(n) ==
  /\ disk[n].place # "final" => ~disk[n].torn
  /\ disk[n].place = "final" /\ n \in FullyFlushed => disk[n].flushed /\ ~disk[n].torn
  /\ n \in reported \ {"verified"} => disk[n].place = "final" /\ disk[n].named

Directories == Assigned /\ (\A a \in Actors : Placed(a)) /\ (\A n \in Names : Kept(n))

\* What a backup that has come to pc may rely on.
BackupConsistent ==
  LET pc == jobs["timer"].pc
      b  == bundles[jobs["timer"].name] IN
  /\ pc # "idle" => (deployment.head # b.commit => b.moved >= 1)
  /\ pc \in {"copy", "identity"} => b.source <= deployment.database
  /\ pc = "identity" => b.opened \/ b.source < deployment.database
  /\ pc \in {"recheck"} \cup Publishing => b.opened
  /\ pc \in {"identity", "recheck"} =>
       b.under \/ (b.moved >= 1 /\ (deployment.head = b.commit => b.moved >= 2))
  /\ pc \in Publishing => b.under \/ b.moved >= 2

\* What the recovery host has unpacked is what the receipt's package records.
RecoveryConsistent ==
  /\ remote = NoPackage =>
       At("recoverer", "idle") /\ \A n \in RecoveryNames : disk[n].place = "none"
  /\ \A n \in Unpackings : disk[n].place = "final" => Recoverable(unpacked[n])
  /\ \A n \in Unpackings :
       jobs["recoverer"].pc \in Publishing /\ jobs["recoverer"].name = n =>
         Recoverable(unpacked[n])

\* A bundle that was published or is of the past, which no backup writes again.
Settled(b) == disk[b].place # "stage" /\ (b \in Earlier \/ bundles[b].commit # 0)

\* What the reports tell of a bundle stays true of it while it is there and whole,
\* and what a package tells of the bundle in it stays true whatever happens to it.
Proves(e) ==
  Settled(e) /\ (Startable(e) \/ e \in damaged \/ disk[e].place # "final")
Certified(p) ==
  /\ p.evidence \in {NoBundle, p.bundle}
  /\ p.tested =>
       /\ p.evidence = p.bundle /\ p.bundle \in Bundles
       /\ Settled(p.bundle) /\ Startable(p.bundle)
EvidenceConsistent ==
  /\ \A b \in Bundles : disk[b].place # "none" => bundles[b].commit # 0
  /\ \A e \in evidence : Proves(e)
  /\ Certified(package)
  /\ Certified(remote)

-----------------------------------------------------------------------------
(* Types *)

Directory == [place : {"none", "stage", "final"}, flushed : BOOLEAN,
              named : BOOLEAN, torn : BOOLEAN]
Contained == [commit : 0 .. MaxHead, schema : 0 .. MaxHead,
              source : 0 .. MaxEdits + 1, opened : BOOLEAN, under : BOOLEAN,
              moved : 0 .. MaxEdits]

LEMMA NamesDiffer ==
  /\ \A n \in Names : n \in SourceNames <=> n \notin RecoveryNames
  /\ \A b \in Bundles : b \notin {"package", "retrieved", "recovered", "verified"}
  /\ "verified" \notin FullyFlushed /\ "recovered" \notin FullyFlushed
  /\ Bundles \subseteq Names /\ {"package", "retrieved"} \subseteq Names
  /\ Unpackings \subseteq Names /\ Unpackings \subseteq RecoveryNames
  /\ NoBundle \notin Bundles
BY DirectoriesDiffer, NoBundleIsNone
   DEF Names, SourceNames, RecoveryNames, Unpackings, FullyFlushed

LEMMA PlainValues ==
  /\ NoContents \in Contained
  /\ NoFiles \in Inventories
  /\ NoPackage \in Packages
  /\ Absence \in Directory /\ Staged \in Directory
  /\ \A n \in Names : Job("idle", n) \in [pc : Pcs, name : Names]
<1>1. NoFiles \in Inventories
  BY DEF NoFiles, Inventories, Contents
<1>2. NoContents \in Contained
  BY BoundsAreNat DEF NoContents, Contained
<1>3. NoPackage \in Packages
  BY <1>1 DEF NoPackage, Packages
<1>4. Absence \in Directory /\ Staged \in Directory
  BY DEF Absence, Staged, Directory
<1> QED
  BY <1>1, <1>2, <1>3, <1>4 DEF Job, Pcs

\* Updates of records keep their types.
LEMMA ContainedUpdates ==
  ASSUME NEW r \in Contained
  PROVE  /\ \A s \in 0 .. MaxEdits + 1 : [r EXCEPT !.source = s] \in Contained
         /\ \A m \in 0 .. MaxEdits : [r EXCEPT !.moved = m] \in Contained
         /\ \A s \in 0 .. MaxHead, o \in BOOLEAN, u \in BOOLEAN :
              [r EXCEPT !.schema = s, !.opened = o, !.under = u] \in Contained
BY DEF Contained

LEMMA DeploymentUpdates ==
  ASSUME TypeOK, NEW c \in BOOLEAN
  PROVE  [deployment EXCEPT !.clean = c]
           \in [head : 1 .. MaxHead, clean : BOOLEAN, schema : 1 .. MaxHead,
               database : 1 .. MaxEdits + 1]
BY DEF TypeOK

LEMMA InitTyped == Init => Typed
<1> SUFFICES ASSUME Init PROVE Typed
  OBVIOUS
<1>1. Idle \in [pc : Pcs, name : Names]
  BY NamesDiffer DEF Idle, Pcs
<1>2. bundles = [b \in Bundles |-> NoContents] /\ NoContents.moved = 0
  BY DEF Init, NoContents
<1> QED
  BY <1>1, <1>2, PlainValues, EarlierBundles, BoundsAreNat
     DEF Init, Typed, TypeOK, Contained, Directory

LEMMA HeldTyped ==
  ASSUME Typed, NEW p, NEW f \in Files
  PROVE  Held(p, f) \in Contents
BY DEF Held, Typed, TypeOK, Contents, Files

LEMMA ForgetTyped ==
  ASSUME Typed, NEW gone \in SUBSET Names, Forget(gone),
         UNCHANGED <<surroundings, reported>>,
         disk' \in [Names -> Directory], jobs' \in [Actors -> [pc : Pcs, name : Names]]
  PROVE  Typed'
<1>1. /\ bundles' \in [Bundles -> Contained]
      /\ \A b \in Bundles : bundles'[b].moved <= edits
  <2>1. NoContents.moved = 0
    BY DEF NoContents
  <2> QED
    BY <2>1, PlainValues DEF Typed, TypeOK, Forget, Contained
<1>2. unpacked' \in [Unpackings -> Inventories] /\ package' \in Packages
  BY PlainValues DEF Typed, TypeOK, Forget
<1> QED
  BY <1>1, <1>2 DEF Typed, TypeOK, Forget, surroundings, Contained, Directory

LEMMA CommandTyped ==
  ASSUME Typed, Assigned, Begin \/ Backup \/ Test \/ Seal \/ Upload \/ Retrieve \/ Recover
  PROVE  Typed'
<1> USE DEF Typed, TypeOK
<1> DEFINE Jobs == [Actors -> [pc : Pcs, name : Names]]
<1>1. ASSUME NEW a \in Actors, NEW n \in Names, NEW pc \in Pcs, Start(a, n, pc)
      PROVE  jobs' \in Jobs
  BY <1>1 DEF Start, Job
<1>2. ASSUME NEW a \in Actors, NEW pc \in Pcs, GoTo(a, pc)
      PROVE  jobs' \in Jobs
  BY <1>2 DEF GoTo
<1>3. ASSUME NEW n \in Names, Stage(n)
      PROVE  disk' \in [Names -> Directory]
  BY <1>3, PlainValues DEF Stage, Directory
<1>4. Pcs = {"idle", "status", "copy", "identity", "recheck", "run", "hash", "read",
             "download", "compare", "unpack", "check", "flush", "rename", "sync"}
      /\ Actors = {"timer", "operator", "recoverer"}
  BY DEF Pcs, Actors
<1> HIDE DEF Jobs
<1>10. ASSUME NEW b \in Bundles, ReadHead(b) PROVE Typed'
  <2>1. [NoContents EXCEPT !.commit = deployment.head] \in Contained
    BY PlainValues, BoundsAreNat DEF Contained
  <2>2. [NoContents EXCEPT !.commit = deployment.head].moved = 0
    BY DEF NoContents
  <2>3. jobs' \in Jobs /\ disk' \in [Names -> Directory]
    BY <1>1, <1>3, <1>4, <1>10, NamesDiffer DEF ReadHead
  <2> QED
    BY <1>10, <2>1, <2>2, <2>3
       DEF ReadHead, surroundings, Contained, Directory, Jobs
<1>11. ASSUME NEW b \in Bundles, VerifyBundle(b) PROVE Typed'
  <2>1. jobs' \in Jobs
    BY <1>1, <1>4, <1>11, NamesDiffer DEF VerifyBundle
  <2> QED
    BY <1>11, <2>1 DEF VerifyBundle, surroundings, content, Jobs
<1>12. ASSUME NEW b \in Bundles, NEW configured \in BOOLEAN,
              NEW e \in Bundles \cup {NoBundle}, NEW tested \in BOOLEAN,
              BeginSeal(b, configured, e, tested)
       PROVE  Typed'
  <2>1. [NoPackage EXCEPT !.bundle = b, !.configured = configured,
                          !.evidence = e, !.tested = tested] \in Packages
    BY PlainValues DEF Packages, NoPackage
  <2>2. jobs' \in Jobs /\ disk' \in [Names -> Directory]
    BY <1>1, <1>3, <1>4, <1>12, NamesDiffer DEF BeginSeal
  <2> QED
    BY <1>12, <2>1, <2>2 DEF BeginSeal, surroundings, Directory, Jobs
<1>13. CASE ReadStatus
  <2>1. deployment.database \in 0 .. MaxEdits + 1
    BY BoundsAreNat
  <2>2. jobs' \in Jobs
    BY <1>2, <1>4, <1>13 DEF ReadStatus
  <2>3. bundles' \in [Bundles -> Contained]
    <3>1. \A b \in Bundles :
            [bundles[b] EXCEPT !.source = deployment.database] \in Contained
      BY <2>1, ContainedUpdates DEF Contained
    <3> QED
      BY <1>13, <3>1 DEF ReadStatus, Contained
  <2>4. \A b \in Bundles : bundles'[b].moved = bundles[b].moved
    BY <1>13 DEF ReadStatus
  <2> QED
    BY <1>13, <2>2, <2>3, <2>4 DEF ReadStatus, surroundings, Contained, Jobs
<1>14. CASE CopyDatabase
  <2>1. deployment.schema \in 0 .. MaxHead
    BY BoundsAreNat
  <2>2. jobs' \in Jobs
    BY <1>2, <1>4, <1>14 DEF CopyDatabase
  <2>3. bundles' \in [Bundles -> Contained]
    <3> DEFINE n == jobs["timer"].name
               opened == deployment.database = bundles[n].source
               under == deployment.head = bundles[n].commit
    <3>1. ASSUME NEW b \in Bundles, NEW o \in BOOLEAN, NEW u \in BOOLEAN
          PROVE  [bundles[b] EXCEPT !.schema = deployment.schema, !.opened = o,
                                    !.under = u] \in Contained
      <4>1. bundles[b] \in Contained
        BY DEF Contained
      <4> QED
        BY <4>1, <2>1, ContainedUpdates
    <3>2. opened \in BOOLEAN /\ under \in BOOLEAN
      OBVIOUS
    <3> HIDE DEF opened, under
    <3>3. \A b \in Bundles : bundles'[b] =
            IF b = n
            THEN [bundles[b] EXCEPT !.schema = deployment.schema, !.opened = opened,
                                    !.under = under]
            ELSE bundles[b]
      BY <1>14 DEF CopyDatabase, opened, under
    <3>4. ASSUME NEW b \in Bundles PROVE bundles'[b] \in Contained
      <4> DEFINE new == [bundles[b] EXCEPT !.schema = deployment.schema,
                                           !.opened = opened, !.under = under]
      <4>1. CASE b = n
        <5>1. new \in Contained
          BY <3>1, <3>2
        <5>2. bundles'[b] = new
          BY <3>3, <4>1
        <5> QED
          BY <5>1, <5>2
      <4>2. CASE b # n
        BY <3>3, <4>2 DEF Contained
      <4> QED
        BY <4>1, <4>2
    <3> QED
      BY <1>14, <3>4 DEF CopyDatabase
  <2>4. \A b \in Bundles : bundles'[b].moved = bundles[b].moved
    BY <1>14 DEF CopyDatabase
  <2> QED
    BY <1>14, <2>2, <2>3, <2>4 DEF CopyDatabase, surroundings, Contained, Jobs
<1>15. CASE CompareIdentity
  <2>1. jobs' \in Jobs
    BY <1>2, <1>4, <1>15 DEF CompareIdentity
  <2> QED
    BY <1>15, <2>1 DEF CompareIdentity, surroundings, content, Jobs
<1>16. CASE RecheckDeployment
  <2>1. jobs' \in Jobs
    BY <1>2, <1>4, <1>16 DEF RecheckDeployment
  <2> QED
    BY <1>16, <2>1 DEF RecheckDeployment, surroundings, content, Jobs
<1>17. CASE Test
  <2>1. RestoreTest
    BY <1>17 DEF Test, Qualify
  <2>2. jobs' \in Jobs
    BY <2>1, <1>4, NamesDiffer DEF RestoreTest, Idle, Jobs
  <2>3. jobs["operator"].name \in Bundles
    BY <2>1, <1>4 DEF Assigned, JobsOf, IdleJobs, OperatorJobs, RestoreTest, At, Publishing
  <2> QED
    BY <2>1, <2>2, <2>3 DEF RestoreTest, surroundings, Jobs
<1>18. CASE HashSources
  <2>1. [f \in Files |-> Held(package, f)] \in Inventories
    BY HeldTyped DEF Inventories, Typed, TypeOK
  <2>2. jobs' \in Jobs
    BY <1>2, <1>4, <1>18 DEF HashSources
  <2> QED
    BY <1>18, <2>1, <2>2 DEF HashSources, surroundings, Packages, Jobs
<1>19. ASSUME NEW f \in Files, ArchiveFile(f) PROVE Typed'
  <2>1. [package EXCEPT !.archived[f] = Held(package, f)] \in Packages
    BY <1>19, HeldTyped DEF Packages, Inventories, Typed, TypeOK
  <2> QED
    BY <1>19, <2>1 DEF ArchiveFile, surroundings
<1>20. CASE RehashSources
  <2>1. jobs' \in Jobs
    BY <1>2, <1>4, <1>20 DEF RehashSources
  <2> QED
    BY <1>20, <2>1 DEF RehashSources, surroundings, content, Jobs
<1>21. CASE Upload
  BY <1>21 DEF Upload, surroundings
<1>22. CASE BeginRetrieve
  <2>1. jobs' \in Jobs /\ disk' \in [Names -> Directory]
    BY <1>1, <1>3, <1>4, <1>22, NamesDiffer DEF BeginRetrieve
  <2> QED
    BY <1>22, <2>1 DEF BeginRetrieve, surroundings, content, Directory, Jobs
<1>23. CASE Download
  <2>1. jobs' \in Jobs
    BY <1>2, <1>4, <1>23 DEF Download
  <2>2. damaged' \subseteq Names
    BY <1>23, NamesDiffer DEF Download
  <2> QED
    BY <1>23, <2>1, <2>2 DEF Download, surroundings, content, Jobs
<1>24. CASE CompareDownload
  <2>1. jobs' \in Jobs
    BY <1>2, <1>4, <1>24 DEF CompareDownload
  <2> QED
    BY <1>24, <2>1 DEF CompareDownload, surroundings, content, Jobs
<1>25. ASSUME NEW n \in Unpackings, BeginUnpacking(n) PROVE Typed'
  <2>1. jobs' \in Jobs /\ disk' \in [Names -> Directory]
    BY <1>1, <1>3, <1>4, <1>25, NamesDiffer DEF BeginUnpacking
  <2> QED
    BY <1>25, <2>1 DEF BeginUnpacking, surroundings, content, Directory, Jobs
<1>26. CASE Unpack
  <2>1. jobs' \in Jobs
    BY <1>2, <1>4, <1>26 DEF Unpack
  <2>2. unpacked' \in [Unpackings -> Inventories]
    BY <1>26 DEF Unpack, Packages
  <2> QED
    BY <1>26, <2>1, <2>2 DEF Unpack, surroundings, Jobs
<1>27. CASE CheckUnpacked
  <2>1. jobs' \in Jobs
    BY <1>2, <1>4, <1>27 DEF CheckUnpacked
  <2> QED
    BY <1>27, <2>1 DEF CheckUnpacked, surroundings, content, Jobs
<1>28. CASE Begin
  <2> HIDE DEF Typed
  <2> QED
    BY <1>10, <1>11, <1>12, <1>28, Zenon DEF Begin
<1> QED
  BY <1>13, <1>14, <1>15, <1>16, <1>17, <1>18, <1>19, <1>20, <1>21, <1>22, <1>23,
     <1>24, <1>25, <1>26, <1>27, <1>28 DEF Backup, Seal, Retrieve, Recover

LEMMA ChangeTyped ==
  ASSUME Typed, Surroundings \/ \E a \in Actors : Publish(a) \/ Fail(a)
  PROVE  Typed'
<1> USE DEF Typed, TypeOK
<1> DEFINE Jobs == [Actors -> [pc : Pcs, name : Names]]
<1>1. ASSUME NEW a \in Actors, NEW pc \in Pcs, GoTo(a, pc)
      PROVE  jobs' \in Jobs
  BY <1>1 DEF GoTo
<1>2. {"idle", "rename", "sync"} \subseteq Pcs /\ Idle \in [pc : Pcs, name : Names]
  BY NamesDiffer DEF Pcs, Idle
<1> HIDE DEF Jobs
<1>3. ASSUME NEW a \in Actors, Flush(a) PROVE Typed'
  <2>1. jobs' \in Jobs
    BY <1>1, <1>2, <1>3 DEF Flush
  <2>2. disk' \in [Names -> Directory]
    <3>1. (jobs[a].name \in FullyFlushed) \in BOOLEAN
      OBVIOUS
    <3>2. \A n \in Names : \A f \in BOOLEAN :
            [disk[n] EXCEPT !.flushed = f] \in Directory
      BY DEF Directory
    <3> QED
      BY <1>3, <3>1, <3>2 DEF Flush, Directory
  <2> QED
    BY <1>3, <2>1, <2>2 DEF Flush, surroundings, content, Directory, Jobs
<1>4. ASSUME NEW a \in Actors, Rename(a) PROVE Typed'
  <2>1. jobs' \in Jobs
    BY <1>1, <1>2, <1>4 DEF Rename
  <2>2. disk' \in [Names -> Directory]
    BY <1>4 DEF Rename, Directory
  <2>3. reported' \subseteq Names
    BY <1>4, NamesDiffer DEF Rename, Unpackings
  <2> QED
    BY <1>4, <2>1, <2>2, <2>3 DEF Rename, surroundings, content, Directory, Jobs
<1>5. ASSUME NEW a \in Actors, SyncName(a) PROVE Typed'
  <2>1. jobs' \in Jobs
    BY <1>1, <1>2, <1>5 DEF SyncName
  <2>2. disk' \in [Names -> Directory]
    BY <1>5 DEF SyncName, Directory
  <2>3. reported' \subseteq Names
    BY <1>5 DEF SyncName
  <2> QED
    BY <1>5, <2>1, <2>2, <2>3 DEF SyncName, surroundings, content, Directory, Jobs
<1>6. ASSUME NEW a \in Actors, Fail(a) PROVE Typed'
  <2>1. jobs' \in Jobs /\ disk' \in [Names -> Directory]
    BY <1>2, <1>6, PlainValues DEF Fail, Directory, Jobs
  <2>2. {n \in {jobs[a].name} : disk[n].place = "stage"} \in SUBSET Names
    OBVIOUS
  <2> QED
    BY <1>6, <2>1, <2>2, ForgetTyped DEF Fail, Jobs
<1>7. ASSUME NEW actors, NEW names \in SUBSET Names, PowerLoss(actors, names)
      PROVE  Typed'
  <2>1. PICK back \in SUBSET names, lost \in SUBSET names :
          LET gone == back \cup {n \in names : disk[n].place = "stage"} IN
          /\ disk' = [n \in Names |->
               IF n \in gone THEN Absence
               ELSE [disk[n] EXCEPT !.torn = @ \/ n \in lost]]
          /\ jobs' = [a \in Actors |-> IF a \in actors THEN Idle ELSE jobs[a]]
          /\ Forget(gone)
          /\ UNCHANGED <<surroundings, reported>>
    BY <1>7 DEF PowerLoss
  <2> DEFINE gone == back \cup {n \in names : disk[n].place = "stage"}
  <2>2. jobs' \in Jobs
    BY <1>2, <2>1 DEF Jobs
  <2>3. ASSUME NEW n \in Names, n \notin gone PROVE disk'[n] \in Directory
    <3>1. disk'[n] = [disk[n] EXCEPT !.torn = disk[n].torn \/ n \in lost]
      BY <2>1, <2>3
    <3>2. (disk[n].torn \/ n \in lost) \in BOOLEAN
      OBVIOUS
    <3>3. \A t \in BOOLEAN : [disk[n] EXCEPT !.torn = t] \in Directory
      BY DEF Directory
    <3> QED
      BY <3>1, <3>2, <3>3
  <2>4. ASSUME NEW n \in Names, n \in gone PROVE disk'[n] \in Directory
    BY <2>1, <2>4, PlainValues
  <2>5. disk' \in [Names -> Directory]
    BY <2>1, <2>3, <2>4
  <2> QED
    BY <2>1, <2>2, <2>5, ForgetTyped DEF Jobs
<1>8. ASSUME NEW commit \in 1 .. MaxHead, Checkout(commit) PROVE Typed'
  <2>1. ASSUME NEW b \in Bundles
        PROVE  bundles'[b] \in Contained /\ bundles'[b].moved <= edits'
    <3>1. /\ bundles[b].moved + 1 \in 0 .. MaxEdits
          /\ bundles[b].moved + 1 <= edits' /\ bundles[b].moved <= edits'
      BY <1>8, BoundsAreNat DEF Checkout, Edit
    <3> QED
      BY <1>8, <3>1 DEF Checkout, Contained
  <2>2. bundles' \in [Bundles -> Contained]
    BY <1>8, <2>1 DEF Checkout
  <2> QED
    BY <1>8, <2>1, <2>2, BoundsAreNat DEF Checkout, Edit, Contained
<1>9. CASE RestartService \/ EditTracked
  <2>1. /\ deployment.head \in 1 .. MaxHead /\ edits' \in 0 .. MaxEdits
        /\ deployment.database <= edits' /\ \A b \in Bundles : bundles[b].moved <= edits'
    BY <1>9, BoundsAreNat DEF RestartService, EditTracked, Edit
  <2>2. CASE RestartService
    BY <2>1, <2>2, BoundsAreNat DEF RestartService, Edit, content
  <2>3. CASE EditTracked
    <3>1. (~deployment.clean) \in BOOLEAN
      OBVIOUS
    <3>2. deployment' \in [head : 1 .. MaxHead, clean : BOOLEAN, schema : 1 .. MaxHead,
                           database : 1 .. MaxEdits + 1]
      BY <2>3, <3>1, DeploymentUpdates DEF EditTracked
    <3>3. deployment'.database = deployment.database
      BY <2>3 DEF EditTracked
    <3> QED
      BY <2>1, <2>3, <3>2, <3>3, BoundsAreNat DEF EditTracked, Edit, content
  <2> QED
    BY <1>9, <2>2, <2>3
<1>10. CASE ReplaceDatabase
  BY <1>10, BoundsAreNat DEF ReplaceDatabase, Edit, content
<1>11. CASE EditConfiguration
  BY <1>11, BoundsAreNat DEF EditConfiguration, Edit, content
<1>12. ASSUME NEW n \in Names, Damage(n) PROVE Typed'
  BY <1>12, BoundsAreNat DEF Damage, Edit, content
<1>13. SourceNames \subseteq Names /\ RecoveryNames \subseteq Names
  BY DEF Names
<1> QED
  BY <1>3, <1>4, <1>5, <1>6, <1>7, <1>8, <1>9, <1>10, <1>11, <1>12, <1>13
     DEF Publish, Surroundings

LEMMA StutterTyped == Typed /\ UNCHANGED vars => Typed'
BY DEF Typed, TypeOK, vars, surroundings, content

LEMMA NextTyped == Typed /\ Assigned /\ [Next]_vars => Typed'
BY CommandTyped, ChangeTyped, StutterTyped DEF Next

-----------------------------------------------------------------------------
(* Directories *)

\* What each actor works on, by its step.
LEMMA JobsDiffer ==
  ASSUME Assigned
  PROVE  /\ ~At("timer", "idle") => jobs["timer"] \in TimerJobs
         /\ ~At("operator", "idle") => jobs["operator"] \in OperatorJobs
         /\ ~At("recoverer", "idle") => jobs["recoverer"] \in RecovererJobs
BY DEF Assigned, JobsOf, Actors, At, IdleJobs

\* Two actors meet only at a bundle that is tested while it is being published.
LEMMA Apart ==
  ASSUME Directories, NEW a \in Actors, NEW c \in Actors, a # c,
         ~At(a, "idle"), ~At(c, "idle"), jobs[a].name = jobs[c].name
  PROVE  disk[jobs[a].name].place = "final"
<1>1. Assigned /\ Placed("operator") /\ "operator" \in Actors
  BY DEF Directories, Actors
<1>2. ~At("recoverer", "idle") => jobs["recoverer"].name \in RecoveryNames
  BY <1>1, JobsDiffer DEF RecovererJobs, RecoveryNames
<1>3. ~At("timer", "idle") => jobs["timer"].name \in Bundles
  BY <1>1, JobsDiffer DEF TimerJobs
<1>4. ~At("operator", "idle") =>
        \/ jobs["operator"].pc = "run" /\ jobs["operator"].name \in Bundles
        \/ jobs["operator"].name = "package"
  BY <1>1, JobsDiffer DEF OperatorJobs
<1>5. jobs["operator"].pc = "run" => disk[jobs["operator"].name].place = "final"
  BY <1>1 DEF Placed
<1> QED
  BY <1>2, <1>3, <1>4, <1>5, NamesDiffer DEF Actors, SourceNames, RecoveryNames

LEMMA InitDirectories == Init => Directories
<1> SUFFICES ASSUME Init PROVE Directories
  OBVIOUS
<1>1. \A a \in Actors : jobs[a] = Idle
  BY DEF Init
<1>2. Idle \in IdleJobs /\ Idle.pc = "idle"
  BY NamesDiffer DEF Idle, IdleJobs
<1>3. \A n \in Names : Kept(n)
  BY DEF Init, Kept, Absence
<1>4. \A a \in Actors : Placed(a)
  BY <1>1, <1>2 DEF Placed
<1> QED
  BY <1>1, <1>2, <1>3, <1>4 DEF Directories, Assigned

LEMMA GoingOn ==
  ASSUME Typed, NEW a \in Actors, NEW pc, GoTo(a, pc)
  PROVE  /\ jobs'[a] = [pc |-> pc, name |-> jobs[a].name]
         /\ \A c \in Actors \ {a} : jobs'[c] = jobs[c]
BY DEF GoTo, Typed, TypeOK

LEMMA Starting ==
  ASSUME Typed, NEW a \in Actors, NEW n, NEW pc, Start(a, n, pc)
  PROVE  /\ jobs[a].pc = "idle"
         /\ jobs'[a] = [pc |-> pc, name |-> n]
         /\ \A c \in Actors \ {a} : jobs'[c] = jobs[c]
BY DEF Start, At, Job, Typed, TypeOK

\* A step that changes the job of a only.
LEMMA AdvanceKeeps ==
  ASSUME Typed, Directories, NEW a \in Actors, UNCHANGED <<disk, reported>>,
         \A c \in Actors \ {a} : jobs'[c] = jobs[c],
         jobs'[a] \in IdleJobs \cup JobsOf(a), Placed(a)'
  PROVE  Directories'
<1>1. Assigned'
  BY DEF Directories, Assigned
<1>2. \A c \in Actors : Placed(c)'
  BY DEF Directories, Placed
<1>3. \A n \in Names : Kept(n)'
  BY DEF Directories, Kept
<1> QED
  BY <1>1, <1>2, <1>3 DEF Directories

\* A step between two at which the staging directory is there.
LEMMA WorkKeeps ==
  ASSUME Typed, Directories, NEW a \in Actors, UNCHANGED <<disk, reported>>,
         jobs[a].pc \notin {"idle", "run", "sync"},
         NEW pc, GoTo(a, pc), pc \notin {"idle", "run", "sync"},
         [pc |-> pc, name |-> jobs[a].name] \in JobsOf(a),
         pc = "rename" => jobs[a].name \notin FullyFlushed
  PROVE  Directories'
<1>1. jobs'[a] = [pc |-> pc, name |-> jobs[a].name]
  BY GoingOn
<1>2. Placed(a)'
  BY <1>1 DEF Directories, Placed
<1> QED
  BY <1>1, <1>2, GoingOn, AdvanceKeeps

LEMMA StageKeeps ==
  ASSUME Typed, Directories, NEW a \in Actors, NEW n \in Names, NEW pc,
         Start(a, n, pc), Stage(n), UNCHANGED reported,
         [pc |-> pc, name |-> n] \in JobsOf(a),
         pc \notin {"idle", "run", "sync", "rename"}
  PROVE  Directories'
<1>1. /\ jobs'[a] = [pc |-> pc, name |-> n]
      /\ \A c \in Actors \ {a} : jobs'[c] = jobs[c]
  BY Starting
<1>2. /\ disk[n].place = "none" /\ disk'[n] = Staged
      /\ \A m \in Names \ {n} : disk'[m] = disk[m]
  BY DEF Stage, Typed, TypeOK
<1>3. Assigned'
  BY <1>1 DEF Directories, Assigned
<1>4. ASSUME NEW c \in Actors PROVE Placed(c)'
  <2>1. CASE c = a
    BY <1>1, <1>2, <2>1 DEF Placed, Staged, Absence
  <2>2. CASE c # a
    <3>1. jobs'[c] = jobs[c] /\ Placed(c) /\ jobs[c].name \in Names
      BY <1>1, <2>2 DEF Directories, Typed, TypeOK
    <3>2. jobs[c].pc = "idle" \/ jobs[c].name # n
      BY <1>2, <3>1 DEF Placed
    <3> QED
      BY <1>2, <3>1, <3>2 DEF Placed
  <2> QED
    BY <2>1, <2>2
<1>5. ASSUME NEW m \in Names PROVE Kept(m)'
  <2>1. Kept(m)
    BY DEF Directories
  <2> QED
    BY <1>2, <2>1 DEF Kept, Staged, Absence
<1> QED
  BY <1>3, <1>4, <1>5 DEF Directories

LEMMA FlushKeeps == ASSUME Typed, Directories, NEW a \in Actors, Flush(a) PROVE Directories'
<1> DEFINE n == jobs[a].name
<1>1. jobs[a].pc = "flush" /\ disk[n].place = "stage"
  BY DEF Directories, Placed, Flush, At
<1>2. /\ jobs'[a] = [pc |-> "rename", name |-> n]
      /\ \A c \in Actors \ {a} : jobs'[c] = jobs[c]
  BY GoingOn DEF Flush
<1>3. /\ n \in Names
      /\ disk'[n].place = "stage" /\ (n \in FullyFlushed => disk'[n].flushed)
      /\ disk'[n].torn = disk[n].torn
      /\ \A m \in Names \ {n} : disk'[m] = disk[m]
  BY <1>1 DEF Flush, Typed, TypeOK
<1>4. Assigned'
  <2>1. jobs[a] \in JobsOf(a)
    BY <1>1 DEF Directories, Assigned, IdleJobs
  <2>2. [pc |-> "rename", name |-> n] \in JobsOf(a)
    BY <1>1, <2>1 DEF JobsOf, Actors, TimerJobs, OperatorJobs, RecovererJobs, Publishing
  <2> QED
    BY <1>2, <2>2 DEF Directories, Assigned
<1>5. ASSUME NEW c \in Actors PROVE Placed(c)'
  <2>1. CASE c = a
    BY <1>2, <1>3, <2>1 DEF Placed
  <2>2. CASE c # a
    <3>1. jobs'[c] = jobs[c] /\ Placed(c) /\ jobs[c].name \in Names
      BY <1>2, <2>2 DEF Directories, Typed, TypeOK
    <3>2. jobs[c].pc = "idle" \/ jobs[c].name # n
      BY <1>1, <2>2, Apart DEF At
    <3> QED
      BY <1>3, <3>1, <3>2 DEF Placed
  <2> QED
    BY <2>1, <2>2
<1>6. ASSUME NEW m \in Names PROVE Kept(m)'
  <2>1. Kept(m) /\ reported' = reported
    BY DEF Directories, Flush
  <2> QED
    BY <1>1, <1>3, <2>1 DEF Kept
<1> QED
  BY <1>4, <1>5, <1>6 DEF Directories

LEMMA RenameKeeps == ASSUME Typed, Directories, NEW a \in Actors, Rename(a) PROVE Directories'
<1> DEFINE n == jobs[a].name
<1>1. /\ jobs[a].pc = "rename" /\ disk[n].place = "stage"
      /\ n \in FullyFlushed => disk[n].flushed
  BY DEF Directories, Placed, Rename, At
<1>2. /\ jobs'[a] = [pc |-> IF n = "verified" THEN "idle" ELSE "sync", name |-> n]
      /\ \A c \in Actors \ {a} : jobs'[c] = jobs[c]
      /\ reported' = IF n = "verified" THEN reported \cup {n} ELSE reported
  BY GoingOn DEF Rename
<1>3. /\ n \in Names
      /\ disk'[n].place = "final" /\ disk'[n].torn = disk[n].torn
      /\ disk'[n].flushed = disk[n].flushed
      /\ \A m \in Names \ {n} : disk'[m] = disk[m]
  BY <1>1 DEF Rename, Typed, TypeOK
<1>4. Assigned'
  <2>1. jobs[a] \in JobsOf(a)
    BY <1>1 DEF Directories, Assigned, IdleJobs
  <2>2. [pc |-> "sync", name |-> n] \in JobsOf(a) /\ [pc |-> "idle", name |-> n] \in IdleJobs
    BY <1>1, <1>3, <2>1
       DEF JobsOf, Actors, TimerJobs, OperatorJobs, RecovererJobs, Publishing, IdleJobs
  <2> QED
    BY <1>2, <2>2 DEF Directories, Assigned
<1>5. ASSUME NEW c \in Actors PROVE Placed(c)'
  <2>1. CASE c = a
    BY <1>2, <1>3, <2>1 DEF Placed
  <2>2. CASE c # a
    <3>1. jobs'[c] = jobs[c] /\ Placed(c) /\ jobs[c].name \in Names
      BY <1>2, <2>2 DEF Directories, Typed, TypeOK
    <3>2. jobs[c].pc = "idle" \/ jobs[c].name # n
      BY <1>1, <2>2, Apart DEF At
    <3> QED
      BY <1>3, <3>1, <3>2 DEF Placed
  <2> QED
    BY <2>1, <2>2
<1>6. ASSUME NEW m \in Names PROVE Kept(m)'
  <2>1. Kept(m) /\ (m \in reported' \ {"verified"} => m \in reported \ {"verified"})
    BY <1>2 DEF Directories
  <2> QED
    BY <1>1, <1>3, <2>1 DEF Kept
<1> QED
  BY <1>4, <1>5, <1>6 DEF Directories

LEMMA SyncKeeps == ASSUME Typed, Directories, NEW a \in Actors, SyncName(a) PROVE Directories'
<1> DEFINE n == jobs[a].name
<1>1. jobs[a].pc = "sync" /\ disk[n].place = "final"
  BY DEF Directories, Placed, SyncName, At
<1>2. /\ jobs'[a] = [pc |-> "idle", name |-> n]
      /\ \A c \in Actors \ {a} : jobs'[c] = jobs[c]
      /\ reported' = reported \cup {n}
  BY GoingOn DEF SyncName
<1>3. /\ n \in Names /\ disk'[n].named
      /\ \A m \in Names : /\ disk'[m].place = disk[m].place
                          /\ disk'[m].torn = disk[m].torn
                          /\ disk'[m].flushed = disk[m].flushed
                          /\ m # n => disk'[m].named = disk[m].named
  <2>1. disk' = [disk EXCEPT ![n].named = TRUE] /\ disk \in [Names -> Directory] /\ n \in Names
    BY DEF SyncName, Typed, TypeOK, Directory
  <2>2. disk'[n] = [disk[n] EXCEPT !.named = TRUE] /\ disk[n] \in Directory
    BY <2>1
  <2>3. \A m \in Names \ {n} : disk'[m] = disk[m]
    BY <2>1
  <2> QED
    BY <2>1, <2>2, <2>3 DEF Directory
<1>4. Assigned'
  <2>1. [pc |-> "idle", name |-> n] \in IdleJobs
    BY <1>3 DEF IdleJobs
  <2> QED
    BY <1>2, <2>1 DEF Directories, Assigned
<1>5. ASSUME NEW c \in Actors PROVE Placed(c)'
  <2>1. CASE c = a
    BY <1>2, <2>1 DEF Placed
  <2>2. CASE c # a
    <3>1. jobs'[c] = jobs[c] /\ Placed(c) /\ jobs[c].name \in Names
      BY <1>2, <2>2 DEF Directories, Typed, TypeOK
    <3> QED
      BY <1>3, <3>1 DEF Placed
  <2> QED
    BY <2>1, <2>2
<1>6. ASSUME NEW m \in Names PROVE Kept(m)'
  <2>1. Kept(m)
    BY DEF Directories
  <2> QED
    BY <1>1, <1>2, <1>3, <2>1 DEF Kept
<1> QED
  BY <1>4, <1>5, <1>6 DEF Directories

\* Only what is known of a directory on the disk changes.
LEMMA PlacesKept ==
  ASSUME Typed, NEW a \in Actors, Flush(a) \/ SyncName(a)
  PROVE  \A m \in Names : disk'[m].place = disk[m].place
<1> DEFINE n == jobs[a].name
<1>1. disk \in [Names -> Directory] /\ n \in Names
  BY DEF Typed, TypeOK, Directory
<1>2. CASE Flush(a)
  <2>1. disk'[n] = [disk[n] EXCEPT !.flushed = n \in FullyFlushed]
        /\ \A m \in Names \ {n} : disk'[m] = disk[m]
    BY <1>1, <1>2 DEF Flush
  <2> QED
    BY <1>1, <2>1 DEF Directory
<1>3. CASE SyncName(a)
  <2>1. disk'[n] = [disk[n] EXCEPT !.named = TRUE]
        /\ \A m \in Names \ {n} : disk'[m] = disk[m]
    BY <1>1, <1>3 DEF SyncName
  <2> QED
    BY <1>1, <2>1 DEF Directory
<1> QED
  BY <1>2, <1>3

\* The directories that are gone were being filled, and by no one else.
LEMMA FailKeeps == ASSUME Typed, Directories, NEW a \in Actors, Fail(a) PROVE Directories'
<1> DEFINE n == jobs[a].name
<1>1. /\ ~At(a, "idle") /\ n \in Names /\ reported' = reported
      /\ jobs'[a] = Idle
      /\ \A c \in Actors \ {a} : jobs'[c] = jobs[c]
      /\ \A m \in Names : disk'[m] = IF m = n /\ disk[m].place = "stage"
                                     THEN Absence ELSE disk[m]
  BY DEF Fail, Typed, TypeOK
<1>2. Idle \in IdleJobs /\ Idle.pc = "idle"
  BY NamesDiffer DEF Idle, IdleJobs
<1>3. Assigned'
  BY <1>1, <1>2 DEF Directories, Assigned
<1>4. ASSUME NEW c \in Actors PROVE Placed(c)'
  <2>1. CASE c = a
    BY <1>1, <1>2, <2>1 DEF Placed
  <2>2. CASE c # a
    <3>1. jobs'[c] = jobs[c] /\ Placed(c) /\ jobs[c].name \in Names
      BY <1>1, <2>2 DEF Directories, Typed, TypeOK
    <3>2. jobs[c].pc = "idle" \/ jobs[c].name # n \/ disk[n].place = "final"
      BY <1>1, <2>2, Apart DEF At
    <3> QED
      BY <1>1, <3>1, <3>2 DEF Placed
  <2> QED
    BY <2>1, <2>2
<1>5. ASSUME NEW m \in Names PROVE Kept(m)'
  <2>1. Kept(m)
    BY DEF Directories
  <2> QED
    BY <1>1, <2>1 DEF Kept, Absence
<1> QED
  BY <1>3, <1>4, <1>5 DEF Directories

LEMMA PowerLossEffect ==
  ASSUME Typed, Directories, NEW actors, NEW names \in SUBSET Names,
         PowerLoss(actors, names)
  PROVE  /\ reported' = reported
         /\ \A c \in Actors : jobs'[c] = IF c \in actors THEN Idle ELSE jobs[c]
         /\ \A n \in Names \ names : disk'[n] = disk[n]
         /\ \A n \in names :
              \/ disk'[n] = Absence /\ (disk[n].place = "final" => ~disk[n].named)
              \/ /\ disk[n].place # "stage"
                 /\ disk'[n].place = disk[n].place /\ disk'[n].flushed = disk[n].flushed
                 /\ disk'[n].named = disk[n].named
                 /\ disk'[n].torn =>
                      disk[n].torn \/ (disk[n].place = "final" /\ ~disk[n].flushed)
<1>1. PICK back \in SUBSET {n \in names : disk[n].place = "final" /\ ~disk[n].named},
           lost \in SUBSET {n \in names : disk[n].place = "final" /\ ~disk[n].flushed} :
        LET gone == back \cup {n \in names : disk[n].place = "stage"} IN
        /\ disk' = [n \in Names |->
             IF n \in gone THEN Absence
             ELSE [disk[n] EXCEPT !.torn = @ \/ n \in lost]]
        /\ jobs' = [a \in Actors |-> IF a \in actors THEN Idle ELSE jobs[a]]
        /\ UNCHANGED reported
  BY DEF PowerLoss
<1> DEFINE gone == back \cup {n \in names : disk[n].place = "stage"}
<1>2. ASSUME NEW n \in Names, n \notin gone
      PROVE  /\ disk'[n] = [disk[n] EXCEPT !.torn = disk[n].torn \/ n \in lost]
             /\ disk[n] \in Directory
             /\ n \in names => disk[n].place # "stage"
             /\ n \in lost => disk[n].place = "final" /\ ~disk[n].flushed
  BY <1>1, <1>2 DEF Typed, TypeOK, Directory
<1>3. ASSUME NEW n \in Names, n \notin gone
      PROVE  /\ disk'[n].place = disk[n].place /\ disk'[n].flushed = disk[n].flushed
             /\ disk'[n].named = disk[n].named
             /\ disk'[n].torn = (disk[n].torn \/ n \in lost)
             /\ n \notin lost => disk'[n] = disk[n]
  <2>1. (disk[n].torn \/ n \in lost) \in BOOLEAN
    OBVIOUS
  <2>2. \A t \in BOOLEAN : LET d == [disk[n] EXCEPT !.torn = t] IN
          /\ d.place = disk[n].place /\ d.flushed = disk[n].flushed
          /\ d.named = disk[n].named /\ d.torn = t
    BY <1>2, <1>3 DEF Directory
  <2>3. /\ disk'[n].place = disk[n].place /\ disk'[n].flushed = disk[n].flushed
        /\ disk'[n].named = disk[n].named
        /\ disk'[n].torn = (disk[n].torn \/ n \in lost)
    BY <1>2, <1>3, <2>1, <2>2
  <2>4. ASSUME n \notin lost PROVE disk'[n] = disk[n]
    <3>1. (disk[n].torn \/ n \in lost) = disk[n].torn
      BY <1>2, <1>3, <2>4 DEF Directory
    <3>2. \A t \in BOOLEAN :
            t = disk[n].torn => [disk[n] EXCEPT !.torn = t] = disk[n]
      BY <1>2, <1>3 DEF Directory
    <3> QED
      BY <1>2, <1>3, <2>1, <3>1, <3>2
  <2> QED
    BY <2>3, <2>4
<1>4. ASSUME NEW n \in gone
      PROVE  /\ n \in names /\ disk'[n] = Absence
             /\ disk[n].place = "final" => ~disk[n].named
  BY <1>1
<1> HIDE DEF gone
<1>5. ASSUME NEW n \in Names \ names PROVE disk'[n] = disk[n]
  <2>1. n \notin lost /\ n \notin gone
    BY <1>1, <1>4
  <2> QED
    BY <1>3, <2>1
<1>6. ASSUME NEW n \in names
      PROVE  \/ disk'[n] = Absence /\ (disk[n].place = "final" => ~disk[n].named)
             \/ /\ disk[n].place # "stage"
                /\ disk'[n].place = disk[n].place /\ disk'[n].flushed = disk[n].flushed
                /\ disk'[n].named = disk[n].named
                /\ disk'[n].torn =>
                     disk[n].torn \/ (disk[n].place = "final" /\ ~disk[n].flushed)
  <2>1. CASE n \in gone
    BY <1>4, <2>1
  <2>2. CASE n \notin gone
    BY <1>2, <1>3, <2>2
  <2> QED
    BY <2>1, <2>2
<1> QED
  BY <1>1, <1>5, <1>6

LEMMA PowerLossKeeps ==
  ASSUME Typed, Directories, NEW actors, NEW names \in SUBSET Names,
         PowerLoss(actors, names),
         \A c \in Actors \ actors : At(c, "idle") \/ jobs[c].name \notin names
  PROVE  Directories'
<1>1. Idle \in IdleJobs /\ Idle.pc = "idle"
  BY NamesDiffer DEF Idle, IdleJobs
<1>2. Assigned'
  BY <1>1, PowerLossEffect DEF Directories, Assigned
<1>3. ASSUME NEW c \in Actors PROVE Placed(c)'
  <2>1. CASE c \in actors
    BY <1>1, <2>1, PowerLossEffect DEF Placed
  <2>2. CASE c \notin actors
    <3>1. jobs'[c] = jobs[c] /\ Placed(c) /\ jobs[c].name \in Names
      BY <2>2, PowerLossEffect DEF Directories, Typed, TypeOK
    <3>2. jobs[c].pc = "idle" \/ disk'[jobs[c].name] = disk[jobs[c].name]
      BY <2>2, <3>1, PowerLossEffect DEF At
    <3> QED
      BY <3>1, <3>2 DEF Placed
  <2> QED
    BY <2>1, <2>2
<1>4. ASSUME NEW m \in Names PROVE Kept(m)'
  <2>1. Kept(m) /\ reported' = reported
    BY PowerLossEffect DEF Directories
  <2>2. CASE m \notin names
    BY <2>1, <2>2, PowerLossEffect DEF Kept
  <2>3. CASE m \in names
    <3>1. CASE disk'[m] = Absence /\ (disk[m].place = "final" => ~disk[m].named)
      BY <2>1, <3>1 DEF Kept, Absence
    <3>2. CASE /\ disk[m].place # "stage"
               /\ disk'[m].place = disk[m].place /\ disk'[m].flushed = disk[m].flushed
               /\ disk'[m].named = disk[m].named
               /\ disk'[m].torn =>
                    disk[m].torn \/ (disk[m].place = "final" /\ ~disk[m].flushed)
      BY <2>1, <3>2 DEF Kept
    <3> QED
      BY <2>3, <3>1, <3>2, PowerLossEffect
  <2> QED
    BY <2>2, <2>3
<1> QED
  BY <1>2, <1>3, <1>4 DEF Directories

LEMMA BothPowerLossesKeep ==
  ASSUME Typed, Directories,
         \/ PowerLoss({"timer", "operator"}, SourceNames)
         \/ PowerLoss({"recoverer"}, RecoveryNames)
  PROVE  Directories'
<1>1. Assigned
  BY DEF Directories
<1>2. SourceNames \in SUBSET Names /\ RecoveryNames \in SUBSET Names
  BY DEF Names
<1>3. At("recoverer", "idle") \/ jobs["recoverer"].name \notin SourceNames
  BY <1>1, JobsDiffer, NamesDiffer DEF RecovererJobs, RecoveryNames, Unpackings, Names
<1>4. \A c \in {"timer", "operator"} : At(c, "idle") \/ jobs[c].name \notin RecoveryNames
  BY <1>1, JobsDiffer, NamesDiffer DEF TimerJobs, OperatorJobs, RecoveryNames, Unpackings
<1> QED
  BY <1>2, <1>3, <1>4, PowerLossKeeps DEF Actors

LEMMA CommandKeeps ==
  ASSUME Typed, Directories,
         Begin \/ Backup \/ Test \/ Seal \/ Upload \/ Retrieve \/ Recover
  PROVE  Directories'
<1>0. Assigned /\ Actors = {"timer", "operator", "recoverer"}
  BY DEF Directories, Actors
<1> DEFINE Unmoved == UNCHANGED <<disk, jobs, reported>>
<1>1. Unmoved => Directories'
  BY DEF Directories, Assigned, Placed, Kept
<1> HIDE DEF Unmoved
<1>2. ASSUME NEW b \in Bundles, ReadHead(b) PROVE Directories'
  <2>1. [pc |-> "status", name |-> b] \in JobsOf("timer") /\ b \in Names
    BY NamesDiffer DEF JobsOf, TimerJobs
  <2> QED
    BY <1>0, <1>2, <2>1, StageKeeps DEF ReadHead
<1>3. ASSUME NEW b \in Bundles, VerifyBundle(b) PROVE Directories'
  <2>1. [pc |-> "run", name |-> b] \in JobsOf("operator")
    BY DEF JobsOf, OperatorJobs
  <2>2. /\ jobs'["operator"] = [pc |-> "run", name |-> b]
        /\ \A c \in Actors \ {"operator"} : jobs'[c] = jobs[c]
    BY <1>0, <1>3, Starting DEF VerifyBundle
  <2>3. Placed("operator")'
    BY <1>3, <2>2 DEF VerifyBundle, Whole, Placed
  <2> QED
    BY <1>0, <1>3, <2>1, <2>2, <2>3, AdvanceKeeps DEF VerifyBundle
<1>4. ASSUME NEW b \in Bundles, NEW configured \in BOOLEAN,
             NEW e \in Bundles \cup {NoBundle}, NEW tested \in BOOLEAN,
             BeginSeal(b, configured, e, tested)
      PROVE  Directories'
  <2>1. [pc |-> "hash", name |-> "package"] \in JobsOf("operator") /\ "package" \in Names
    BY NamesDiffer DEF JobsOf, OperatorJobs
  <2> QED
    BY <1>0, <1>4, <2>1, StageKeeps DEF BeginSeal
<1>5. ASSUME NEW pc, NEW after \in {"status", "copy", "identity", "recheck", "flush"},
             At("timer", pc), pc \in {"status", "copy", "identity", "recheck"},
             GoTo("timer", after), UNCHANGED <<disk, reported>>
      PROVE  Directories'
  <2>1. [pc |-> after, name |-> jobs["timer"].name] \in JobsOf("timer")
    BY <1>0, <1>5, JobsDiffer DEF At, JobsOf, TimerJobs, Publishing
  <2> QED
    BY <1>0, <1>5, <2>1, WorkKeeps DEF At
<1>6. Backup => Directories'
  BY <1>5 DEF Backup, ReadStatus, CopyDatabase, CompareIdentity, RecheckDeployment
<1>7. Test => Directories'
  <2> SUFFICES ASSUME RestoreTest PROVE Directories'
    BY DEF Test, Qualify
  <2>1. Idle \in IdleJobs /\ Idle.pc = "idle"
    BY NamesDiffer DEF Idle, IdleJobs
  <2>2. /\ jobs'["operator"] = Idle
        /\ \A c \in Actors \ {"operator"} : jobs'[c] = jobs[c]
    BY <1>0 DEF RestoreTest, Typed, TypeOK
  <2>3. Placed("operator")'
    BY <2>1, <2>2 DEF Placed
  <2> QED
    BY <1>0, <2>1, <2>2, <2>3, AdvanceKeeps DEF RestoreTest
<1>8. ASSUME NEW pc, NEW after \in {"read", "flush"},
             At("operator", pc), pc \in {"hash", "read"},
             GoTo("operator", after), UNCHANGED <<disk, reported>>
      PROVE  Directories'
  <2>1. [pc |-> after, name |-> jobs["operator"].name] \in JobsOf("operator")
    BY <1>0, <1>8, JobsDiffer DEF At, JobsOf, OperatorJobs, Publishing
  <2> QED
    BY <1>0, <1>8, <2>1, WorkKeeps DEF At
<1>9. Seal => Directories'
  BY <1>1, <1>8 DEF Seal, HashSources, ArchiveFile, RehashSources, content, Unmoved
<1>10. Upload => Directories'
  BY <1>1 DEF Upload, Unmoved
<1>11. BeginRetrieve => Directories'
  <2>1. [pc |-> "download", name |-> "retrieved"] \in JobsOf("recoverer")
        /\ "retrieved" \in Names
    BY NamesDiffer DEF JobsOf, RecovererJobs
  <2> QED
    BY <1>0, <2>1, StageKeeps DEF BeginRetrieve
<1>12. ASSUME NEW n \in Unpackings, BeginUnpacking(n) PROVE Directories'
  <2>1. [pc |-> "unpack", name |-> n] \in JobsOf("recoverer") /\ n \in Names
    BY NamesDiffer DEF JobsOf, RecovererJobs
  <2> QED
    BY <1>0, <1>12, <2>1, StageKeeps DEF BeginUnpacking
<1>13. ASSUME NEW pc, NEW after, At("recoverer", pc),
              \/ pc = "download" /\ after = "compare"
              \/ pc = "compare" /\ after = "flush"
              \/ pc = "unpack" /\ after = "check"
              \/ pc = "check" /\ after = "flush"
              \/ pc = "check" /\ after = "rename" /\ jobs["recoverer"].name \notin FullyFlushed,
              GoTo("recoverer", after), UNCHANGED <<disk, reported>>
       PROVE  Directories'
  <2>1. [pc |-> after, name |-> jobs["recoverer"].name] \in JobsOf("recoverer")
    BY <1>0, <1>13, JobsDiffer
       DEF At, JobsOf, RecovererJobs, Publishing, RecoveryNames
  <2> QED
    BY <1>0, <1>13, <2>1, WorkKeeps DEF At
<1>14. Download \/ CompareDownload \/ Unpack => Directories'
  BY <1>13 DEF Download, CompareDownload, Unpack
<1>15. CASE CheckUnpacked
  <2>1. jobs["recoverer"].name \in Unpackings
    BY <1>0, <1>15, JobsDiffer DEF CheckUnpacked, At, RecovererJobs, Publishing
  <2>2. jobs["recoverer"].name \notin FullyFlushed
    BY <2>1, NamesDiffer DEF Unpackings
  <2> QED
    BY <1>13, <1>15, <2>2 DEF CheckUnpacked
<1> QED
  BY <1>2, <1>3, <1>4, <1>6, <1>7, <1>9, <1>10, <1>11, <1>12, <1>14, <1>15
     DEF Begin, Retrieve, Recover

LEMMA ChangeKeeps ==
  ASSUME Typed, Directories, Surroundings \/ UNCHANGED vars
  PROVE  Directories'
<1>1. UNCHANGED <<disk, jobs, reported>> => Directories'
  BY DEF Directories, Assigned, Placed, Kept
<1> QED
  BY <1>1, BothPowerLossesKeep
     DEF Surroundings, Checkout, RestartService, EditTracked, ReplaceDatabase,
         EditConfiguration, Damage, vars

LEMMA NextDirectories == Typed /\ Directories /\ [Next]_vars => Directories'
BY CommandKeeps, ChangeKeeps, FailKeeps, FlushKeeps, RenameKeeps, SyncKeeps
   DEF Next, Publish

LEMMA AlwaysDirectories == Spec => [](Typed /\ Directories)
<1>1. Directories => Assigned
  BY DEF Directories
<1> QED
  BY <1>1, InitTyped, InitDirectories, NextTyped, NextDirectories, PTL DEF Spec

\* Commits, contents and positions of everything keep their types.
THEOREM TypeCorrect == Spec => []TypeOK
<1>1. Typed => TypeOK
  BY DEF Typed
<1> QED
  BY <1>1, AlwaysDirectories, PTL

\* What commands have published is complete and what they have reported stays, for
\* any bundles, at whatever steps they are terminated and power is lost.
THEOREM PublicationsSurvive == Spec => []PublishedSurvives
<1>1. Typed /\ Directories => PublishedSurvives
  <2>1. FullyFlushed \subseteq Names
    BY NamesDiffer DEF FullyFlushed
  <2> QED
    BY <2>1 DEF Typed, TypeOK, Directories, Kept, PublishedSurvives
<1> QED
  BY <1>1, AlwaysDirectories, PTL

-----------------------------------------------------------------------------
(* Recovery *)

\* The host that each command works on.
LEMMA HostsDiffer ==
  ASSUME Directories
  PROVE  /\ ~At("recoverer", "idle") => jobs["recoverer"].name \in RecoveryNames
         /\ \A a \in Actors \ {"recoverer"} :
              ~At(a, "idle") => jobs[a].name \notin RecoveryNames
<1>1. Assigned
  BY DEF Directories
<1> QED
  BY <1>1, JobsDiffer, NamesDiffer
     DEF TimerJobs, OperatorJobs, RecovererJobs, RecoveryNames, Unpackings, Actors

\* A step that leaves alone or takes away what the recovery host has.
LEMMA RecoveryShrinks ==
  ASSUME RecoveryConsistent, remote' = remote,
         \/ jobs'["recoverer"] = jobs["recoverer"]
         \/ jobs'["recoverer"].pc = "idle",
         \A n \in RecoveryNames :
           disk'[n].place = disk[n].place \/ disk'[n].place = "none",
         \A n \in Unpackings :
           \/ unpacked'[n] = unpacked[n]
           \/ disk'[n].place = "none" /\ jobs'["recoverer"].pc = "idle"
  PROVE  RecoveryConsistent'
<1>1. Unpackings \subseteq RecoveryNames
  BY NamesDiffer
<1>2. \A files : Recoverable(files) => Recoverable(files)'
  BY DEF Recoverable, Fits
<1>3. "idle" \notin Publishing
  BY DEF Publishing
<1>4. remote' = NoPackage =>
        At("recoverer", "idle")' /\ \A n \in RecoveryNames : disk'[n].place = "none"
  BY DEF RecoveryConsistent, At
<1>5. ASSUME NEW n \in Unpackings, disk'[n].place = "final"
      PROVE  Recoverable(unpacked[n])' /\ unpacked'[n] = unpacked[n]
  BY <1>1, <1>5 DEF RecoveryConsistent, Recoverable, Fits
<1>6. ASSUME NEW n \in Unpackings, jobs'["recoverer"].pc \in Publishing,
             jobs'["recoverer"].name = n
      PROVE  Recoverable(unpacked[n])' /\ unpacked'[n] = unpacked[n]
  BY <1>3, <1>6 DEF RecoveryConsistent, Recoverable, Fits
<1> QED
  BY <1>4, <1>5, <1>6 DEF RecoveryConsistent

LEMMA InitRecovery == Init => RecoveryConsistent
<1>1. Idle.pc = "idle" /\ Absence.place = "none" /\ "idle" \notin Publishing
  BY DEF Idle, Absence, Publishing
<1>2. Unpackings \subseteq RecoveryNames /\ RecoveryNames \subseteq Names
  BY NamesDiffer DEF Names
<1> QED
  BY <1>1, <1>2 DEF Init, RecoveryConsistent, At, Actors

LEMMA CommandRecovers ==
  ASSUME Typed, Directories, RecoveryConsistent,
         Begin \/ Backup \/ Test \/ Seal \/ Upload \/ Retrieve \/ Recover
  PROVE  RecoveryConsistent'
<1>1. ASSUME UNCHANGED <<remote, unpacked>>, jobs'["recoverer"] = jobs["recoverer"],
             \A n \in RecoveryNames : disk'[n] = disk[n]
      PROVE  RecoveryConsistent'
  BY <1>1, RecoveryShrinks
<1>2. /\ Actors = {"timer", "operator", "recoverer"}
      /\ RecoveryNames \subseteq Names /\ Unpackings \subseteq RecoveryNames
      /\ "retrieved" \in RecoveryNames \ Unpackings
  BY NamesDiffer DEF Actors, Names, RecoveryNames, Unpackings
<1>3. ASSUME NEW a \in {"timer", "operator"}, NEW pc, NEW n, Start(a, n, pc)
      PROVE  jobs'["recoverer"] = jobs["recoverer"]
  BY <1>2, <1>3 DEF Start, Typed, TypeOK
<1>4. ASSUME NEW a \in {"timer", "operator"}, NEW pc, GoTo(a, pc)
      PROVE  jobs'["recoverer"] = jobs["recoverer"]
  BY <1>2, <1>4 DEF GoTo, Typed, TypeOK
<1>5. ASSUME NEW n \in Names \ RecoveryNames, Stage(n)
      PROVE  \A m \in RecoveryNames : disk'[m] = disk[m]
  BY <1>2, <1>5 DEF Stage, Typed, TypeOK
<1>6. ASSUME NEW b \in Bundles, ReadHead(b) PROVE RecoveryConsistent'
  <2>1. b \in Names \ RecoveryNames
    BY NamesDiffer DEF SourceNames
  <2> QED
    BY <1>1, <1>3, <1>5, <1>6, <2>1 DEF ReadHead
<1>7. ASSUME NEW b \in Bundles, VerifyBundle(b) PROVE RecoveryConsistent'
  BY <1>1, <1>3, <1>7 DEF VerifyBundle, content
<1>8. ASSUME NEW b, NEW configured, NEW e, NEW tested,
             BeginSeal(b, configured, e, tested)
      PROVE  RecoveryConsistent'
  <2>1. "package" \in Names \ RecoveryNames
    BY NamesDiffer DEF SourceNames
  <2> QED
    BY <1>1, <1>3, <1>5, <1>8, <2>1 DEF BeginSeal
<1>9. Backup => RecoveryConsistent'
  BY <1>1, <1>4
     DEF Backup, ReadStatus, CopyDatabase, CompareIdentity, RecheckDeployment, content
<1>10. Test => RecoveryConsistent'
  <2> SUFFICES ASSUME RestoreTest PROVE RecoveryConsistent'
    BY DEF Test, Qualify
  <2>1. jobs'["recoverer"] = jobs["recoverer"]
    BY <1>2 DEF RestoreTest, Typed, TypeOK
  <2> QED
    BY <1>1, <2>1 DEF RestoreTest
<1>11. Seal => RecoveryConsistent'
  BY <1>1, <1>4 DEF Seal, HashSources, ArchiveFile, RehashSources, content
<1>12. CASE Upload
  <2>1. /\ At("recoverer", "idle") /\ \A n \in RecoveryNames : disk[n].place = "none"
        /\ UNCHANGED <<disk, jobs>>
    BY <1>12 DEF RecoveryConsistent, Upload
  <2>2. "idle" \notin Publishing
    BY DEF Publishing
  <2> QED
    BY <1>2, <2>1, <2>2 DEF RecoveryConsistent, At
<1>13. ASSUME remote # NoPackage, UNCHANGED <<remote, unpacked>>,
              jobs'["recoverer"].pc \notin Publishing
                \/ jobs'["recoverer"].name \notin Unpackings
                \/ Recoverable(unpacked[jobs'["recoverer"].name]),
              \A n \in Unpackings : disk'[n].place = "final" => disk[n].place = "final"
       PROVE  RecoveryConsistent'
  <2>1. \A files : Recoverable(files) => Recoverable(files)'
    BY <1>13 DEF Recoverable, Fits
  <2> QED
    BY <1>13, <2>1 DEF RecoveryConsistent, Recoverable, Fits
<1>14. ~At("recoverer", "idle") => remote # NoPackage
  BY DEF RecoveryConsistent
<1>15. "idle" \notin Publishing /\ {"download", "compare", "unpack", "check"} \cap Publishing = {}
  BY DEF Publishing
<1>16. CASE BeginRetrieve
  <2>1. jobs'["recoverer"] = [pc |-> "download", name |-> "retrieved"]
    BY <1>2, <1>16, Starting DEF BeginRetrieve
  <2>2. \A n \in Unpackings : disk'[n] = disk[n]
    BY <1>2, <1>16 DEF BeginRetrieve, Stage, Typed, TypeOK
  <2> QED
    BY <1>13, <1>15, <1>16, <2>1, <2>2 DEF BeginRetrieve, content
<1>17. CASE Download
  <2>1. jobs'["recoverer"] = [pc |-> "compare", name |-> jobs["recoverer"].name]
    BY <1>2, <1>17, GoingOn DEF Download
  <2> QED
    BY <1>13, <1>14, <1>15, <1>17, <2>1 DEF Download, content, At
<1>18. CASE CompareDownload
  <2>1. jobs["recoverer"].name = "retrieved"
    BY <1>18, JobsDiffer DEF CompareDownload, At, Directories, RecovererJobs, Publishing
  <2>2. jobs'["recoverer"] = [pc |-> "flush", name |-> jobs["recoverer"].name]
    BY <1>2, <1>18, <2>1, GoingOn DEF CompareDownload
  <2> QED
    BY <1>2, <1>13, <1>14, <1>18, <2>1, <2>2 DEF CompareDownload, content, At
<1>19. ASSUME NEW n \in Unpackings, BeginUnpacking(n) PROVE RecoveryConsistent'
  <2>1. jobs'["recoverer"] = [pc |-> "unpack", name |-> n]
    BY <1>2, <1>19, Starting DEF BeginUnpacking
  <2>2. \A m \in Unpackings : disk'[m].place = "final" => disk[m].place = "final"
    BY <1>2, <1>19 DEF BeginUnpacking, Stage, Staged, Absence, Typed, TypeOK
  <2>3. remote # NoPackage
    BY <1>2, <1>19 DEF BeginUnpacking, Whole, RecoveryConsistent
  <2> QED
    BY <1>13, <1>15, <1>19, <2>1, <2>2, <2>3 DEF BeginUnpacking, content
<1>20. CASE Unpack
  <2> DEFINE name == jobs["recoverer"].name
  <2>1. disk[name].place = "stage" /\ UNCHANGED <<disk, remote>> /\ remote # NoPackage
    BY <1>2, <1>14, <1>20 DEF Unpack, Directories, Placed, At
  <2>2. \A n \in Unpackings : n # name => unpacked'[n] = unpacked[n]
    BY <1>20 DEF Unpack, Typed, TypeOK
  <2>3. jobs'["recoverer"] = [pc |-> "check", name |-> jobs["recoverer"].name]
    BY <1>2, <1>20, GoingOn DEF Unpack
  <2>4. \A files : Recoverable(files) => Recoverable(files)'
    BY <2>1 DEF Recoverable, Fits
  <2>5. \A n \in Unpackings :
          disk'[n].place = "final" => unpacked'[n] = unpacked[n] /\ Recoverable(unpacked[n])
    BY <2>1, <2>2 DEF RecoveryConsistent
  <2> QED
    BY <1>15, <2>1, <2>3, <2>4, <2>5 DEF RecoveryConsistent, Recoverable, Fits
<1>21. CASE CheckUnpacked
  <2>1. \E pc : jobs'["recoverer"] = [pc |-> pc, name |-> jobs["recoverer"].name]
    BY <1>2, <1>21, GoingOn DEF CheckUnpacked
  <2> QED
    BY <1>13, <1>14, <1>21, <2>1 DEF CheckUnpacked, content, At
<1> QED
  BY <1>6, <1>7, <1>8, <1>9, <1>10, <1>11, <1>12, <1>16, <1>17, <1>18, <1>19, <1>20,
     <1>21 DEF Begin, Retrieve, Recover

LEMMA ChangeRecovers ==
  ASSUME Typed, Directories, RecoveryConsistent,
         UNCHANGED vars \/ Surroundings \/ \E a \in Actors : Publish(a) \/ Fail(a)
  PROVE  RecoveryConsistent'
<1>1. /\ Actors = {"timer", "operator", "recoverer"}
      /\ RecoveryNames \subseteq Names /\ Unpackings \subseteq RecoveryNames
      /\ "idle" \notin Publishing /\ Idle.pc = "idle"
  BY NamesDiffer DEF Actors, Names, RecoveryNames, Unpackings, Publishing, Idle
<1>2. ASSUME UNCHANGED <<remote, unpacked, jobs, disk>> PROVE RecoveryConsistent'
  BY <1>2, RecoveryShrinks
<1>3. ASSUME NEW a \in Actors, Flush(a) \/ SyncName(a) PROVE RecoveryConsistent'
  <2> DEFINE n == jobs[a].name
  <2>1. \A m \in Names : disk'[m].place = disk[m].place
    BY <1>3, PlacesKept
  <2>2. CASE a # "recoverer" \/ SyncName(a)
    <3>1. jobs'["recoverer"] = jobs["recoverer"] \/ jobs'["recoverer"].pc = "idle"
      <4>1. a # "recoverer" => jobs'["recoverer"] = jobs["recoverer"]
        BY <1>1, <1>3, GoingOn DEF Flush, SyncName
      <4>2. SyncName(a) => jobs'[a] = [pc |-> "idle", name |-> n]
        BY GoingOn DEF SyncName
      <4> QED
        BY <2>2, <4>1, <4>2
    <3> QED
      BY <1>1, <1>3, <2>1, <3>1, RecoveryShrinks DEF Flush, SyncName, content
  <2>3. CASE a = "recoverer" /\ Flush(a)
    <3>1. /\ jobs'[a] = [pc |-> "rename", name |-> n]
          /\ jobs[a].pc = "flush" /\ jobs[a].pc \in Publishing
          /\ UNCHANGED <<remote, unpacked>>
      BY <1>3, <2>3, GoingOn DEF Flush, At, Publishing, content
    <3>2. \A files : Recoverable(files) => Recoverable(files)'
      BY <3>1 DEF Recoverable, Fits
    <3>3. remote # NoPackage
      BY <2>3, <3>1 DEF RecoveryConsistent, At
    <3> QED
      BY <1>1, <2>1, <2>3, <3>1, <3>2, <3>3 DEF RecoveryConsistent, Recoverable, Fits
  <2> QED
    BY <1>3, <2>2, <2>3
<1>4. ASSUME NEW a \in Actors, Rename(a) PROVE RecoveryConsistent'
  <2> DEFINE n == jobs[a].name
  <2>1. /\ \A m \in Names \ {n} : disk'[m] = disk[m]
        /\ UNCHANGED <<remote, unpacked>> /\ ~At(a, "idle") /\ jobs[a].pc \in Publishing
    BY <1>4 DEF Rename, Typed, TypeOK, content, At, Publishing
  <2>2. CASE a # "recoverer"
    <3>1. jobs'["recoverer"] = jobs["recoverer"]
      BY <1>1, <1>4, <2>2, GoingOn DEF Rename
    <3>2. n \notin RecoveryNames
      BY <2>1, <2>2, HostsDiffer
    <3> QED
      BY <1>1, <2>1, <3>1, <3>2, RecoveryShrinks
  <2>3. CASE a = "recoverer"
    <3>1. \E pc : jobs'[a] = [pc |-> pc, name |-> n]
      BY <1>4, GoingOn DEF Rename
    <3>2. \A files : Recoverable(files) => Recoverable(files)'
      BY <2>1 DEF Recoverable, Fits
    <3>3. jobs'[a].name = n /\ remote # NoPackage
      BY <2>1, <2>3, <3>1 DEF RecoveryConsistent
    <3> QED
      BY <1>1, <2>1, <2>3, <3>2, <3>3 DEF RecoveryConsistent, Recoverable, Fits
  <2> QED
    BY <2>2, <2>3
<1>5. ASSUME NEW a \in Actors, Fail(a) PROVE RecoveryConsistent'
  <2> DEFINE gone == {n \in {jobs[a].name} : disk[n].place = "stage"}
  <2>1. /\ jobs'["recoverer"] = IF a = "recoverer" THEN Idle ELSE jobs["recoverer"]
        /\ \A m \in Names : disk'[m] = IF m \in gone THEN Absence ELSE disk[m]
        /\ \A m \in Unpackings : unpacked'[m] = IF m \in gone THEN NoFiles ELSE unpacked[m]
        /\ remote' = remote /\ ~At(a, "idle")
    BY <1>1, <1>5 DEF Fail, Forget, Typed, TypeOK
  <2>2. a # "recoverer" => \A m \in RecoveryNames : m \notin gone
    BY <2>1, HostsDiffer
  <2>3. Absence.place = "none"
    BY DEF Absence
  <2> HIDE DEF gone
  <2> QED
    BY <1>1, <2>1, <2>2, <2>3, RecoveryShrinks
<1>6. ASSUME NEW actors, NEW names \in SUBSET Names, PowerLoss(actors, names),
             actors = {"recoverer"} \/ names \cap RecoveryNames = {}
      PROVE  RecoveryConsistent'
  <2>1. /\ \A m \in Unpackings \ names : unpacked'[m] = unpacked[m]
        /\ remote' = remote
        /\ \A m \in Unpackings :
             unpacked'[m] = unpacked[m] \/ disk'[m] = Absence
    <3>1. PICK back \in SUBSET names, lost \in SUBSET names :
            LET gone == back \cup {n \in names : disk[n].place = "stage"} IN
            /\ disk' = [n \in Names |->
                 IF n \in gone THEN Absence
                 ELSE [disk[n] EXCEPT !.torn = @ \/ n \in lost]]
            /\ Forget(gone)
      BY <1>6 DEF PowerLoss
    <3> DEFINE gone == back \cup {n \in names : disk[n].place = "stage"}
    <3>2. Forget(gone) /\ \A n \in Names : n \in gone => disk'[n] = Absence
      BY <3>1
    <3> HIDE DEF gone
    <3>3. gone \subseteq names
      BY <3>1 DEF gone
    <3> QED
      BY <1>1, <3>2, <3>3 DEF Forget
  <2>2. Absence.place = "none"
    BY DEF Absence
  <2>3. \A m \in RecoveryNames : disk'[m].place = disk[m].place \/ disk'[m].place = "none"
    BY <1>1, <1>6, <2>2, PowerLossEffect
  <2>4. jobs'["recoverer"] = jobs["recoverer"] \/ jobs'["recoverer"].pc = "idle"
    BY <1>1, <1>6, PowerLossEffect
  <2>5. actors = {"recoverer"} => jobs'["recoverer"].pc = "idle"
    BY <1>1, <1>6, PowerLossEffect
  <2> QED
    BY <1>1, <1>6, <2>1, <2>2, <2>3, <2>4, <2>5, RecoveryShrinks
<1>7. SourceNames \in SUBSET Names /\ SourceNames \cap RecoveryNames = {}
  BY NamesDiffer DEF Names
<1> QED
  BY <1>1, <1>2, <1>3, <1>4, <1>5, <1>6, <1>7
     DEF Publish, Surroundings, Checkout, RestartService, EditTracked, ReplaceDatabase,
         EditConfiguration, Damage, content, vars

LEMMA AlwaysRecovery == Spec => []RecoveryConsistent
<1>1. Typed /\ Directories /\ RecoveryConsistent /\ [Next]_vars => RecoveryConsistent'
  BY CommandRecovers, ChangeRecovers DEF Next
<1> QED
  BY <1>1, InitRecovery, AlwaysDirectories, PTL DEF Spec

\* What is recovered on another host is an intact bundle and the configuration that
\* was hashed when it was sealed, whatever changes, fails or is lost on the way.
THEOREM RecoveriesAreSealed == Spec => []RecoveredIsSealed
<1>1. RecoveryConsistent => RecoveredIsSealed
  BY DEF RecoveryConsistent, RecoveredIsSealed, Recoverable
<1> QED
  BY <1>1, AlwaysRecovery, PTL

-----------------------------------------------------------------------------
(* Evidence *)

LEMMA FailForgets ==
  ASSUME Typed, NEW a \in Actors, Fail(a)
  PROVE  \E gone \in SUBSET Names :
           /\ Forget(gone)
           /\ \A n \in gone : n = jobs[a].name /\ disk[n].place = "stage"
           /\ \A n \in Names : disk'[n] = IF n \in gone THEN Absence ELSE disk[n]
<1>1. jobs[a].name \in Names
  BY DEF Typed, TypeOK
<1> DEFINE gone == {n \in {jobs[a].name} : disk[n].place = "stage"}
<1>2. /\ gone \in SUBSET Names /\ Forget(gone)
      /\ \A n \in gone : n = jobs[a].name /\ disk[n].place = "stage"
      /\ \A n \in Names : disk'[n] = IF n \in gone THEN Absence ELSE disk[n]
  BY <1>1 DEF Fail
<1> QED
  BY <1>2

LEMMA PowerLossForgets ==
  ASSUME Typed, NEW actors, NEW names \in SUBSET Names, PowerLoss(actors, names)
  PROVE  \E gone \in SUBSET names :
           /\ Forget(gone) /\ \A n \in gone : disk'[n] = Absence
           /\ \A n \in names : disk[n].place = "stage" => n \in gone
<1>1. PICK back \in SUBSET names, lost \in SUBSET names :
        LET gone == back \cup {n \in names : disk[n].place = "stage"} IN
        /\ disk' = [n \in Names |->
             IF n \in gone THEN Absence
             ELSE [disk[n] EXCEPT !.torn = @ \/ n \in lost]]
        /\ Forget(gone)
  BY DEF PowerLoss
<1> WITNESS back \cup {n \in names : disk[n].place = "stage"} \in SUBSET names
<1> QED
  BY <1>1

\* A step that makes no evidence, begins no backup and copies no database.
LEMMA EvidenceStays ==
  ASSUME EvidenceConsistent, evidence' = evidence,
         \/ /\ package'.evidence = package.evidence /\ package'.tested = package.tested
            /\ package'.bundle = package.bundle
         \/ package' = NoPackage,
         remote' \in {remote, package},
         \A b \in Bundles :
           /\ \/ disk'[b].place = disk[b].place
              \/ disk'[b].place = "none"
              \/ disk[b].place = "stage" /\ disk'[b].place = "final"
           /\ \/ /\ bundles'[b].commit = bundles[b].commit
                 /\ bundles'[b].schema = bundles[b].schema
              \/ disk[b].place = "stage" /\ disk'[b].place = "none"
           /\ b \in damaged => b \in damaged' \/ disk'[b].place = "none",
         evidence \subseteq Bundles
  PROVE  EvidenceConsistent'
<1>1. \A b \in Bundles : disk'[b].place # "none" => bundles'[b].commit # 0
  BY DEF EvidenceConsistent
<1>2. \A b \in Bundles : Settled(b) => Settled(b)' /\ (Startable(b) => Startable(b)')
  BY DEF Settled, Startable
<1>3. \A e \in evidence : Proves(e)'
  BY <1>2 DEF EvidenceConsistent, Proves, Settled
<1>4. NoPackage.evidence = NoBundle /\ ~NoPackage.tested
  BY DEF NoPackage
<1>5. Certified(remote)' /\ Certified(package)'
  BY <1>2, <1>4 DEF EvidenceConsistent, Certified
<1> QED
  BY <1>1, <1>3, <1>5 DEF EvidenceConsistent

LEMMA InitEvidence == Init => EvidenceConsistent
<1> SUFFICES ASSUME Init PROVE EvidenceConsistent
  OBVIOUS
<1>1. NoPackage.evidence = NoBundle /\ ~NoPackage.tested /\ Absence.place = "none"
  BY DEF NoPackage, Absence
<1>2. \A b \in Bundles : disk[b] = Absence /\ bundles[b] = NoContents
  BY NamesDiffer DEF Init
<1>3. NoContents.schema = NoContents.commit
  BY DEF NoContents
<1> QED
  BY <1>1, <1>2, <1>3, EarlierBundles
     DEF Init, EvidenceConsistent, Proves, Settled, Startable, Certified

LEMMA CommandProves ==
  ASSUME Typed, Directories, EvidenceConsistent,
         Begin \/ Backup \/ Test \/ Seal \/ Upload \/ Retrieve \/ Recover
  PROVE  EvidenceConsistent'
<1>1. /\ Actors = {"timer", "operator", "recoverer"}
      /\ Bundles \subseteq Names /\ evidence \subseteq Bundles
      /\ disk \in [Names -> Directory] /\ bundles \in [Bundles -> Contained]
      /\ package \in Packages
  BY NamesDiffer DEF Actors, Typed, TypeOK, Directory, Contained
<1>2. ASSUME UNCHANGED <<bundles, package, evidence>>, remote' \in {remote, package},
             \A b \in Bundles : disk'[b].place = disk[b].place, damaged \subseteq damaged'
      PROVE  EvidenceConsistent'
  BY <1>1, <1>2, EvidenceStays
<1>3. ASSUME NEW n \in Names \ Bundles, Stage(n)
      PROVE  \A b \in Bundles : disk'[b].place = disk[b].place
  BY <1>1, <1>3 DEF Stage
<1>4. ASSUME NEW b \in Bundles, ReadHead(b) PROVE EvidenceConsistent'
  <2>1. /\ bundles[b] = NoContents /\ b \notin Earlier /\ NoContents.commit = 0
        /\ deployment.head # 0
    BY <1>4, BoundsAreNat DEF ReadHead, NoContents, Typed, TypeOK
  <2>2. ~Settled(b) /\ b \notin evidence
    BY <2>1 DEF EvidenceConsistent, Proves, Settled
  <2>3. bundles'[b].commit # 0 /\ \A c \in Bundles \ {b} : bundles'[c] = bundles[c]
    BY <1>1, <1>4, <2>1 DEF ReadHead, NoContents
  <2>4. \A c \in Bundles \ {b} : disk'[c] = disk[c]
    BY <1>1, <1>4 DEF ReadHead, Stage
  <2>5. UNCHANGED <<package, remote, evidence, damaged>>
    BY <1>4 DEF ReadHead
  <2>6. \A c \in Bundles : disk'[c].place # "none" => bundles'[c].commit # 0
    BY <2>3, <2>4 DEF EvidenceConsistent
  <2>7. \A c \in Bundles : Settled(c) => Settled(c)' /\ (Startable(c) => Startable(c)')
    BY <2>2, <2>3, <2>4 DEF Settled, Startable
  <2>8. \A e \in evidence : Proves(e)'
    BY <1>1, <2>2, <2>4, <2>5, <2>7 DEF EvidenceConsistent, Proves
  <2> QED
    BY <2>5, <2>6, <2>7, <2>8 DEF EvidenceConsistent, Certified
<1>5. ASSUME NEW b \in Bundles, VerifyBundle(b) PROVE EvidenceConsistent'
  BY <1>2, <1>5 DEF VerifyBundle, content
<1>6. ASSUME NEW b \in Bundles, NEW configured \in BOOLEAN,
             NEW e \in Bundles \cup {NoBundle}, NEW tested \in BOOLEAN,
             BeginSeal(b, configured, e, tested), tested => e \in evidence
      PROVE  EvidenceConsistent'
  <2>1. package'.evidence = e /\ package'.tested = tested /\ package'.bundle = b
    BY <1>6 DEF BeginSeal, NoPackage
  <2>2. \A c \in Bundles : disk'[c].place = disk[c].place
    BY <1>3, <1>6, NamesDiffer DEF BeginSeal
  <2>3. UNCHANGED <<bundles, remote, evidence, damaged>> /\ e \in {NoBundle, b}
    BY <1>6 DEF BeginSeal, Fits
  <2>4. \A c \in Bundles : (Settled(c) <=> Settled(c)') /\ (Startable(c) <=> Startable(c)')
    BY <2>2, <2>3 DEF Settled, Startable
  <2>5. \A x \in evidence : Proves(x)'
    BY <1>1, <2>2, <2>3, <2>4 DEF EvidenceConsistent, Proves
  <2>6. tested => e = b /\ Settled(b) /\ Startable(b)
    BY <1>1, <1>6, <2>3, NoBundleIsNone
       DEF EvidenceConsistent, Proves, BeginSeal, Whole
  <2>7. Certified(package)' /\ Certified(remote)'
    BY <2>1, <2>3, <2>4, <2>6 DEF EvidenceConsistent, Certified
  <2> QED
    BY <2>2, <2>3, <2>5, <2>7 DEF EvidenceConsistent
<1>7. CASE ReadStatus
  <2>1. \A b \in Bundles : /\ bundles'[b].commit = bundles[b].commit
                           /\ bundles'[b].schema = bundles[b].schema
    BY <1>1, <1>7 DEF ReadStatus, Contained
  <2> QED
    BY <1>1, <1>7, <2>1, EvidenceStays DEF ReadStatus
<1>8. CASE CopyDatabase
  <2> DEFINE b == jobs["timer"].name
  <2>1. disk[b].place = "stage" /\ b \in Bundles
    BY <1>1, <1>8, JobsDiffer DEF CopyDatabase, At, Directories, Placed, TimerJobs
  <2>2. ~Settled(b) /\ b \notin evidence
    BY <2>1 DEF EvidenceConsistent, Proves, Settled
  <2>3. \A c \in Bundles \ {b} : bundles'[c] = bundles[c]
    BY <1>1, <1>8 DEF CopyDatabase
  <2>4. \A c \in Bundles : bundles'[c].commit = bundles[c].commit
    BY <1>1, <1>8 DEF CopyDatabase, Contained
  <2>5. UNCHANGED <<disk, evidence, package, remote, damaged>>
    BY <1>8 DEF CopyDatabase
  <2>6. \A c \in Bundles : Settled(c) => Settled(c)' /\ (Startable(c) => Startable(c)')
    BY <2>2, <2>3, <2>4, <2>5 DEF Settled, Startable
  <2>7. \A e \in evidence : Proves(e)'
    BY <1>1, <2>5, <2>6 DEF EvidenceConsistent, Proves
  <2> QED
    BY <2>4, <2>5, <2>6, <2>7 DEF EvidenceConsistent, Certified
<1>9. CompareIdentity \/ RecheckDeployment => EvidenceConsistent'
  BY <1>2 DEF CompareIdentity, RecheckDeployment, content
<1>10. Test => EvidenceConsistent'
  <2> SUFFICES ASSUME RestoreTest PROVE EvidenceConsistent'
    BY DEF Test, Qualify
  <2> DEFINE b == jobs["operator"].name
  <2>1. disk[b].place = "final" /\ b \in Bundles
    BY <1>1, JobsDiffer
       DEF RestoreTest, At, Directories, Placed, OperatorJobs, Publishing
  <2>2. Proves(b)
    BY <2>1 DEF EvidenceConsistent, Proves, Settled, RestoreTest
  <2>3. /\ evidence' = evidence \cup {b}
        /\ UNCHANGED <<bundles, disk, package, remote, damaged>>
    BY DEF RestoreTest
  <2>4. \A c \in Bundles : (Settled(c) <=> Settled(c)') /\ (Startable(c) <=> Startable(c)')
    BY <2>3 DEF Settled, Startable
  <2>5. \A e \in evidence' : Proves(e)'
    BY <1>1, <2>1, <2>2, <2>3, <2>4 DEF EvidenceConsistent, Proves
  <2> QED
    BY <2>3, <2>4, <2>5 DEF EvidenceConsistent, Certified
<1>11. ASSUME HashSources \/ \E f \in Files : ArchiveFile(f) PROVE EvidenceConsistent'
  <2>1. /\ package'.evidence = package.evidence /\ package'.tested = package.tested
        /\ package'.bundle = package.bundle
    BY <1>1, <1>11 DEF HashSources, ArchiveFile, Packages
  <2> QED
    BY <1>1, <1>11, <2>1, EvidenceStays DEF HashSources, ArchiveFile
<1>12. RehashSources \/ Upload => EvidenceConsistent'
  BY <1>2 DEF RehashSources, Upload, content
<1>13. BeginRetrieve => EvidenceConsistent'
  BY <1>2, <1>3, NamesDiffer DEF BeginRetrieve, content
<1>14. Download \/ CompareDownload \/ CheckUnpacked => EvidenceConsistent'
  BY <1>2 DEF Download, CompareDownload, CheckUnpacked, content
<1>15. ASSUME NEW n \in Unpackings, BeginUnpacking(n) PROVE EvidenceConsistent'
  <2>1. n \in Names \ Bundles
    BY NamesDiffer DEF Unpackings
  <2> QED
    BY <1>2, <1>3, <1>15, <2>1 DEF BeginUnpacking, content
<1>16. Unpack => EvidenceConsistent'
  BY <1>2 DEF Unpack
<1> QED
  BY <1>4, <1>5, <1>6, <1>7, <1>8, <1>9, <1>10, <1>11, <1>12, <1>13, <1>14, <1>15,
     <1>16 DEF Begin, Backup, Seal, Retrieve, Recover

LEMMA ForgetProves ==
  ASSUME Typed, EvidenceConsistent, NEW gone, Forget(gone),
         \A b \in Bundles : disk'[b].place = disk[b].place \/ disk'[b].place = "none",
         \A b \in Bundles \cap gone : disk'[b] = Absence
  PROVE  EvidenceConsistent'
<1>1. Absence.place = "none"
  BY DEF Absence
<1>2. \A b \in Bundles :
        \/ bundles'[b] = bundles[b]
        \/ disk[b].place = "stage" /\ disk'[b].place = "none"
  BY <1>1 DEF Forget, Typed, TypeOK
<1>3. /\ package' \in {package, NoPackage} /\ UNCHANGED <<evidence, remote>>
      /\ evidence \subseteq Bundles
      /\ \A b \in Bundles : b \in damaged => b \in damaged' \/ disk'[b].place = "none"
  BY <1>1 DEF Forget, Typed, TypeOK
<1> QED
  BY <1>2, <1>3, EvidenceStays

LEMMA ChangeProves ==
  ASSUME Typed, Directories, EvidenceConsistent,
         UNCHANGED vars \/ Surroundings \/ \E a \in Actors : Publish(a) \/ Fail(a)
  PROVE  EvidenceConsistent'
<1>1. /\ Bundles \subseteq Names /\ evidence \subseteq Bundles
      /\ disk \in [Names -> Directory] /\ bundles \in [Bundles -> Contained]
  BY NamesDiffer DEF Typed, TypeOK, Directory, Contained
<1>2. Absence.place = "none"
  BY DEF Absence
<1>3. ASSUME NEW a \in Actors, Flush(a) \/ SyncName(a) PROVE EvidenceConsistent'
  <2>1. \A b \in Bundles : disk'[b].place = disk[b].place
    BY <1>1, <1>3, PlacesKept
  <2> QED
    BY <1>1, <1>3, <2>1, EvidenceStays DEF Flush, SyncName, content
<1>4. ASSUME NEW a \in Actors, Rename(a) PROVE EvidenceConsistent'
  <2>1. disk[jobs[a].name].place = "stage" /\ jobs[a].name \in Names
    BY <1>4 DEF Rename, At, Directories, Placed, Typed, TypeOK
  <2>2. disk'[jobs[a].name].place = "final"
        /\ \A n \in Names \ {jobs[a].name} : disk'[n] = disk[n]
    BY <1>1, <1>4, <2>1 DEF Rename, Directory
  <2>3. UNCHANGED <<content, damaged>>
    BY <1>4 DEF Rename
  <2> QED
    BY <1>1, <2>1, <2>2, <2>3, EvidenceStays DEF content
<1>5. ASSUME NEW a \in Actors, Fail(a) PROVE EvidenceConsistent'
  <2>1. PICK gone \in SUBSET Names :
          /\ Forget(gone)
          /\ \A n \in Names : disk'[n] = IF n \in gone THEN Absence ELSE disk[n]
    BY <1>5, FailForgets
  <2> QED
    BY <1>1, <1>2, <2>1, ForgetProves
<1>6. ASSUME NEW actors, NEW names \in SUBSET Names, PowerLoss(actors, names)
      PROVE  EvidenceConsistent'
  <2>1. PICK gone \in SUBSET names : Forget(gone) /\ \A n \in gone : disk'[n] = Absence
    BY <1>6, PowerLossForgets
  <2>2. \A b \in Bundles : disk'[b].place = disk[b].place \/ disk'[b].place = "none"
    BY <1>1, <1>2, <1>6, PowerLossEffect
  <2> QED
    BY <1>1, <2>1, <2>2, ForgetProves
<1>7. ASSUME NEW commit \in 1 .. MaxHead, Checkout(commit) PROVE EvidenceConsistent'
  <2>1. \A b \in Bundles : /\ bundles'[b].commit = bundles[b].commit
                           /\ bundles'[b].schema = bundles[b].schema
    BY <1>1, <1>7 DEF Checkout, Contained
  <2> QED
    BY <1>1, <1>7, <2>1, EvidenceStays DEF Checkout
<1>8. UNCHANGED <<content, disk>> /\ damaged \subseteq damaged' => EvidenceConsistent'
  BY <1>1, EvidenceStays DEF content
<1>9. SourceNames \in SUBSET Names /\ RecoveryNames \in SUBSET Names
  BY DEF Names
<1> QED
  BY <1>3, <1>4, <1>5, <1>6, <1>7, <1>8, <1>9
     DEF Publish, Surroundings, RestartService, EditTracked, ReplaceDatabase,
         EditConfiguration, Damage, vars

\* A report that is recovered with a bundle names it, and no report gets into a package
\* that says that a release was started which does not start on the snapshot there.
THEOREM EvidenceIsTrue == Spec => []EvidenceIsOfItsBundle
<1>1. EvidenceConsistent => EvidenceIsOfItsBundle
  BY DEF EvidenceConsistent, Certified, EvidenceIsOfItsBundle
<1>2. Typed /\ Directories /\ EvidenceConsistent /\ [Next]_vars => EvidenceConsistent'
  BY CommandProves, ChangeProves DEF Next
<1> QED
  BY <1>1, <1>2, InitEvidence, AlwaysDirectories, PTL DEF Spec

-----------------------------------------------------------------------------
(* Backups *)

PairedOne(b) == bundles[b].opened /\ (bundles[b].under \/ bundles[b].moved >= 2)
Paired == BackupConsistent /\ \A b \in Bundles : disk[b].place = "final" => PairedOne(b)

\* A step that neither makes the backup go on nor changes what it watches.
LEMMA BackupUntouched ==
  ASSUME Paired,
         deployment'.head = deployment.head,
         deployment'.database = deployment.database,
         \/ jobs'["timer"].pc = "idle"
         \/ /\ jobs'["timer"] = jobs["timer"]
            /\ bundles'[jobs["timer"].name] = bundles[jobs["timer"].name],
         \A b \in Bundles :
           disk'[b].place = "final" =>
             disk[b].place = "final" /\ bundles'[b] = bundles[b]
  PROVE  Paired'
<1>1. BackupConsistent'
  <2>1. CASE jobs'["timer"].pc = "idle"
    BY <2>1 DEF BackupConsistent, Publishing
  <2>2. CASE /\ jobs'["timer"] = jobs["timer"]
             /\ bundles'[jobs["timer"].name] = bundles[jobs["timer"].name]
    BY <2>2 DEF Paired, BackupConsistent
  <2> QED
    BY <2>1, <2>2
<1> QED
  BY <1>1 DEF Paired, PairedOne

LEMMA InitPaired == Init => Paired
<1>1. Idle.pc = "idle" /\ Absence.place = "none" /\ "timer" \in Actors
  BY DEF Idle, Absence, Actors
<1> QED
  BY <1>1, NamesDiffer DEF Init, Paired, BackupConsistent, Publishing

\* A step of the backup that has not published its bundle.
LEMMA BackupGoesOn ==
  ASSUME Typed, Directories, Paired, Backup
  PROVE  Paired'
<1> DEFINE b == jobs["timer"].name
           old == bundles[b]
<1>1. /\ "timer" \in Actors /\ b \in Bundles /\ disk[b].place = "stage"
      /\ bundles \in [Bundles -> Contained] /\ old \in Contained
      /\ UNCHANGED <<disk, deployment>>
      /\ deployment.database \in Nat /\ deployment.head \in Nat
  <2>1. "timer" \in Actors /\ ~At("timer", "idle") /\ ~At("timer", "sync") /\ ~At("timer", "run")
    BY DEF Actors, Backup, ReadStatus, CopyDatabase, CompareIdentity,
           RecheckDeployment, At
  <2>2. b \in Bundles /\ disk[b].place = "stage"
    BY <2>1, JobsDiffer DEF Directories, Placed, At, TimerJobs
  <2>3. UNCHANGED <<disk, deployment>>
    BY DEF Backup, ReadStatus, CopyDatabase, CompareIdentity, RecheckDeployment,
           surroundings
  <2>4. bundles \in [Bundles -> Contained]
    BY DEF Typed, TypeOK, Contained
  <2>5. deployment.database \in Nat /\ deployment.head \in Nat
    BY BoundsAreNat DEF Typed, TypeOK
  <2> QED
    BY <2>1, <2>2, <2>3, <2>4, <2>5
<1>2. ASSUME \A c \in Bundles \ {b} : bundles'[c] = bundles[c], BackupConsistent'
      PROVE  Paired'
  BY <1>1, <1>2 DEF Paired, PairedOne
<1>3. /\ old.source \in Nat /\ old.moved \in Nat
      /\ old.opened \in BOOLEAN /\ old.under \in BOOLEAN
  BY <1>1, BoundsAreNat DEF Contained
<1>4. CASE ReadStatus
  <2>1. jobs'["timer"] = [pc |-> "copy", name |-> b] /\ jobs["timer"].pc = "status"
    BY <1>1, <1>4, GoingOn DEF ReadStatus, At
  <2>2. bundles'[b] = [old EXCEPT !.source = deployment.database]
        /\ \A c \in Bundles \ {b} : bundles'[c] = bundles[c]
    BY <1>1, <1>4 DEF ReadStatus
  <2>3. /\ bundles'[b].source = deployment.database
        /\ bundles'[b].commit = old.commit /\ bundles'[b].moved = old.moved
    BY <1>1, <2>2 DEF Contained
  <2>4. BackupConsistent'
    BY <1>1, <2>1, <2>3 DEF Paired, BackupConsistent, Publishing
  <2> QED
    BY <1>2, <2>2, <2>4
<1>5. CASE CopyDatabase
  <2>1. jobs'["timer"] = [pc |-> "identity", name |-> b] /\ jobs["timer"].pc = "copy"
    BY <1>1, <1>5, GoingOn DEF CopyDatabase, At
  <2> DEFINE o == deployment.database = old.source
             u == deployment.head = old.commit
  <2>2. bundles'[b] = [old EXCEPT !.schema = deployment.schema, !.opened = o, !.under = u]
        /\ \A c \in Bundles \ {b} : bundles'[c] = bundles[c]
    BY <1>1, <1>5 DEF CopyDatabase
  <2>3. o \in BOOLEAN /\ u \in BOOLEAN
    OBVIOUS
  <2>4. /\ (o <=> deployment.database = old.source)
        /\ (u <=> deployment.head = old.commit)
    OBVIOUS
  <2> HIDE DEF o, u
  <2>5. /\ bundles'[b].source = old.source
        /\ bundles'[b].commit = old.commit /\ bundles'[b].moved = old.moved
        /\ bundles'[b].opened = o /\ bundles'[b].under = u
    BY <1>1, <2>2, <2>3 DEF Contained
  <2>6. /\ deployment.head # old.commit => old.moved >= 1
        /\ old.source <= deployment.database
    BY <2>1 DEF Paired, BackupConsistent
  <2>7. BackupConsistent'
    <3>1. bundles'[b].opened \/ old.source < deployment.database
      BY <1>1, <1>3, <2>4, <2>5, <2>6
    <3>2. bundles'[b].under \/ (deployment.head # old.commit /\ old.moved >= 1)
      BY <2>4, <2>5, <2>6
    <3> QED
      BY <1>1, <2>1, <2>5, <2>6, <3>1, <3>2 DEF BackupConsistent, Publishing
  <2> QED
    BY <1>2, <2>2, <2>7
<1>6. CASE CompareIdentity
  <2>1. jobs'["timer"] = [pc |-> "recheck", name |-> b] /\ jobs["timer"].pc = "identity"
    BY <1>1, <1>6, GoingOn DEF CompareIdentity, At
  <2>2. bundles' = bundles /\ deployment.database = old.source
    BY <1>6 DEF CompareIdentity, content
  <2>3. old.opened
    BY <1>1, <1>3, <2>1, <2>2 DEF Paired, BackupConsistent
  <2>4. BackupConsistent'
    BY <1>1, <2>1, <2>2, <2>3 DEF Paired, BackupConsistent, Publishing
  <2> QED
    BY <1>2, <2>2, <2>4
<1>7. CASE RecheckDeployment
  <2>1. jobs'["timer"] = [pc |-> "flush", name |-> b] /\ jobs["timer"].pc = "recheck"
    BY <1>1, <1>7, GoingOn DEF RecheckDeployment, At
  <2>2. bundles' = bundles /\ deployment.head = old.commit
    BY <1>7 DEF RecheckDeployment, content
  <2>3. old.opened /\ (old.under \/ old.moved >= 2)
    BY <2>1, <2>2 DEF Paired, BackupConsistent
  <2>4. BackupConsistent'
    BY <1>1, <2>1, <2>2, <2>3 DEF Paired, BackupConsistent, Publishing
  <2> QED
    BY <1>2, <2>2, <2>4
<1> QED
  BY <1>4, <1>5, <1>6, <1>7 DEF Backup

LEMMA CommandPairs ==
  ASSUME Typed, Directories, Paired,
         Begin \/ Backup \/ Test \/ Seal \/ Upload \/ Retrieve \/ Recover
  PROVE  Paired'
<1>1. /\ Actors = {"timer", "operator", "recoverer"} /\ Bundles \subseteq Names
      /\ bundles \in [Bundles -> Contained] /\ disk \in [Names -> Directory]
      /\ jobs \in [Actors -> [pc : Pcs, name : Names]]
  BY NamesDiffer DEF Actors, Typed, TypeOK, Contained, Directory
<1>2. ASSUME UNCHANGED <<deployment, bundles>>, jobs'["timer"] = jobs["timer"],
             \A b \in Bundles : disk'[b] = disk[b]
      PROVE  Paired'
  BY <1>2, BackupUntouched
<1>3. ASSUME NEW a \in {"operator", "recoverer"}, NEW pc, NEW n, Start(a, n, pc)
      PROVE  jobs'["timer"] = jobs["timer"]
  BY <1>1, <1>3 DEF Start
<1>4. ASSUME NEW a \in {"operator", "recoverer"}, NEW pc, GoTo(a, pc)
      PROVE  jobs'["timer"] = jobs["timer"]
  BY <1>1, <1>4 DEF GoTo
<1>5. ASSUME NEW n \in Names \ Bundles, Stage(n)
      PROVE  \A b \in Bundles : disk'[b] = disk[b]
  BY <1>1, <1>5 DEF Stage
<1>6. ASSUME NEW b \in Bundles, ReadHead(b) PROVE Paired'
  <2>1. jobs'["timer"] = [pc |-> "status", name |-> b]
    BY <1>1, <1>6, Starting DEF ReadHead
  <2>2. /\ bundles'[b].commit = deployment.head
        /\ \A c \in Bundles \ {b} : bundles'[c] = bundles[c]
        /\ UNCHANGED deployment
    BY <1>1, <1>6 DEF ReadHead, NoContents, surroundings
  <2>3. disk'[b].place = "stage" /\ \A c \in Bundles \ {b} : disk'[c] = disk[c]
    BY <1>1, <1>6 DEF ReadHead, Stage, Staged, Absence
  <2>4. BackupConsistent'
    BY <2>1, <2>2 DEF BackupConsistent, Publishing
  <2> QED
    BY <2>2, <2>3, <2>4 DEF Paired, PairedOne
<1>7. ASSUME NEW b \in Bundles, VerifyBundle(b) PROVE Paired'
  BY <1>2, <1>3, <1>7 DEF VerifyBundle, content, surroundings
<1>8. ASSUME NEW b, NEW configured, NEW e, NEW tested,
             BeginSeal(b, configured, e, tested) PROVE Paired'
  BY <1>2, <1>3, <1>5, <1>8, NamesDiffer DEF BeginSeal, surroundings
<1>9. Test => Paired'
  <2> SUFFICES ASSUME RestoreTest PROVE Paired'
    BY DEF Test, Qualify
  <2>1. jobs'["timer"] = jobs["timer"]
    BY <1>1 DEF RestoreTest
  <2> QED
    BY <1>2, <2>1 DEF RestoreTest, surroundings
<1>10. Seal => Paired'
  BY <1>2, <1>4 DEF Seal, HashSources, ArchiveFile, RehashSources, content, surroundings
<1>11. Upload => Paired'
  BY <1>2 DEF Upload, surroundings
<1>12. Retrieve => Paired'
  BY <1>2, <1>3, <1>4, <1>5, NamesDiffer
     DEF Retrieve, BeginRetrieve, Download, CompareDownload, content, surroundings
<1>13. ASSUME NEW n \in Unpackings, BeginUnpacking(n) PROVE Paired'
  <2>1. n \in Names \ Bundles
    BY NamesDiffer DEF Unpackings
  <2> QED
    BY <1>2, <1>3, <1>5, <1>13, <2>1 DEF BeginUnpacking, content, surroundings
<1>14. Unpack \/ CheckUnpacked => Paired'
  BY <1>2, <1>4 DEF Unpack, CheckUnpacked, content, surroundings
<1> QED
  BY <1>6, <1>7, <1>8, <1>9, <1>10, <1>11, <1>12, <1>13, <1>14, BackupGoesOn
     DEF Begin, Recover

\* Every departure of HEAD is counted, and one is not enough to come back.
LEMMA CheckoutPairs ==
  ASSUME Typed, Directories, Paired, NEW commit \in 1 .. MaxHead, Checkout(commit)
  PROVE  Paired'
<1>1. /\ bundles \in [Bundles -> Contained]
      /\ \A b \in Bundles : bundles[b].moved \in Nat
      /\ "timer" \in Actors /\ jobs["timer"] \in [pc : Pcs, name : Names]
  BY BoundsAreNat DEF Typed, TypeOK, Contained, Actors
<1>2. ASSUME NEW b \in Bundles
      PROVE  /\ bundles'[b].opened = bundles[b].opened
             /\ bundles'[b].under = bundles[b].under
             /\ bundles'[b].commit = bundles[b].commit
             /\ bundles'[b].source = bundles[b].source
             /\ bundles'[b].moved >= bundles[b].moved
             /\ bundles'[b].moved \in Nat
             /\ jobs["timer"].name = b /\ jobs["timer"].pc # "idle" =>
                  bundles'[b].moved = bundles[b].moved + 1
  <2>1. \/ bundles'[b] = [bundles[b] EXCEPT !.moved = bundles[b].moved + 1]
        \/ /\ bundles'[b] = bundles[b]
           /\ jobs["timer"] \notin [pc : Pcs \ {"idle"}, name : {b}]
    BY DEF Checkout
  <2>2. jobs["timer"].name = b /\ jobs["timer"].pc # "idle" =>
          jobs["timer"] \in [pc : Pcs \ {"idle"}, name : {b}]
    BY <1>1
  <2> DEFINE r == [bundles[b] EXCEPT !.moved = bundles[b].moved + 1]
  <2>3. /\ r.opened = bundles[b].opened /\ r.under = bundles[b].under
        /\ r.commit = bundles[b].commit /\ r.source = bundles[b].source
        /\ r.moved = bundles[b].moved + 1
    BY <1>1 DEF Contained
  <2> HIDE DEF r
  <2>4. CASE bundles'[b] = r
    BY <1>1, <2>3, <2>4
  <2>5. CASE /\ bundles'[b] = bundles[b]
             /\ jobs["timer"] \notin [pc : Pcs \ {"idle"}, name : {b}]
    BY <1>1, <2>2, <2>5
  <2> QED
    BY <2>1, <2>4, <2>5 DEF r
<1>3. /\ deployment'.database = deployment.database
      /\ deployment'.head = commit /\ commit # deployment.head
      /\ UNCHANGED <<jobs, disk>>
  BY DEF Checkout, Typed, TypeOK
<1>4. BackupConsistent'
  <2>1. CASE jobs["timer"].pc = "idle"
    BY <1>3, <2>1 DEF BackupConsistent, Publishing
  <2>2. CASE jobs["timer"].pc # "idle"
    <3> DEFINE b == jobs["timer"].name
    <3>1. b \in Bundles
      BY <2>2, JobsDiffer DEF Directories, At, TimerJobs
    <3>2. bundles'[b].moved = bundles[b].moved + 1 /\ bundles[b].moved \in Nat
      BY <1>1, <1>2, <2>2, <3>1
    <3> QED
      BY <1>2, <1>3, <3>1, <3>2 DEF Paired, BackupConsistent
  <2> QED
    BY <2>1, <2>2
<1>5. ASSUME NEW b \in Bundles, disk'[b].place = "final" PROVE PairedOne(b)'
  <2>1. PairedOne(b)
    BY <1>3, <1>5 DEF Paired
  <2> QED
    BY <1>1, <1>2, <2>1 DEF PairedOne
<1> QED
  BY <1>4, <1>5 DEF Paired

LEMMA ChangePairs ==
  ASSUME Typed, Directories, Paired,
         UNCHANGED vars \/ Surroundings \/ \E a \in Actors : Publish(a) \/ Fail(a)
  PROVE  Paired'
<1>1. /\ Actors = {"timer", "operator", "recoverer"} /\ Bundles \subseteq Names
      /\ bundles \in [Bundles -> Contained] /\ disk \in [Names -> Directory]
      /\ jobs \in [Actors -> [pc : Pcs, name : Names]]
      /\ Absence.place = "none" /\ Idle.pc = "idle"
  BY NamesDiffer DEF Actors, Typed, TypeOK, Contained, Directory, Absence, Idle
<1>2. ASSUME UNCHANGED bundles, deployment'.head = deployment.head,
             deployment'.database = deployment.database, UNCHANGED <<jobs, disk>>
      PROVE  Paired'
  BY <1>2, BackupUntouched
<1>3. ASSUME NEW a \in Actors, Flush(a) \/ SyncName(a) PROVE Paired'
  <2>1. \A b \in Bundles : disk'[b].place = disk[b].place
    BY <1>1, <1>3, PlacesKept
  <2>2. UNCHANGED <<deployment, bundles>>
    BY <1>3 DEF Flush, SyncName, surroundings, content
  <2>3. CASE a # "timer" \/ SyncName(a)
    <3>1. a # "timer" => jobs'["timer"] = jobs["timer"]
      BY <1>1, <1>3, GoingOn DEF Flush, SyncName
    <3>2. SyncName(a) => jobs'[a] = [pc |-> "idle", name |-> jobs[a].name]
      BY GoingOn DEF SyncName
    <3> QED
      BY <2>1, <2>2, <2>3, <3>1, <3>2, BackupUntouched
  <2>4. CASE a = "timer" /\ Flush(a)
    <3>1. jobs'[a] = [pc |-> "rename", name |-> jobs[a].name] /\ jobs[a].pc = "flush"
      BY <2>4, GoingOn DEF Flush, At
    <3>2. BackupConsistent'
      BY <2>2, <2>4, <3>1 DEF Paired, BackupConsistent, Publishing
    <3> QED
      BY <2>1, <2>2, <3>2 DEF Paired, PairedOne
  <2> QED
    BY <1>3, <2>3, <2>4
<1>4. ASSUME NEW a \in Actors, Rename(a) PROVE Paired'
  <2>1. /\ \A n \in Names \ {jobs[a].name} : disk'[n] = disk[n]
        /\ UNCHANGED <<deployment, bundles>> /\ jobs[a].pc = "rename"
    BY <1>1, <1>4 DEF Rename, surroundings, content, At
  <2>2. CASE a # "timer"
    <3>1. jobs[a].name \notin Bundles
      <4>1. a = "operator" \/ a = "recoverer"
        BY <1>1, <2>2
      <4> QED
        BY <2>1, <4>1, JobsDiffer, NamesDiffer
           DEF Directories, At, OperatorJobs, RecovererJobs, RecoveryNames, Unpackings
    <3>2. jobs'["timer"] = jobs["timer"]
      BY <1>1, <1>4, <2>2, GoingOn DEF Rename
    <3> QED
      BY <1>1, <2>1, <3>1, <3>2, BackupUntouched
  <2>3. CASE a = "timer"
    <3>1. \E pc \in {"idle", "sync"} : jobs'[a] = [pc |-> pc, name |-> jobs[a].name]
      BY <1>4, GoingOn DEF Rename
    <3>2. BackupConsistent'
      BY <2>1, <2>3, <3>1 DEF Paired, BackupConsistent, Publishing
    <3>3. jobs[a].name \in Bundles => PairedOne(jobs[a].name)
      BY <2>1, <2>3 DEF Paired, BackupConsistent, Publishing, PairedOne
    <3> QED
      BY <1>1, <2>1, <3>2, <3>3 DEF Paired, PairedOne
  <2> QED
    BY <2>2, <2>3
<1>5. ASSUME NEW a \in Actors, Fail(a) PROVE Paired'
  <2>1. PICK gone \in SUBSET Names :
          /\ Forget(gone)
          /\ \A n \in gone : n = jobs[a].name /\ disk[n].place = "stage"
          /\ \A n \in Names : disk'[n] = IF n \in gone THEN Absence ELSE disk[n]
    BY <1>5, FailForgets
  <2>2. /\ jobs'["timer"] = IF a = "timer" THEN Idle ELSE jobs["timer"]
        /\ UNCHANGED deployment /\ ~At(a, "idle")
    BY <1>1, <1>5 DEF Fail, surroundings
  <2>3. \A b \in Bundles \ gone : bundles'[b] = bundles[b]
    BY <1>1, <2>1 DEF Forget
  <2>4. CASE a = "timer" \/ At("timer", "idle")
    BY <1>1, <2>1, <2>2, <2>3, <2>4, BackupUntouched DEF At
  <2>5. CASE a # "timer" /\ ~At("timer", "idle")
    <3>1. jobs["timer"].name \in Bundles
      BY <2>5, JobsDiffer DEF Directories, TimerJobs
    <3>2. jobs["timer"].name \notin gone
      BY <1>1, <2>1, <2>2, <2>5, Apart
    <3> QED
      BY <1>1, <2>1, <2>2, <2>3, <2>5, <3>1, <3>2, BackupUntouched
  <2> QED
    BY <2>4, <2>5
<1>6. ASSUME NEW actors, NEW names \in SUBSET Names, PowerLoss(actors, names),
             "timer" \in actors \/ names \cap Bundles = {}
      PROVE  Paired'
  <2>1. PICK gone \in SUBSET names : Forget(gone) /\ \A n \in gone : disk'[n] = Absence
    BY <1>6, PowerLossForgets
  <2>2. \A b \in Bundles : disk'[b].place = disk[b].place \/ disk'[b].place = "none"
    BY <1>1, <1>6, PowerLossEffect
  <2>3. UNCHANGED deployment
    BY <1>6 DEF PowerLoss, surroundings
  <2>4. \A b \in Bundles \ gone : bundles'[b] = bundles[b]
    BY <1>1, <2>1 DEF Forget
  <2>5. jobs'["timer"] = IF "timer" \in actors THEN Idle ELSE jobs["timer"]
    BY <1>1, <1>6, PowerLossEffect
  <2>6. ASSUME "timer" \notin actors PROVE bundles' = bundles
    <3>1. bundles' = [b \in Bundles |->
            IF b \in gone /\ disk[b].place = "stage" THEN NoContents ELSE bundles[b]]
      BY <2>1 DEF Forget
    <3> QED
      BY <1>1, <1>6, <2>1, <2>6, <3>1
  <2> QED
    BY <1>1, <2>1, <2>2, <2>3, <2>4, <2>5, <2>6, BackupUntouched
<1>7. CASE ReplaceDatabase
  <2>1. /\ deployment'.head = deployment.head
        /\ deployment'.database = deployment.database + 1
        /\ deployment.database \in Nat
        /\ UNCHANGED <<bundles, jobs, disk>>
    BY <1>7, BoundsAreNat DEF ReplaceDatabase, content, Typed, TypeOK
  <2>2. BackupConsistent'
    <3>1. CASE At("timer", "idle")
      BY <2>1, <3>1 DEF BackupConsistent, At, Publishing
    <3>2. CASE ~At("timer", "idle")
      <4>1. jobs["timer"].name \in Bundles
        BY <3>2, JobsDiffer DEF Directories, TimerJobs
      <4>2. bundles[jobs["timer"].name].source \in Nat
        BY <1>1, <4>1, BoundsAreNat DEF Contained
      <4> QED
        BY <2>1, <4>2 DEF Paired, BackupConsistent
    <3> QED
      BY <3>1, <3>2
  <2> QED
    BY <2>1, <2>2 DEF Paired, PairedOne
<1>8. RestartService \/ EditTracked => Paired'
  BY <1>2 DEF RestartService, EditTracked, content, Typed, TypeOK
<1>9. EditConfiguration \/ (\E n \in Names : Damage(n)) \/ UNCHANGED vars => Paired'
  BY <1>2 DEF EditConfiguration, Damage, content, vars, surroundings
<1>10. /\ SourceNames \in SUBSET Names /\ RecoveryNames \in SUBSET Names
       /\ RecoveryNames \cap Bundles = {}
  BY NamesDiffer DEF Names, SourceNames
<1> QED
  BY <1>3, <1>4, <1>5, <1>6, <1>7, <1>8, <1>9, <1>10, CheckoutPairs
     DEF Publish, Surroundings

\* The snapshot of a published bundle is of the database that was in place and of the
\* release that the bundle carries, unless HEAD moved away and came back.
THEOREM BackupsArePaired == Spec => []PairedWithItsRelease
<1>1. Paired => PairedWithItsRelease
  BY DEF Paired, PairedOne, PairedWithItsRelease
<1>2. Typed /\ Directories /\ Paired /\ [Next]_vars => Paired'
  BY CommandPairs, ChangePairs DEF Next
<1> QED
  BY <1>1, <1>2, InitPaired, AlwaysDirectories, PTL DEF Spec

-----------------------------------------------------------------------------
(* What is published stays as it is *)

PlacesStay ==
  \A n \in Names :
    disk[n].place = "final" =>
      disk'[n].place = "final" \/ (disk'[n].place = "none" /\ ~disk[n].named)

ContentsStay ==
  /\ \A b \in Bundles :
       disk[b].place = "final" =>
         [bundles'[b] EXCEPT !.moved = 0] = [bundles[b] EXCEPT !.moved = 0]
  /\ disk["package"].place = "final" =>
       package' = package \/ disk'["package"].place = "none"
  /\ \A n \in Unpackings :
       disk[n].place = "final" =>
         unpacked'[n] = unpacked[n] \/ disk'[n].place = "none"

RecordsStay ==
  evidence \subseteq evidence' /\ (remote # NoPackage => remote' = remote)

LEMMA ContentsUntouched ==
  ASSUME UNCHANGED <<bundles, package, unpacked>>
  PROVE  ContentsStay
BY DEF ContentsStay

LEMMA StagePlaces ==
  ASSUME Typed, NEW n \in Names, Stage(n)
  PROVE  PlacesStay /\ disk[n].place = "none"
BY DEF Stage, PlacesStay, Typed, TypeOK

\* A command writes to the directory that it is staging, which is not published.
LEMMA CommandStays ==
  ASSUME Typed, Directories,
         Begin \/ Backup \/ Test \/ Seal \/ Upload \/ Retrieve \/ Recover
  PROVE  PlacesStay /\ ContentsStay /\ RecordsStay
<1>1. /\ Bundles \subseteq Names /\ {"package", "retrieved"} \subseteq Names
      /\ Unpackings \subseteq Names
  BY NamesDiffer
<1>2. UNCHANGED disk => PlacesStay
  BY DEF PlacesStay
<1>3. UNCHANGED <<evidence, remote>> => RecordsStay
  BY DEF RecordsStay
<1>4. ASSUME NEW b \in Bundles, ReadHead(b)
      PROVE  PlacesStay /\ ContentsStay /\ RecordsStay
  <2>1. PlacesStay /\ disk[b].place = "none"
    BY <1>1, <1>4, StagePlaces DEF ReadHead
  <2>2. \A c \in Bundles \ {b} : bundles'[c] = bundles[c]
    BY <1>4 DEF ReadHead, Typed, TypeOK
  <2>3. ContentsStay
    BY <1>4, <2>1, <2>2 DEF ReadHead, ContentsStay
  <2> QED
    BY <1>3, <1>4, <2>1, <2>3 DEF ReadHead
<1>5. ASSUME NEW b \in Bundles, VerifyBundle(b)
      PROVE  PlacesStay /\ ContentsStay /\ RecordsStay
  BY <1>2, <1>3, <1>5, ContentsUntouched DEF VerifyBundle, content
<1>6. ASSUME NEW b \in Bundles, NEW configured \in BOOLEAN,
             NEW e \in Bundles \cup {NoBundle}, NEW tested \in BOOLEAN,
             BeginSeal(b, configured, e, tested)
      PROVE  PlacesStay /\ ContentsStay /\ RecordsStay
  <2>1. PlacesStay /\ disk["package"].place = "none"
    BY <1>1, <1>6, StagePlaces DEF BeginSeal
  <2>2. ContentsStay
    BY <1>6, <2>1 DEF BeginSeal, ContentsStay
  <2> QED
    BY <1>3, <1>6, <2>1, <2>2 DEF BeginSeal
<1>7. CASE Backup
  <2>1. UNCHANGED <<disk, evidence, remote, package, unpacked>>
    BY <1>7 DEF Backup, ReadStatus, CopyDatabase, CompareIdentity, RecheckDeployment,
       content
  <2>2. "timer" \in Actors
    BY DEF Actors
  <2>3. disk[jobs["timer"].name].place = "stage"
    BY <1>7, <2>2 DEF Backup, ReadStatus, CopyDatabase, CompareIdentity,
       RecheckDeployment, Directories, Placed, At
  <2>4. \A b \in Bundles : b # jobs["timer"].name => bundles'[b] = bundles[b]
    BY <1>7 DEF Backup, ReadStatus, CopyDatabase, CompareIdentity,
       RecheckDeployment, content, Typed, TypeOK
  <2>5. ContentsStay
    BY <2>1, <2>3, <2>4 DEF ContentsStay
  <2> QED
    BY <1>2, <1>3, <2>1, <2>5
<1>8. CASE Test
  BY <1>2, <1>8, ContentsUntouched DEF Test, Qualify, RestoreTest, RecordsStay
<1>9. CASE Seal
  <2>1. UNCHANGED <<disk, evidence, remote, bundles, unpacked>>
    BY <1>9 DEF Seal, HashSources, ArchiveFile, RehashSources, content
  <2>2. "operator" \in Actors /\ jobs["operator"].pc \in {"hash", "read"}
    BY <1>9 DEF Actors, Seal, HashSources, ArchiveFile, RehashSources, At
  <2>3. jobs["operator"].name = "package"
    BY <2>2, JobsDiffer DEF Directories, OperatorJobs, At
  <2>4. disk["package"].place = "stage"
    BY <2>2, <2>3 DEF Directories, Placed
  <2>5. ContentsStay
    BY <2>1, <2>4 DEF ContentsStay
  <2> QED
    BY <1>2, <1>3, <2>1, <2>5
<1>10. CASE Upload
  BY <1>2, <1>10, ContentsUntouched DEF Upload, RecordsStay
<1>11. CASE Retrieve
  BY <1>1, <1>2, <1>3, <1>11, StagePlaces, ContentsUntouched
     DEF Retrieve, BeginRetrieve, Download, CompareDownload, content
<1>12. ASSUME NEW n \in Unpackings, BeginUnpacking(n)
       PROVE  PlacesStay /\ ContentsStay /\ RecordsStay
  BY <1>1, <1>3, <1>12, StagePlaces, ContentsUntouched DEF BeginUnpacking, content
<1>13. CASE Unpack
  <2>1. "recoverer" \in Actors /\ jobs["recoverer"].pc = "unpack"
    BY <1>13 DEF Actors, Unpack, At
  <2>2. disk[jobs["recoverer"].name].place = "stage"
    BY <2>1 DEF Directories, Placed
  <2>3. \A n \in Unpackings : n # jobs["recoverer"].name => unpacked'[n] = unpacked[n]
    BY <1>13 DEF Unpack, Typed, TypeOK
  <2>4. ContentsStay
    BY <1>13, <2>2, <2>3 DEF Unpack, ContentsStay
  <2> QED
    BY <1>2, <1>3, <1>13, <2>4 DEF Unpack
<1>14. CASE CheckUnpacked
  BY <1>2, <1>3, <1>14, ContentsUntouched DEF CheckUnpacked, content
<1> QED
  BY <1>4, <1>5, <1>6, <1>7, <1>8, <1>9, <1>10, <1>11, <1>12, <1>13, <1>14
     DEF Begin, Recover

\* What is forgotten was staged, or is gone from the disk as well.
LEMMA ForgetStays ==
  ASSUME Typed, NEW gone \in SUBSET Names, Forget(gone),
         \A n \in gone : disk'[n] = Absence
  PROVE  ContentsStay /\ RecordsStay
<1>1. Absence.place = "none"
  BY DEF Absence
<1>2. \A b \in Bundles : disk[b].place = "final" => bundles'[b] = bundles[b]
  BY DEF Forget
<1>3. package' = package \/ disk'["package"].place = "none"
  BY <1>1 DEF Forget
<1>4. \A n \in Unpackings : unpacked'[n] = unpacked[n] \/ disk'[n].place = "none"
  BY <1>1 DEF Forget, Typed, TypeOK
<1>5. ContentsStay
  BY <1>2, <1>3, <1>4 DEF ContentsStay
<1> QED
  BY <1>5 DEF Forget, RecordsStay

LEMMA ChangeStays ==
  ASSUME Typed, Directories,
         UNCHANGED vars \/ Surroundings \/ \E a \in Actors : Publish(a) \/ Fail(a)
  PROVE  PlacesStay /\ ContentsStay /\ RecordsStay
<1> DEFINE Stay == PlacesStay /\ ContentsStay /\ RecordsStay
<1>1. disk \in [Names -> Directory] /\ bundles \in [Bundles -> Contained]
  BY DEF Typed, TypeOK, Directory, Contained
<1>2. Absence.place = "none"
  BY DEF Absence
<1>3. UNCHANGED <<content, disk>> => Stay
  BY DEF content, PlacesStay, ContentsStay, RecordsStay
<1>4. UNCHANGED content => ContentsStay /\ RecordsStay
  BY DEF content, ContentsStay, RecordsStay
<1>5. ASSUME NEW a \in Actors, Flush(a) \/ SyncName(a) PROVE Stay
  <2>1. PlacesStay
    BY <1>5, PlacesKept DEF PlacesStay
  <2> QED
    BY <1>4, <1>5, <2>1 DEF Flush, SyncName
<1>6. ASSUME NEW a \in Actors, Rename(a) PROVE Stay
  <2>1. jobs[a].name \in Names
    BY DEF Typed, TypeOK
  <2>2. disk'[jobs[a].name].place = "final"
        /\ \A n \in Names \ {jobs[a].name} : disk'[n] = disk[n]
    BY <1>1, <1>6, <2>1 DEF Rename, Directory
  <2> QED
    BY <1>4, <1>6, <2>2 DEF Rename, PlacesStay
<1>7. ASSUME NEW a \in Actors, Fail(a) PROVE Stay
  <2>1. PICK gone \in SUBSET Names :
          /\ Forget(gone)
          /\ \A n \in gone : n = jobs[a].name /\ disk[n].place = "stage"
          /\ \A n \in Names : disk'[n] = IF n \in gone THEN Absence ELSE disk[n]
    BY <1>7, FailForgets
  <2>2. PlacesStay
    BY <2>1 DEF PlacesStay
  <2> QED
    BY <2>1, <2>2, ForgetStays
<1>8. ASSUME NEW actors, NEW names \in SUBSET Names, PowerLoss(actors, names)
      PROVE  Stay
  <2>1. PICK gone \in SUBSET names : Forget(gone) /\ \A n \in gone : disk'[n] = Absence
    BY <1>8, PowerLossForgets
  <2>2. PlacesStay
    BY <1>1, <1>2, <1>8, PowerLossEffect DEF PlacesStay
  <2> QED
    BY <2>1, <2>2, ForgetStays
<1>9. ASSUME NEW commit \in 1 .. MaxHead, Checkout(commit) PROVE Stay
  <2>1. \A b \in Bundles :
          [bundles'[b] EXCEPT !.moved = 0] = [bundles[b] EXCEPT !.moved = 0]
    BY <1>1, <1>9 DEF Checkout, Contained
  <2> QED
    BY <1>9, <2>1 DEF Checkout, PlacesStay, ContentsStay, RecordsStay
<1>10. SourceNames \in SUBSET Names /\ RecoveryNames \in SUBSET Names
  BY DEF Names
<1> QED
  BY <1>3, <1>5, <1>6, <1>7, <1>8, <1>9, <1>10
     DEF Publish, Surroundings, RestartService, EditTracked, ReplaceDatabase,
         EditConfiguration, Damage, vars

\* No command fills a directory again that is under its final name; what is there
\* keeps its contents, and stays once its name has been flushed.  Evidence and the
\* package off the host are never replaced.
THEOREM PublicationsAreFinal == Spec => PublishedIsFinal
<1>1. Typed /\ Directories /\ [Next]_vars => PlacesStay /\ ContentsStay /\ RecordsStay
  BY CommandStays, ChangeStays DEF Next
<1>2. Typed /\ Directories /\ [Next]_vars =>
        [/\ \A n \in Names :
              disk[n].place = "final" =>
                disk'[n].place = "final" \/ (disk'[n].place = "none" /\ ~disk[n].named)
         /\ \A b \in Bundles :
              disk[b].place = "final" =>
                [bundles'[b] EXCEPT !.moved = 0] = [bundles[b] EXCEPT !.moved = 0]
         /\ disk["package"].place = "final" =>
              package' = package \/ disk'["package"].place = "none"
         /\ \A n \in Unpackings :
              disk[n].place = "final" =>
                unpacked'[n] = unpacked[n] \/ disk'[n].place = "none"
         /\ evidence \subseteq evidence'
         /\ remote # NoPackage => remote' = remote]_vars
  BY <1>1 DEF PlacesStay, ContentsStay, RecordsStay
<1> QED
  BY <1>2, AlwaysDirectories, PTL DEF Spec, PublishedIsFinal
=============================================================================
