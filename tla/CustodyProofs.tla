---------------------------- MODULE CustodyProofs ----------------------------
(* RecoveryBundles implements CustodyContract, for every value of its          *)
(* constants.                                                                  *)
EXTENDS RecoveryBundlesProofs

\* An identity of the past is not drawn again; what is compared has been copied.
Backed ==
  /\ \A b \in Earlier : disk[b].place = "none"
  /\ jobs["timer"].pc \in {"identity", "recheck"} \cup Publishing =>
       bundles[jobs["timer"].name].schema # 0

\* The bundle that is sealed stays there until the package is; configuration that was
\* not asked for was not hashed.
Sealing ==
  /\ disk["package"].place # "none" => package.bundle \in Bundles
  /\ remote # NoPackage => remote.bundle \in Bundles
  /\ jobs["operator"].pc \in {"hash", "read", "flush", "rename"} =>
       package.bundle \in Bundles /\ disk[package.bundle].place = "final"
  /\ jobs["operator"].pc \in {"read"} \cup Publishing =>
       package.configured \/ package.inventory["configuration"] = "absent"

\* A package with configuration is not unpacked for verification.
Verifying ==
  jobs["recoverer"].pc # "idle" /\ jobs["recoverer"].name = "verified" =>
    ~remote.configured

CustodyConsistent == Backed /\ Sealing /\ Verifying

\* The invariants that custody rests on.
Sound == Typed /\ Directories /\ RecoveryConsistent /\ EvidenceConsistent

LEMMA AlwaysSound == Spec => []Sound
<1>1. Typed /\ Directories /\ EvidenceConsistent /\ [Next]_vars => EvidenceConsistent'
  BY CommandProves, ChangeProves DEF Next
<1> QED
  BY <1>1, InitEvidence, AlwaysDirectories, AlwaysRecovery, PTL DEF Spec, Sound

-----------------------------------------------------------------------------
(* The invariant *)

LEMMA InitCustody == Init => CustodyConsistent
<1> SUFFICES ASSUME Init PROVE CustodyConsistent
  OBVIOUS
<1>1. Idle.pc = "idle" /\ Absence.place = "none"
  BY DEF Idle, Absence
<1>2. \A n \in Names : disk[n].place = "none"
  BY <1>1 DEF Init
<1>3. \A a \in Actors : jobs[a].pc = "idle"
  BY <1>1 DEF Init
<1>4. Actors = {"timer", "operator", "recoverer"}
  BY DEF Actors
<1>5. remote = NoPackage
  BY DEF Init
<1> QED
  BY <1>2, <1>3, <1>4, <1>5, NamesDiffer, EarlierBundles
     DEF CustodyConsistent, Backed, Sealing, Verifying, Publishing

\* A step that is not of the backup.
LEMMA BackedStays ==
  ASSUME Backed,
         \A b \in Bundles : disk[b].place = "none" => disk'[b].place = "none",
         \/ jobs'["timer"].pc = "idle"
         \/ /\ jobs'["timer"] = jobs["timer"]
            /\ bundles'[jobs["timer"].name].schema = bundles[jobs["timer"].name].schema
  PROVE  Backed'
BY EarlierBundles DEF Backed, Publishing

\* A step that is not of seal or upload.
LEMMA SealingStays ==
  ASSUME Sealing, remote' = remote,
         \/ package' = package /\ (disk["package"].place = "none" =>
                                     disk'["package"].place = "none")
         \/ disk'["package"].place = "none",
         \/ jobs'["operator"].pc = "idle"
         \/ /\ jobs'["operator"] = jobs["operator"]
            /\ package' = package
            /\ \A b \in Bundles : disk[b].place = "final" => disk'[b].place = "final"
  PROVE  Sealing'
<1>1. CASE jobs'["operator"].pc = "idle"
  BY <1>1 DEF Sealing, Publishing
<1>2. CASE /\ jobs'["operator"] = jobs["operator"]
           /\ package' = package
           /\ \A b \in Bundles : disk[b].place = "final" => disk'[b].place = "final"
  BY <1>2 DEF Sealing
<1> QED
  BY <1>1, <1>2

\* A step that does not begin to unpack.
LEMMA VerifyingStays ==
  ASSUME Verifying, RecoveryConsistent, remote # NoPackage => remote' = remote,
         \/ jobs'["recoverer"].pc = "idle"
         \/ /\ jobs'["recoverer"].name = jobs["recoverer"].name
            /\ ~At("recoverer", "idle")
  PROVE  Verifying'
BY DEF Verifying, RecoveryConsistent, At

\* What a step of a does to the jobs of the others.
LEMMA OthersWait ==
  ASSUME Typed, NEW a \in Actors, NEW pc, GoTo(a, pc) \/ \E n : Start(a, n, pc)
  PROVE  /\ jobs'[a].pc = pc
         /\ GoTo(a, pc) => jobs'[a].name = jobs[a].name
         /\ \A n : Start(a, n, pc) => jobs'[a].name = n
         /\ \A c \in Actors \ {a} : jobs'[c] = jobs[c]
BY DEF GoTo, Start, Job, Typed, TypeOK

LEMMA StagePlace ==
  ASSUME Typed, NEW n \in Names, Stage(n)
  PROVE  /\ disk[n].place = "none" /\ disk'[n].place = "stage"
         /\ \A m \in Names \ {n} : disk'[m] = disk[m]
BY DEF Stage, Staged, Absence, Typed, TypeOK

LEMMA BeginKeepsCustody ==
  ASSUME Sound, CustodyConsistent, Begin
  PROVE  CustodyConsistent'
<1>1. Typed /\ RecoveryConsistent /\ Backed /\ Sealing /\ Verifying
  BY DEF Sound, CustodyConsistent
<1>2. /\ Actors = {"timer", "operator", "recoverer"}
      /\ "package" \in Names /\ "package" \notin Bundles /\ Bundles \subseteq Names
  BY NamesDiffer DEF Actors
<1>3. remote' = remote
  BY DEF Begin, ReadHead, VerifyBundle, BeginSeal, content
<1>4. ASSUME NEW b \in Bundles, ReadHead(b) PROVE CustodyConsistent'
  <2>1. /\ jobs'["timer"].pc = "status"
        /\ \A c \in Actors \ {"timer"} : jobs'[c] = jobs[c]
    BY <1>1, <1>2, <1>4, OthersWait DEF ReadHead
  <2>2. /\ disk[b].place = "none"
        /\ \A m \in Names \ {b} : disk'[m] = disk[m]
    BY <1>1, <1>2, <1>4, StagePlace DEF ReadHead
  <2>3. Backed'
    BY <1>1, <1>2, <1>4, <2>1, <2>2, EarlierBundles DEF Backed, ReadHead, Publishing
  <2>4. Sealing'
    BY <1>1, <1>2, <1>3, <1>4, <2>1, <2>2, SealingStays DEF ReadHead
  <2>5. Verifying'
    BY <1>1, <1>2, <1>3, <2>1, VerifyingStays DEF At
  <2> QED
    BY <2>3, <2>4, <2>5 DEF CustodyConsistent
<1>5. ASSUME NEW b \in Bundles, VerifyBundle(b) PROVE CustodyConsistent'
  <2>1. /\ jobs'["operator"].pc = "run"
        /\ \A c \in Actors \ {"operator"} : jobs'[c] = jobs[c]
    BY <1>1, <1>2, <1>5, OthersWait DEF VerifyBundle
  <2>2. UNCHANGED <<disk, bundles, package>>
    BY <1>5 DEF VerifyBundle, content
  <2>3. Backed'
    BY <1>1, <1>2, <2>1, <2>2, BackedStays
  <2>4. Sealing'
    BY <1>1, <1>3, <2>1, <2>2 DEF Sealing, Publishing
  <2>5. Verifying'
    BY <1>1, <1>2, <1>3, <2>1, VerifyingStays DEF At
  <2> QED
    BY <2>3, <2>4, <2>5 DEF CustodyConsistent
<1>6. ASSUME NEW b \in Bundles, NEW configured, NEW e, NEW tested,
             BeginSeal(b, configured, e, tested)
      PROVE  CustodyConsistent'
  <2>1. /\ jobs'["operator"].pc = "hash"
        /\ \A c \in Actors \ {"operator"} : jobs'[c] = jobs[c]
    BY <1>1, <1>2, <1>6, OthersWait DEF BeginSeal
  <2>2. \A m \in Names \ {"package"} : disk'[m] = disk[m]
    BY <1>1, <1>2, <1>6, StagePlace DEF BeginSeal
  <2>3. Backed'
    BY <1>1, <1>2, <1>6, <2>1, <2>2, BackedStays DEF BeginSeal
  <2>4. disk[b].place = "final" /\ package'.bundle = b
    BY <1>6 DEF BeginSeal, Whole, NoPackage
  <2>5. Sealing'
    BY <1>1, <1>2, <1>3, <2>1, <2>2, <2>4 DEF Sealing, Publishing
  <2>6. Verifying'
    BY <1>1, <1>2, <1>3, <2>1, VerifyingStays DEF At
  <2> QED
    BY <2>3, <2>5, <2>6 DEF CustodyConsistent
<1> QED
  BY <1>4, <1>5, <1>6 DEF Begin

LEMMA BackupKeepsCustody ==
  ASSUME Sound, CustodyConsistent, Backup
  PROVE  CustodyConsistent'
<1>1. Typed /\ RecoveryConsistent /\ Backed /\ Sealing /\ Verifying
  BY DEF Sound, CustodyConsistent
<1>2. Actors = {"timer", "operator", "recoverer"}
  BY DEF Actors
<1>3. UNCHANGED <<disk, package, remote>>
  BY DEF Backup, ReadStatus, CopyDatabase, CompareIdentity, RecheckDeployment, content
<1>4. \E pc : GoTo("timer", pc)
  BY DEF Backup, ReadStatus, CopyDatabase, CompareIdentity, RecheckDeployment
<1>5. \A c \in Actors \ {"timer"} : jobs'[c] = jobs[c]
  BY <1>1, <1>2, <1>4, OthersWait
<1>6. Backed'
  <2>1. CASE ReadStatus
    <3>1. jobs'["timer"].pc = "copy"
      BY <1>1, <1>2, <2>1, OthersWait DEF ReadStatus
    <3> QED
      BY <1>1, <1>3, <3>1 DEF Backed, Publishing
  <2>2. CASE CopyDatabase
    <3>1. jobs'["timer"].name = jobs["timer"].name
      BY <1>1, <1>2, <2>2, OthersWait DEF CopyDatabase
    <3>2. jobs["timer"].name \in Bundles
      BY <2>2, JobsDiffer DEF CopyDatabase, Sound, Directories, At, TimerJobs
    <3>3. bundles'[jobs["timer"].name].schema = deployment.schema
      BY <1>1, <2>2, <3>2 DEF CopyDatabase, Typed, TypeOK
    <3>4. deployment.schema # 0
      BY <1>1, BoundsAreNat DEF Typed, TypeOK
    <3> QED
      BY <1>1, <1>3, <3>1, <3>3, <3>4 DEF Backed
  <2>3. CASE CompareIdentity \/ RecheckDeployment
    <3>1. /\ jobs'["timer"].name = jobs["timer"].name
          /\ jobs["timer"].pc \in {"identity", "recheck"}
      BY <1>1, <1>2, <2>3, OthersWait DEF CompareIdentity, RecheckDeployment, At
    <3> QED
      BY <1>1, <1>3, <2>3, <3>1 DEF Backed, CompareIdentity, RecheckDeployment, content
  <2> QED
    BY <2>1, <2>2, <2>3 DEF Backup
<1>7. Sealing'
  BY <1>1, <1>2, <1>3, <1>5, SealingStays
<1>8. Verifying'
  BY <1>1, <1>2, <1>3, <1>5, VerifyingStays DEF At
<1> QED
  BY <1>6, <1>7, <1>8 DEF CustodyConsistent

LEMMA OperatorKeepsCustody ==
  ASSUME Sound, CustodyConsistent, Test \/ Seal \/ Upload
  PROVE  CustodyConsistent'
<1>1. Typed /\ RecoveryConsistent /\ Backed /\ Sealing /\ Verifying
  BY DEF Sound, CustodyConsistent
<1>2. Actors = {"timer", "operator", "recoverer"}
  BY DEF Actors
<1>3. UNCHANGED <<disk, bundles>>
  BY DEF Test, Qualify, RestoreTest, Seal, HashSources, ArchiveFile, RehashSources,
     Upload, content
<1>4. \A c \in Actors \ {"operator"} : jobs'[c] = jobs[c]
  <2>1. (\E pc : GoTo("operator", pc)) \/ UNCHANGED jobs
        \/ jobs' = [jobs EXCEPT !["operator"] = Idle]
    BY DEF Test, Qualify, RestoreTest, Seal, HashSources, ArchiveFile, RehashSources,
       Upload
  <2> QED
    BY <1>1, <1>2, <2>1, OthersWait DEF Typed, TypeOK
<1>5. Backed'
  BY <1>1, <1>2, <1>3, <1>4, BackedStays
<1>6. remote # NoPackage => remote' = remote
  BY DEF Test, Qualify, RestoreTest, Seal, HashSources, ArchiveFile, RehashSources,
     Upload, content
<1>7. Verifying'
  BY <1>1, <1>2, <1>4, <1>6, VerifyingStays, JobsDiffer DEF At, Verifying, RecoveryConsistent
<1>8. Sealing'
  <2>1. CASE Test
    <3>1. jobs'["operator"].pc = "idle"
      BY <1>1, <1>2, <2>1 DEF Test, Qualify, RestoreTest, Idle, Typed, TypeOK
    <3> QED
      BY <1>1, <1>3, <2>1, <3>1, SealingStays DEF Test, Qualify, RestoreTest
  <2>2. CASE HashSources
    <3>1. jobs'["operator"].pc = "read" /\ jobs["operator"].pc = "hash"
      BY <1>1, <1>2, <2>2, OthersWait DEF HashSources, At
    <3>2. /\ package'.bundle = package.bundle
          /\ package'.configured = package.configured
          /\ package'.inventory["configuration"] = Held(package, "configuration")
      BY <1>1, <2>2 DEF HashSources, Files, Typed, TypeOK, Packages
    <3>3. package.configured \/ Held(package, "configuration") = "absent"
      BY DEF Held
    <3>4. package.configured \in BOOLEAN
      BY <1>1 DEF Typed, TypeOK, Packages
    <3> QED
      BY <1>1, <1>3, <2>2, <3>1, <3>2, <3>3, <3>4 DEF HashSources, Sealing, Publishing
  <2>3. ASSUME NEW f \in Files, ArchiveFile(f) PROVE Sealing'
    <3>1. /\ package'.bundle = package.bundle
          /\ package'.configured = package.configured
          /\ package'.inventory = package.inventory
      BY <1>1, <2>3 DEF ArchiveFile, Typed, TypeOK, Packages
    <3> QED
      BY <1>1, <1>3, <2>3, <3>1 DEF ArchiveFile, Sealing
  <2>4. CASE RehashSources
    <3>1. jobs'["operator"].pc = "flush" /\ jobs["operator"].pc = "read"
      BY <1>1, <1>2, <2>4, OthersWait DEF RehashSources, At
    <3> QED
      BY <1>1, <1>3, <2>4, <3>1 DEF RehashSources, Sealing, Publishing, content
  <2>5. CASE Upload
    BY <1>1, <1>3, <2>5 DEF Upload, Whole, Sealing
  <2> QED
    BY <2>1, <2>2, <2>3, <2>4, <2>5 DEF Seal
<1> QED
  BY <1>5, <1>7, <1>8 DEF CustodyConsistent

LEMMA RecovererKeepsCustody ==
  ASSUME Sound, CustodyConsistent, Retrieve \/ Recover
  PROVE  CustodyConsistent'
<1>1. Typed /\ RecoveryConsistent /\ Backed /\ Sealing /\ Verifying
  BY DEF Sound, CustodyConsistent
<1>2. /\ Actors = {"timer", "operator", "recoverer"}
      /\ "package" \in Names \ RecoveryNames /\ Bundles \subseteq Names \ RecoveryNames
      /\ "retrieved" \in RecoveryNames /\ Unpackings \subseteq RecoveryNames
      /\ RecoveryNames \subseteq Names
  BY NamesDiffer DEF Actors, Names, SourceNames, RecoveryNames
<1>3. UNCHANGED <<bundles, package, remote>>
  BY DEF Retrieve, BeginRetrieve, Download, CompareDownload, Recover, BeginUnpacking,
     Unpack, CheckUnpacked, content
<1>4. \E pc : GoTo("recoverer", pc) \/ \E n \in RecoveryNames : Start("recoverer", n, pc)
  BY <1>2 DEF Retrieve, BeginRetrieve, Download, CompareDownload, Recover,
     BeginUnpacking, Unpack, CheckUnpacked
<1>5. \A c \in Actors \ {"recoverer"} : jobs'[c] = jobs[c]
  BY <1>1, <1>2, <1>4, OthersWait
<1>6. UNCHANGED disk \/ \E n \in RecoveryNames : Stage(n)
  BY <1>2 DEF Retrieve, BeginRetrieve, Download, CompareDownload, Recover,
     BeginUnpacking, Unpack, CheckUnpacked
<1>7. \A m \in Bundles \cup {"package"} : disk'[m] = disk[m]
  BY <1>1, <1>2, <1>6, StagePlace
<1>8. Backed'
  BY <1>1, <1>2, <1>3, <1>5, <1>7, BackedStays
<1>9. Sealing'
  BY <1>1, <1>2, <1>3, <1>5, <1>7, SealingStays
<1>10. Verifying'
  <2>1. CASE BeginRetrieve
    <3>1. jobs'["recoverer"].name = "retrieved"
      BY <1>1, <1>2, <2>1, OthersWait DEF BeginRetrieve
    <3> QED
      BY <3>1 DEF Verifying
  <2>2. ASSUME NEW n \in Unpackings, BeginUnpacking(n) PROVE Verifying'
    <3>1. jobs'["recoverer"].name = n
      BY <1>1, <1>2, <2>2, OthersWait DEF BeginUnpacking
    <3> QED
      BY <1>3, <2>2, <3>1 DEF Verifying, BeginUnpacking
  <2>3. CASE Download \/ CompareDownload \/ Unpack \/ CheckUnpacked
    <3>1. /\ \E pc : GoTo("recoverer", pc)
          /\ ~At("recoverer", "idle")
      BY <2>3 DEF Download, CompareDownload, Unpack, CheckUnpacked, At
    <3> QED
      BY <1>1, <1>2, <1>3, <3>1, OthersWait, VerifyingStays
  <2> QED
    BY <2>1, <2>2, <2>3 DEF Retrieve, Recover
<1> QED
  BY <1>8, <1>9, <1>10 DEF CustodyConsistent

LEMMA RenamePlaces ==
  ASSUME Typed, Directories, NEW a \in Actors, Rename(a)
  PROVE  /\ disk[jobs[a].name].place = "stage"
         /\ disk'[jobs[a].name] = [disk[jobs[a].name] EXCEPT !.place = "final"]
         /\ disk'[jobs[a].name].place = "final"
         /\ disk'[jobs[a].name].named = disk[jobs[a].name].named
         /\ \A m \in Names \ {jobs[a].name} : disk'[m] = disk[m]
         /\ jobs'[a].pc \in {"sync", "idle"} /\ jobs'[a].name = jobs[a].name
         /\ \A c \in Actors \ {a} : jobs'[c] = jobs[c]
<1>1. jobs[a].name \in Names /\ disk \in [Names -> Directory]
  BY DEF Typed, TypeOK, Directory
<1>2. disk[jobs[a].name].place = "stage"
  BY DEF Rename, At, Directories, Placed
<1>3. /\ disk'[jobs[a].name] = [disk[jobs[a].name] EXCEPT !.place = "final"]
      /\ \A m \in Names \ {jobs[a].name} : disk'[m] = disk[m]
  BY <1>1 DEF Rename
<1>4. /\ disk'[jobs[a].name].place = "final"
      /\ disk'[jobs[a].name].named = disk[jobs[a].name].named
  BY <1>1, <1>3 DEF Directory
<1>5. GoTo(a, "idle") \/ GoTo(a, "sync")
  BY DEF Rename
<1> QED
  BY <1>2, <1>3, <1>4, <1>5, OthersWait

LEMMA PublishKeepsCustody ==
  ASSUME Sound, CustodyConsistent, NEW a \in Actors, Publish(a)
  PROVE  CustodyConsistent'
<1>1. Typed /\ Directories /\ RecoveryConsistent /\ Backed /\ Sealing /\ Verifying
  BY DEF Sound, CustodyConsistent
<1>2. /\ Actors = {"timer", "operator", "recoverer"}
      /\ "package" \in Names /\ Bundles \subseteq Names
  BY NamesDiffer DEF Actors
<1>3. UNCHANGED <<bundles, package, remote>>
  BY DEF Publish, Flush, Rename, SyncName, content
<1>4. /\ jobs'[a].name = jobs[a].name
      /\ \A c \in Actors \ {a} : jobs'[c] = jobs[c]
      /\ \/ jobs[a].pc = "flush" /\ jobs'[a].pc = "rename"
         \/ jobs[a].pc \in {"rename", "sync"} /\ jobs'[a].pc \in {"sync", "idle"}
  <2>1. Flush(a) \/ SyncName(a) => \E pc : GoTo(a, pc)
    BY DEF Flush, SyncName
  <2> QED
    BY <1>1, <2>1, RenamePlaces, OthersWait DEF Publish, Flush, Rename, SyncName, At
<1>5. \A m \in Names :
        \/ disk'[m].place = disk[m].place
        \/ disk[m].place = "stage" /\ disk'[m].place = "final"
  BY <1>1, RenamePlaces, PlacesKept DEF Publish
<1>6. Backed'
  BY <1>1, <1>2, <1>3, <1>4, <1>5, EarlierBundles DEF Backed, Publishing
<1>7. Sealing'
  BY <1>1, <1>2, <1>3, <1>4, <1>5 DEF Sealing, Publishing
<1>8. Verifying'
  BY <1>1, <1>2, <1>3, <1>4 DEF Verifying
<1> QED
  BY <1>6, <1>7, <1>8 DEF CustodyConsistent

LEMMA FailKeepsCustody ==
  ASSUME Sound, CustodyConsistent, NEW a \in Actors, Fail(a)
  PROVE  CustodyConsistent'
<1>1. Typed /\ Directories /\ RecoveryConsistent /\ Backed /\ Sealing /\ Verifying
  BY DEF Sound, CustodyConsistent
<1>2. /\ Actors = {"timer", "operator", "recoverer"}
      /\ "package" \in Names /\ Bundles \subseteq Names /\ Absence.place = "none"
  BY NamesDiffer DEF Actors, Absence
<1>3. /\ jobs'[a].pc = "idle" /\ ~At(a, "idle")
      /\ \A c \in Actors \ {a} : jobs'[c] = jobs[c]
  BY <1>1 DEF Fail, Idle, Typed, TypeOK
<1>4. PICK gone \in SUBSET Names :
        /\ Forget(gone)
        /\ \A n \in gone : n = jobs[a].name /\ disk[n].place = "stage"
        /\ \A n \in Names : disk'[n] = IF n \in gone THEN Absence ELSE disk[n]
  BY <1>1, FailForgets
<1>5. \A c \in Actors \ {a} : ~At(c, "idle") => jobs[c].name \notin gone
  BY <1>1, <1>3, <1>4, Apart
<1>6. Backed'
  <2>1. ASSUME a # "timer", ~At("timer", "idle")
        PROVE  bundles'[jobs["timer"].name] = bundles[jobs["timer"].name]
    <3>1. jobs["timer"].name \in Bundles
      BY <1>1, <2>1, JobsDiffer DEF Directories, TimerJobs
    <3> QED
      BY <1>2, <1>4, <1>5, <2>1, <3>1 DEF Forget
  <2> QED
    BY <1>1, <1>2, <1>3, <1>4, <2>1, BackedStays DEF At
<1>7. Sealing'
  <2>1. package' = package \/ disk'["package"].place = "none"
    BY <1>2, <1>4 DEF Forget
  <2>2. ASSUME a # "operator", ~At("operator", "idle") PROVE package' = package
    <3>1. jobs[a].name # "package"
      BY <1>1, <1>2, <1>3, <2>2, JobsDiffer, NamesDiffer
         DEF Directories, TimerJobs, RecovererJobs, Unpackings, RecoveryNames
    <3> QED
      BY <1>4, <3>1 DEF Forget
  <2>3. remote' = remote
    BY <1>4 DEF Forget
  <2> QED
    BY <1>1, <1>2, <1>3, <1>4, <2>1, <2>2, <2>3, SealingStays DEF At
<1>8. Verifying'
  BY <1>1, <1>2, <1>3, <1>4, VerifyingStays DEF Forget, At
<1> QED
  BY <1>6, <1>7, <1>8 DEF CustodyConsistent

LEMMA PowerLossKeepsCustody ==
  ASSUME Sound, CustodyConsistent,
         \/ PowerLoss({"timer", "operator"}, SourceNames)
         \/ PowerLoss({"recoverer"}, RecoveryNames)
  PROVE  CustodyConsistent'
<1>1. Typed /\ Directories /\ RecoveryConsistent /\ Backed /\ Sealing /\ Verifying
  BY DEF Sound, CustodyConsistent
<1>2. /\ Actors = {"timer", "operator", "recoverer"}
      /\ "package" \in SourceNames /\ Bundles \subseteq SourceNames
      /\ SourceNames \in SUBSET Names /\ RecoveryNames \in SUBSET Names
      /\ SourceNames \cap RecoveryNames = {}
      /\ Absence.place = "none" /\ Idle.pc = "idle"
  BY NamesDiffer DEF Actors, Names, SourceNames, Absence, Idle
<1>3. CASE PowerLoss({"timer", "operator"}, SourceNames)
  <2>1. PICK gone \in SUBSET SourceNames :
          Forget(gone) /\ \A n \in gone : disk'[n] = Absence
    BY <1>1, <1>2, <1>3, PowerLossForgets
  <2>2. /\ jobs'["timer"].pc = "idle" /\ jobs'["operator"].pc = "idle"
        /\ jobs'["recoverer"] = jobs["recoverer"]
        /\ \A n \in SourceNames :
             disk'[n].place = disk[n].place \/ disk'[n].place = "none"
    BY <1>1, <1>2, <1>3, PowerLossEffect
  <2>3. Backed'
    BY <1>1, <1>2, <2>2, BackedStays
  <2>4. Sealing'
    BY <1>1, <1>2, <2>1, <2>2, SealingStays DEF Forget
  <2>5. Verifying'
    BY <1>1, <2>1, <2>2, VerifyingStays DEF Forget, At
  <2> QED
    BY <2>3, <2>4, <2>5 DEF CustodyConsistent
<1>4. CASE PowerLoss({"recoverer"}, RecoveryNames)
  <2>1. PICK gone \in SUBSET RecoveryNames : Forget(gone)
    BY <1>1, <1>2, <1>4, PowerLossForgets
  <2>2. /\ jobs'["timer"] = jobs["timer"] /\ jobs'["operator"] = jobs["operator"]
        /\ jobs'["recoverer"].pc = "idle"
        /\ \A n \in SourceNames : disk'[n] = disk[n]
    BY <1>1, <1>2, <1>4, PowerLossEffect
  <2>3. UNCHANGED <<bundles, package, remote>>
    BY <1>1, <1>2, <2>1 DEF Forget, Typed, TypeOK
  <2>4. Backed'
    BY <1>1, <1>2, <2>2, <2>3, BackedStays
  <2>5. Sealing'
    BY <1>1, <1>2, <2>2, <2>3, SealingStays
  <2>6. Verifying'
    BY <1>1, <2>2, <2>3, VerifyingStays
  <2> QED
    BY <2>4, <2>5, <2>6 DEF CustodyConsistent
<1> QED
  BY <1>3, <1>4

LEMMA ChangeKeepsCustody ==
  ASSUME Sound, CustodyConsistent, Surroundings \/ UNCHANGED vars
  PROVE  CustodyConsistent'
<1>1. Typed /\ RecoveryConsistent /\ Backed /\ Sealing /\ Verifying
  BY DEF Sound, CustodyConsistent
<1>2. ASSUME UNCHANGED <<disk, jobs, package, remote>>,
             \A b \in Bundles : bundles'[b].schema = bundles[b].schema
      PROVE  CustodyConsistent'
  <2>1. jobs["timer"].pc = "idle" \/ jobs["timer"].name \in Bundles
    BY JobsDiffer DEF Sound, Directories, At, TimerJobs
  <2>2. Backed'
    BY <1>1, <1>2, <2>1, BackedStays
  <2>3. Sealing'
    BY <1>1, <1>2, SealingStays
  <2>4. Verifying'
    BY <1>1, <1>2, VerifyingStays DEF At
  <2> QED
    BY <2>2, <2>3, <2>4 DEF CustodyConsistent
<1>3. ASSUME NEW commit, Checkout(commit) PROVE CustodyConsistent'
  <2>1. \A b \in Bundles : bundles'[b].schema = bundles[b].schema
    BY <1>1, <1>3 DEF Checkout, Typed, TypeOK
  <2> QED
    BY <1>2, <1>3, <2>1 DEF Checkout
<1> QED
  BY <1>2, <1>3, PowerLossKeepsCustody
     DEF Surroundings, RestartService, EditTracked, ReplaceDatabase, EditConfiguration,
         Damage, vars, content

LEMMA NextCustody == Sound /\ CustodyConsistent /\ [Next]_vars => CustodyConsistent'
BY BeginKeepsCustody, BackupKeepsCustody, OperatorKeepsCustody, RecovererKeepsCustody,
   PublishKeepsCustody, FailKeepsCustody, ChangeKeepsCustody
   DEF Next

LEMMA AlwaysCustody == Spec => [](Sound /\ CustodyConsistent)
BY InitCustody, NextCustody, AlwaysSound, PTL DEF Spec

-----------------------------------------------------------------------------
(* The refinement *)

LEMMA InitKept == Init => Contract!Init
<1> SUFFICES ASSUME Init PROVE Contract!Init
  OBVIOUS
<1>1. Absence.place = "none" /\ disk = [n \in Names |-> Absence]
  BY DEF Absence, Init
<1>2. \A n \in Names : ShelfOf(n) = "absent"
  BY <1>1 DEF ShelfOf
<1>3. \A b \in Bundles : ContentsOf(b) = [commit |-> 0, schema |-> 0]
  BY <1>1, NamesDiffer DEF ContentsOf, Init, NoContents
<1>4. Sealed = SealedAs(NoPackage) /\ remote = NoPackage
  BY <1>1, NamesDiffer DEF Sealed, Init
<1>5. SealedAs(NoPackage) = Contract!NoPackage
  BY DEF SealedAs, NoPackage, Contract!NoPackage, Contract!Package
<1>6. \A n \in Unpackings : FilesOf(n) = NoFiles
  BY <1>1, NamesDiffer DEF FilesOf
<1> QED
  BY <1>2, <1>3, <1>4, <1>5, <1>6 DEF Init, Contract!Init, Contract!Blank

\* What the contract does not see of a step.
ShelfStays    == \A n \in Names : ShelfOf(n)' = ShelfOf(n)
BundlesStay   == \A b \in Bundles : ContentsOf(b)' = ContentsOf(b)
RecoveredStay == \A n \in Unpackings : FilesOf(n)' = FilesOf(n)

LEMMA Unseen ==
  ASSUME ShelfStays, BundlesStay, RecoveredStay, Sealed' = Sealed,
         UNCHANGED remote
  PROVE  UNCHANGED Contract!custody
<1>1. SealedAs(remote)' = SealedAs(remote)
  BY DEF SealedAs
<1> QED
  BY <1>1 DEF ShelfStays, BundlesStay, RecoveredStay, Contract!custody

\* Places do not show until they are final; neither do flushed and torn.
LEMMA PlacesUnseen ==
  ASSUME \A n \in Names :
           \/ disk'[n].place = disk[n].place /\ disk'[n].named = disk[n].named
           \/ disk[n].place # "final" /\ disk'[n].place # "final"
  PROVE  ShelfStays
BY DEF ShelfStays, ShelfOf

LEMMA BundlesUnseen ==
  ASSUME \A b \in Bundles :
           \/ /\ disk'[b].place = disk[b].place
              /\ bundles'[b].commit = bundles[b].commit
              /\ bundles'[b].schema = bundles[b].schema
           \/ disk[b].place = "stage" /\ disk'[b].place = "stage"
  PROVE  BundlesStay
BY DEF BundlesStay, ContentsOf

LEMMA PackageUnseen ==
  ASSUME \/ package' = package /\ disk'["package"].place = disk["package"].place
         \/ disk["package"].place # "final" /\ disk'["package"].place # "final"
  PROVE  Sealed' = Sealed
BY DEF Sealed, SealedAs

LEMMA FilesUnseen ==
  ASSUME \A n \in Unpackings :
           \/ unpacked'[n] = unpacked[n] /\ disk'[n].place = disk[n].place
           \/ disk[n].place # "final" /\ disk'[n].place # "final"
  PROVE  RecoveredStay
BY DEF RecoveredStay, FilesOf

\* A step that fills or makes a staging directory at most.
LEMMA StagingUnseen ==
  ASSUME Typed, UNCHANGED remote,
         UNCHANGED disk \/ \E n \in Names : Stage(n),
         BundlesStay,
         package' = package \/ (disk["package"].place # "final"
                                 /\ disk'["package"].place # "final"),
         \A n \in Unpackings :
           unpacked'[n] = unpacked[n] \/ (disk[n].place = "stage" /\ UNCHANGED disk)
  PROVE  UNCHANGED Contract!custody
<1>1. \A n \in Names :
        disk'[n] = disk[n] \/ (disk[n].place = "none" /\ disk'[n].place = "stage")
  BY StagePlace
<1>2. "package" \in Names /\ Unpackings \subseteq Names
  BY NamesDiffer
<1>3. ShelfStays
  BY <1>1, PlacesUnseen
<1>4. Sealed' = Sealed
  BY <1>1, <1>2, PackageUnseen
<1>5. RecoveredStay
  BY <1>1, <1>2, FilesUnseen
<1> QED
  BY <1>3, <1>4, <1>5, Unseen

\* What the operator and the recoverer work on while they read and unpack.
LEMMA SealStages ==
  ASSUME Directories, Seal
  PROVE  disk["package"].place = "stage"
<1>1. "operator" \in Actors /\ jobs["operator"].pc \in {"hash", "read"}
  BY DEF Actors, Seal, HashSources, ArchiveFile, RehashSources, At
<1>2. jobs["operator"].name = "package"
  BY <1>1, JobsDiffer DEF Directories, OperatorJobs, At
<1> QED
  BY <1>1, <1>2 DEF Directories, Placed

LEMMA BackupStages ==
  ASSUME Directories, Backup
  PROVE  jobs["timer"].name \in Bundles /\ disk[jobs["timer"].name].place = "stage"
<1>1. "timer" \in Actors /\ jobs["timer"].pc \in {"status", "copy", "identity", "recheck"}
  BY DEF Actors, Backup, ReadStatus, CopyDatabase, CompareIdentity, RecheckDeployment, At
<1> QED
  BY <1>1, JobsDiffer DEF Directories, Placed, TimerJobs, At

LEMMA CommandsHide ==
  ASSUME Sound, Begin \/ Backup \/ Test \/ Seal \/ Retrieve \/ Recover
  PROVE  UNCHANGED Contract!custody
<1>1. Typed /\ Directories
  BY DEF Sound
<1>2. /\ Bundles \subseteq Names /\ {"package", "retrieved"} \subseteq Names
      /\ "package" \notin Bundles
      /\ Unpackings \subseteq Names /\ Unpackings \cap Bundles = {}
  BY NamesDiffer DEF Unpackings
<1>3. UNCHANGED <<bundles, disk>> => BundlesStay
  BY DEF BundlesStay, ContentsOf
<1>4. ASSUME NEW n \in Names \ Bundles, Stage(n), UNCHANGED bundles PROVE BundlesStay
  BY <1>1, <1>2, <1>4, StagePlace, BundlesUnseen
<1>5. ASSUME NEW b \in Bundles, ReadHead(b) PROVE UNCHANGED Contract!custody
  <2>1. /\ disk[b].place = "none" /\ disk'[b].place = "stage" /\ bundles[b] = NoContents
        /\ \A c \in Bundles \ {b} : disk'[c] = disk[c] /\ bundles'[c] = bundles[c]
    BY <1>1, <1>2, <1>5, StagePlace DEF ReadHead, Typed, TypeOK
  <2>2. BundlesStay
    BY <2>1 DEF BundlesStay, ContentsOf, NoContents
  <2> QED
    BY <1>1, <1>2, <1>5, <2>2, StagingUnseen DEF ReadHead
<1>6. ASSUME NEW b, VerifyBundle(b) PROVE UNCHANGED Contract!custody
  BY <1>1, <1>3, <1>6, StagingUnseen DEF VerifyBundle, content
<1>7. ASSUME NEW b, NEW configured, NEW e, NEW tested,
             BeginSeal(b, configured, e, tested)
      PROVE  UNCHANGED Contract!custody
  <2>1. disk["package"].place # "final" /\ disk'["package"].place # "final"
    BY <1>1, <1>2, <1>7, StagePlace DEF BeginSeal
  <2> QED
    BY <1>1, <1>2, <1>4, <1>7, <2>1, StagingUnseen DEF BeginSeal
<1>8. CASE Backup
  <2>1. UNCHANGED <<disk, remote, package, unpacked>>
    BY <1>8 DEF Backup, ReadStatus, CopyDatabase, CompareIdentity, RecheckDeployment,
       content
  <2>2. \A b \in Bundles : b # jobs["timer"].name => bundles'[b] = bundles[b]
    BY <1>1, <1>8 DEF Backup, ReadStatus, CopyDatabase, CompareIdentity,
       RecheckDeployment, content, Typed, TypeOK
  <2>3. BundlesStay
    BY <1>1, <1>8, <2>1, <2>2, BackupStages, BundlesUnseen
  <2> QED
    BY <1>1, <2>1, <2>3, StagingUnseen
<1>9. CASE Seal
  <2>1. UNCHANGED <<disk, remote, bundles, unpacked>>
    BY <1>9 DEF Seal, HashSources, ArchiveFile, RehashSources, content
  <2> QED
    BY <1>1, <1>3, <1>9, <2>1, SealStages, StagingUnseen
<1>10. CASE Retrieve
  <2>1. UNCHANGED content /\ (UNCHANGED disk \/ Stage("retrieved"))
    BY <1>10 DEF Retrieve, BeginRetrieve, Download, CompareDownload
  <2>2. "retrieved" \in Names \ Bundles
    BY NamesDiffer
  <2> QED
    BY <1>1, <1>3, <1>4, <2>1, <2>2, StagingUnseen DEF content
<1>11. ASSUME NEW n \in Unpackings, BeginUnpacking(n) PROVE UNCHANGED Contract!custody
  <2>1. n \in Names \ Bundles
    BY <1>2
  <2> QED
    BY <1>1, <1>4, <1>11, <2>1, StagingUnseen DEF BeginUnpacking, content
<1>12. CASE Unpack
  <2>1. "recoverer" \in Actors /\ jobs["recoverer"].pc = "unpack"
    BY <1>12 DEF Actors, Unpack, At
  <2>2. disk[jobs["recoverer"].name].place = "stage"
    BY <1>1, <2>1 DEF Directories, Placed
  <2>3. \A n \in Unpackings : n # jobs["recoverer"].name => unpacked'[n] = unpacked[n]
    BY <1>1, <1>12 DEF Unpack, Typed, TypeOK
  <2> QED
    BY <1>1, <1>3, <1>12, <2>2, <2>3, StagingUnseen DEF Unpack
<1>13. CASE CheckUnpacked
  BY <1>1, <1>3, <1>13, StagingUnseen DEF CheckUnpacked, content
<1>14. CASE Test
  BY <1>1, <1>3, <1>14, StagingUnseen DEF Test, Qualify, RestoreTest
<1> QED
  BY <1>5, <1>6, <1>7, <1>8, <1>9, <1>10, <1>11, <1>12, <1>13, <1>14 DEF Begin, Recover

LEMMA UploadStores ==
  ASSUME Sound, Upload
  PROVE  Contract!Store
<1>1. /\ remote = NoPackage /\ disk["package"].place = "final" /\ remote' = package
      /\ UNCHANGED <<bundles, package, unpacked, disk>>
  BY DEF Upload, Whole
<1>2. ShelfStays /\ BundlesStay /\ RecoveredStay /\ Sealed' = Sealed
  BY <1>1 DEF ShelfStays, BundlesStay, RecoveredStay, ShelfOf, ContentsOf, FilesOf,
     Sealed, SealedAs
<1>3. SealedAs(remote) = Contract!NoPackage
  BY <1>1 DEF SealedAs, NoPackage, Contract!NoPackage, Contract!Package
<1>4. Contract!IsThere("package")
  BY <1>1, NamesDiffer DEF Contract!IsThere, ShelfOf
<1>5. SealedAs(remote)' = Sealed
  BY <1>1 DEF SealedAs, Sealed
<1> QED
  BY <1>1, <1>2, <1>3, <1>4, <1>5
     DEF Contract!Store, ShelfStays, BundlesStay, RecoveredStay

-----------------------------------------------------------------------------
(* What publishing shows *)

\* A name is on the disk of what has been published only.
Unnamed == \A n \in Names : disk[n].place # "final" => ~disk[n].named

LEMMA InitUnnamed == Init => Unnamed
BY DEF Init, Unnamed, Absence

LEMMA NextUnnamed ==
  ASSUME Sound, Unnamed, [Next]_vars
  PROVE  Unnamed'
<1>1. Typed /\ Directories /\ disk \in [Names -> Directory]
  BY DEF Sound, Typed, TypeOK, Directory
<1>2. Absence.named = FALSE /\ Staged.named = FALSE
  BY DEF Absence, Staged
<1>3. UNCHANGED disk => Unnamed'
  BY DEF Unnamed
<1>4. ASSUME NEW n \in Names, Stage(n) PROVE Unnamed'
  BY <1>1, <1>2, <1>4 DEF Unnamed, Stage
<1>5. ASSUME NEW a \in Actors, Flush(a) PROVE Unnamed'
  <2>1. \A n \in Names : disk'[n].named = disk[n].named /\ disk'[n].place = disk[n].place
    BY <1>1, <1>5 DEF Flush, Directory
  <2> QED
    BY <2>1 DEF Unnamed
<1>6. ASSUME NEW a \in Actors, Rename(a) PROVE Unnamed'
  BY <1>1, <1>6, RenamePlaces DEF Unnamed
<1>7. ASSUME NEW a \in Actors, SyncName(a) PROVE Unnamed'
  <2>1. disk[jobs[a].name].place = "final"
    BY <1>1, <1>7 DEF SyncName, At, Directories, Placed
  <2>2. \A n \in Names : disk'[n].place = disk[n].place
    BY <1>1, <1>7, PlacesKept
  <2>3. \A n \in Names \ {jobs[a].name} : disk'[n] = disk[n]
    BY <1>1, <1>7 DEF SyncName
  <2> QED
    BY <2>1, <2>2, <2>3 DEF Unnamed
<1>8. ASSUME NEW a \in Actors, Fail(a) PROVE Unnamed'
  BY <1>1, <1>2, <1>8, FailForgets DEF Unnamed
<1>9. ASSUME NEW actors, NEW names \in SUBSET Names, PowerLoss(actors, names)
      PROVE  Unnamed'
  BY <1>1, <1>2, <1>9, PowerLossEffect DEF Unnamed
<1>10. Begin => UNCHANGED disk \/ \E n \in Names : Stage(n)
  BY NamesDiffer DEF Begin, ReadHead, VerifyBundle, BeginSeal
<1>11. Backup \/ Test \/ Seal \/ Upload => UNCHANGED disk
  BY DEF Backup, ReadStatus, CopyDatabase, CompareIdentity, RecheckDeployment, Test,
     Qualify, RestoreTest, Seal, HashSources, ArchiveFile, RehashSources, Upload
<1>12. Retrieve \/ Recover => UNCHANGED disk \/ \E n \in Names : Stage(n)
  BY NamesDiffer DEF Retrieve, BeginRetrieve, Download, CompareDownload, Recover,
     BeginUnpacking, Unpack, CheckUnpacked
<1>13. SourceNames \in SUBSET Names /\ RecoveryNames \in SUBSET Names
  BY DEF Names
<1> QED
  BY <1>3, <1>4, <1>5, <1>6, <1>7, <1>8, <1>9, <1>10, <1>11, <1>12, <1>13
     DEF Next, Publish, Surroundings, Checkout, RestartService, EditTracked,
         ReplaceDatabase, EditConfiguration, Damage, vars

LEMMA RenameAppears ==
  ASSUME Typed, Directories, Unnamed, NEW a \in Actors, Rename(a),
         NEW n \in Names, n = jobs[a].name
  PROVE  /\ Contract!Appear(n)
         /\ disk[n].place = "stage" /\ disk'[n].place = "final"
         /\ \A m \in Names \ {n} : disk'[m] = disk[m]
<1>1. /\ disk[n].place = "stage" /\ disk'[n].place = "final"
      /\ disk'[n].named = disk[n].named
      /\ \A m \in Names \ {n} : disk'[m] = disk[m]
  BY RenamePlaces
<1>2. ShelfOf(n) = "absent" /\ ShelfOf(n)' = "visible"
  BY <1>1 DEF ShelfOf, Unnamed
<1>3. \A m \in Names \ {n} : ShelfOf(m)' = ShelfOf(m)
  BY <1>1 DEF ShelfOf
<1> QED
  BY <1>1, <1>2, <1>3 DEF Contract!Appear, Contract!IsThere

LEMMA BackupPublishes ==
  ASSUME Sound, CustodyConsistent, Unnamed, Rename("timer")
  PROVE  \E b \in Bundles \ Earlier : Contract!PublishBundle(b)
<1>1. Typed /\ Directories /\ "timer" \in Actors /\ jobs["timer"].pc = "rename"
  BY DEF Sound, Actors, Rename, At
<1>2. PICK b \in Bundles : b = jobs["timer"].name
  BY <1>1, JobsDiffer DEF Directories, At, TimerJobs
<1>3. /\ disk[b].place = "stage" /\ disk'[b].place = "final"
      /\ Contract!Appear(b) /\ \A m \in Names \ {b} : disk'[m] = disk[m]
  BY <1>1, <1>2, RenameAppears, NamesDiffer
<1>4. UNCHANGED <<bundles, package, unpacked, remote>>
  BY DEF Rename, content
<1>5. /\ Bundles \subseteq Names /\ Unpackings \subseteq Names /\ "package" \in Names
      /\ b # "package" /\ b \notin Unpackings
  BY <1>2, NamesDiffer DEF Unpackings
<1>6. b \notin Earlier
  BY <1>3 DEF CustodyConsistent, Backed
<1>7. bundles[b].commit \in 1 .. MaxHead /\ bundles[b].schema \in 1 .. MaxHead
  <2>1. bundles[b].commit # 0 /\ bundles[b].schema # 0
    BY <1>1, <1>2, <1>3
       DEF Sound, EvidenceConsistent, CustodyConsistent, Backed, Publishing
  <2>2. bundles[b].commit \in 0 .. MaxHead /\ bundles[b].schema \in 0 .. MaxHead
    BY <1>1, <1>2 DEF Typed, TypeOK
  <2> QED
    BY <2>1, <2>2, BoundsAreNat
<1>8. /\ ContentsOf(b) = Contract!Blank
      /\ ContentsOf(b)' = [commit |-> bundles[b].commit, schema |-> bundles[b].schema]
      /\ \A c \in Bundles \ {b} : ContentsOf(c)' = ContentsOf(c)
  BY <1>3, <1>4, <1>5 DEF ContentsOf, Contract!Blank
<1>9. [c \in Bundles |-> ContentsOf(c)]' =
        [[c \in Bundles |-> ContentsOf(c)] EXCEPT ![b] =
          [commit |-> bundles[b].commit, schema |-> bundles[b].schema]]
  BY <1>2, <1>8
<1>10. Sealed' = Sealed
  BY <1>3, <1>4, <1>5 DEF Sealed, SealedAs
<1>11. \A n \in Unpackings : FilesOf(n)' = FilesOf(n)
  BY <1>3, <1>4, <1>5 DEF FilesOf
<1>12. SealedAs(remote)' = SealedAs(remote)
  BY <1>4 DEF SealedAs
<1>13. Contract!PublishBundle(b)
  BY <1>2, <1>3, <1>4, <1>7, <1>8, <1>9, <1>10, <1>11, <1>12
     DEF Contract!PublishBundle
<1> QED
  BY <1>2, <1>6, <1>13

LEMMA SealSeals ==
  ASSUME Sound, CustodyConsistent, Unnamed, Rename("operator")
  PROVE  \E b \in Bundles : Contract!Seal(b)
<1>1. /\ Typed /\ Directories /\ "operator" \in Actors /\ jobs["operator"].pc = "rename"
      /\ "package" \in Names /\ "package" \notin Bundles /\ "package" \notin Unpackings
      /\ Bundles \subseteq Names /\ Unpackings \subseteq Names
  BY NamesDiffer DEF Sound, Actors, Rename, At, Unpackings
<1>2. jobs["operator"].name = "package"
  BY <1>1, JobsDiffer DEF Directories, At, OperatorJobs
<1>3. /\ disk["package"].place = "stage" /\ disk'["package"].place = "final"
      /\ Contract!Appear("package") /\ \A m \in Names \ {"package"} : disk'[m] = disk[m]
  BY <1>1, <1>2, RenameAppears
<1>4. UNCHANGED <<bundles, package, unpacked, remote>>
  BY DEF Rename, content
<1>5. PICK b \in Bundles : b = package.bundle /\ disk[b].place = "final"
  BY <1>1 DEF CustodyConsistent, Sealing
<1>6. Contract!IsThere(b)
  BY <1>1, <1>5 DEF Contract!IsThere, ShelfOf
<1>7. package \in Packages
  BY <1>1 DEF Typed, TypeOK
<1>8. /\ package.configured \in BOOLEAN /\ package.inventory \in Inventories
      /\ package.evidence \in {NoBundle, b} /\ package.tested \in BOOLEAN
      /\ package.tested => package.evidence = b /\ Startable(b)
      /\ package.configured \/ package.inventory["configuration"] = "absent"
  BY <1>1, <1>5, <1>7
     DEF Packages, Sound, EvidenceConsistent, Certified, CustodyConsistent, Sealing,
         Publishing
<1>9. Sealed' = Contract!Package(b, package.configured, package.evidence,
                                 package.tested, package.inventory)
  BY <1>3, <1>4, <1>5 DEF Sealed, SealedAs, Contract!Package
<1>10. \A c \in Bundles : ContentsOf(c)' = ContentsOf(c)
  BY <1>1, <1>3, <1>4 DEF ContentsOf
<1>11. \A n \in Unpackings : FilesOf(n)' = FilesOf(n)
  BY <1>1, <1>3, <1>4 DEF FilesOf
<1>12. SealedAs(remote)' = SealedAs(remote)
  BY <1>4 DEF SealedAs
<1>13. package.tested => Contract!Startable(b)
  BY <1>5, <1>8 DEF Contract!Startable, Startable, ContentsOf
<1>14. Contract!Seal(b)
  BY <1>3, <1>4, <1>6, <1>8, <1>9, <1>10, <1>11, <1>12, <1>13 DEF Contract!Seal
<1> QED
  BY <1>14

LEMMA RecovererPublishes ==
  ASSUME Sound, CustodyConsistent, Unnamed, Rename("recoverer")
  PROVE  Contract!Retrieve \/ \E n \in Unpackings : Contract!Recover(n)
<1>1. /\ Typed /\ Directories /\ "recoverer" \in Actors
      /\ jobs["recoverer"].pc = "rename" /\ "rename" \in Publishing
      /\ Bundles \subseteq Names \ RecoveryNames
      /\ "package" \in Names \ RecoveryNames
      /\ Unpackings \subseteq RecoveryNames /\ RecoveryNames \subseteq Names
      /\ "retrieved" \notin Unpackings
  BY NamesDiffer DEF Sound, Actors, Rename, At, Publishing, Names, SourceNames, Unpackings
<1>2. PICK n \in RecoveryNames : n = jobs["recoverer"].name
  BY <1>1, HostsDiffer DEF At
<1>3. /\ disk[n].place = "stage" /\ disk'[n].place = "final"
      /\ Contract!Appear(n) /\ \A m \in Names \ {n} : disk'[m] = disk[m]
  BY <1>1, <1>2, RenameAppears
<1>4. UNCHANGED <<bundles, package, unpacked, remote>>
  BY DEF Rename, content
<1>5. SealedAs(remote) # Contract!NoPackage
  <2>1. remote # NoPackage
    BY <1>1 DEF Sound, RecoveryConsistent, At
  <2>2. remote.bundle \in Bundles
    BY <2>1 DEF CustodyConsistent, Sealing
  <2>3. SealedAs(remote).bundle = remote.bundle /\ Contract!NoPackage.bundle = NoBundle
    BY DEF SealedAs, Contract!NoPackage, Contract!Package
  <2> QED
    BY <2>2, <2>3, NoBundleIsNone
<1>6. \A c \in Bundles : ContentsOf(c)' = ContentsOf(c)
  BY <1>1, <1>3, <1>4 DEF ContentsOf
<1>7. \A m \in Unpackings \ {n} : FilesOf(m)' = FilesOf(m)
  BY <1>1, <1>3, <1>4 DEF FilesOf
<1>8. Sealed' = Sealed /\ SealedAs(remote)' = SealedAs(remote)
  BY <1>1, <1>3, <1>4 DEF Sealed, SealedAs
<1>9. CASE n = "retrieved"
  BY <1>1, <1>3, <1>4, <1>5, <1>6, <1>7, <1>8, <1>9 DEF Contract!Retrieve
<1>10. CASE n \in Unpackings
  <2>1. Recoverable(unpacked[n])
    BY <1>1, <1>2, <1>10 DEF Sound, RecoveryConsistent
  <2>2. /\ SealedAs(remote).inventory = unpacked[n]
        /\ SealedAs(remote).inventory["bundle"] = "intact"
    BY <2>1 DEF Recoverable, SealedAs
  <2>3. n = "verified" => ~SealedAs(remote).configured
    BY <1>1, <1>2 DEF CustodyConsistent, Verifying, SealedAs
  <2>4. FilesOf(n)' = unpacked[n]
    BY <1>3, <1>4 DEF FilesOf
  <2>5. [m \in Unpackings |-> FilesOf(m)]' =
          [[m \in Unpackings |-> FilesOf(m)] EXCEPT ![n] = SealedAs(remote).inventory]
    BY <1>7, <1>10, <2>2, <2>4
  <2>6. Contract!Recover(n)
    BY <1>3, <1>4, <1>5, <1>6, <1>8, <2>2, <2>3, <2>5 DEF Contract!Recover
  <2> QED
    BY <1>10, <2>6
<1> QED
  BY <1>9, <1>10 DEF RecoveryNames

LEMMA FlushHides ==
  ASSUME Sound, NEW a \in Actors, Flush(a)
  PROVE  UNCHANGED Contract!custody
<1>1. Typed /\ disk \in [Names -> Directory]
  BY DEF Sound, Typed, TypeOK, Directory
<1>2. \A n \in Names : disk'[n].place = disk[n].place /\ disk'[n].named = disk[n].named
  BY <1>1 DEF Flush, Directory
<1>3. UNCHANGED <<bundles, package, unpacked, remote>>
  BY DEF Flush, content
<1>4. ShelfStays /\ BundlesStay /\ Sealed' = Sealed /\ RecoveredStay
  BY <1>2, <1>3, PlacesUnseen, BundlesUnseen, PackageUnseen, FilesUnseen, NamesDiffer
<1> QED
  BY <1>3, <1>4, Unseen

LEMMA SyncLasts ==
  ASSUME Sound, NEW a \in Actors, SyncName(a)
  PROVE  UNCHANGED Contract!custody \/ \E n \in Names : Contract!Last(n)
<1>1. Typed /\ Directories /\ disk \in [Names -> Directory]
  BY DEF Sound, Typed, TypeOK, Directory
<1>2. PICK n \in Names : n = jobs[a].name
  BY <1>1 DEF Typed, TypeOK
<1>3. disk[n].place = "final"
  BY <1>1, <1>2 DEF SyncName, At, Directories, Placed
<1>4. /\ disk'[n] = [disk[n] EXCEPT !.named = TRUE]
      /\ \A m \in Names \ {n} : disk'[m] = disk[m]
  BY <1>1, <1>2 DEF SyncName
<1>5. disk'[n].place = "final" /\ disk'[n].named
  BY <1>1, <1>3, <1>4 DEF Directory
<1>6. UNCHANGED <<bundles, package, unpacked, remote>>
  BY DEF SyncName, content
<1>7. BundlesStay /\ Sealed' = Sealed /\ RecoveredStay
  BY <1>3, <1>4, <1>5, <1>6, BundlesUnseen, PackageUnseen, FilesUnseen, NamesDiffer
<1>8. ShelfOf(n)' = "lasting" /\ \A m \in Names \ {n} : ShelfOf(m)' = ShelfOf(m)
  BY <1>4, <1>5 DEF ShelfOf
<1>9. CASE disk[n].named
  <2>1. ShelfStays
    BY <1>3, <1>8, <1>9 DEF ShelfStays, ShelfOf
  <2> QED
    BY <1>6, <1>7, <2>1, Unseen
<1>10. CASE ~disk[n].named
  <2>1. ShelfOf(n) = "visible"
    BY <1>3, <1>10 DEF ShelfOf
  <2>2. SealedAs(remote)' = SealedAs(remote)
    BY <1>6 DEF SealedAs
  <2>3. Contract!Last(n)
    BY <1>6, <1>7, <1>8, <2>1, <2>2 DEF Contract!Last, BundlesStay, RecoveredStay
  <2> QED
    BY <2>3
<1> QED
  BY <1>9, <1>10

\* A bundle that is forgotten was staged: nothing of it had been seen.
LEMMA ForgottenUnseen ==
  ASSUME Typed, NEW gone \in SUBSET Names, Forget(gone),
         \A n \in gone : disk'[n] = Absence,
         \A b \in Bundles : disk[b].place = "stage" /\ disk'[b].place # "stage" => b \in gone,
         \A b \in Bundles : disk'[b].place = "stage" => disk[b].place = "stage"
  PROVE  BundlesStay
<1>1. \A b \in Bundles :
        bundles'[b] = IF b \in gone /\ disk[b].place = "stage" THEN NoContents
                      ELSE bundles[b]
  BY DEF Forget
<1>2. NoContents.commit = 0 /\ NoContents.schema = 0
  BY DEF NoContents
<1> QED
  BY <1>1, <1>2 DEF BundlesStay, ContentsOf, Absence

LEMMA FailHides ==
  ASSUME Sound, NEW a \in Actors, Fail(a)
  PROVE  UNCHANGED Contract!custody
<1>1. Typed /\ Absence.place = "none"
  BY DEF Sound, Absence
<1>2. PICK gone \in SUBSET Names :
        /\ Forget(gone)
        /\ \A n \in gone : n = jobs[a].name /\ disk[n].place = "stage"
        /\ \A n \in Names : disk'[n] = IF n \in gone THEN Absence ELSE disk[n]
  BY <1>1, FailForgets
<1>3. /\ Bundles \subseteq Names /\ Unpackings \subseteq Names /\ "package" \in Names
  BY NamesDiffer
<1>4. ShelfStays
  BY <1>1, <1>2, PlacesUnseen
<1>5. BundlesStay
  BY <1>1, <1>2, <1>3, ForgottenUnseen
<1>6. Sealed' = Sealed
  BY <1>1, <1>2, <1>3, PackageUnseen DEF Forget
<1>7. RecoveredStay
  BY <1>1, <1>2, <1>3, FilesUnseen DEF Forget
<1> QED
  BY <1>2, <1>4, <1>5, <1>6, <1>7, Unseen DEF Forget

LEMMA PowerLossLoses ==
  ASSUME Sound, NEW actors, NEW names \in SUBSET Names, PowerLoss(actors, names)
  PROVE  \E gone \in SUBSET {n \in Names : ShelfOf(n) = "visible"} : Contract!Lose(gone)
<1>1. Typed /\ Directories /\ Absence.place = "none"
  BY DEF Sound, Absence
<1>2. /\ Bundles \subseteq Names /\ Unpackings \subseteq Names /\ "package" \in Names
  BY NamesDiffer
<1>3. PICK forgotten \in SUBSET names :
        /\ Forget(forgotten) /\ \A n \in forgotten : disk'[n] = Absence
        /\ \A n \in names : disk[n].place = "stage" => n \in forgotten
  BY <1>1, PowerLossForgets
<1>4. /\ \A n \in Names \ names : disk'[n] = disk[n]
      /\ \A n \in Names :
           \/ disk'[n].place = "none" /\ (disk[n].place = "final" => ~disk[n].named)
           \/ disk'[n].place = disk[n].place /\ disk'[n].named = disk[n].named
  BY <1>1, PowerLossEffect
<1> DEFINE gone == {n \in Names : disk[n].place = "final" /\ disk'[n].place # "final"}
<1>5. gone \subseteq {n \in Names : ShelfOf(n) = "visible"}
  BY <1>4 DEF ShelfOf
<1>6. \A n \in Names : ShelfOf(n)' = IF n \in gone THEN "absent" ELSE ShelfOf(n)
  BY <1>4 DEF ShelfOf
<1>7. BundlesStay
  BY <1>1, <1>2, <1>3, <1>4, ForgottenUnseen
<1>8. Sealed' = IF "package" \in gone THEN Contract!NoPackage ELSE Sealed
  <2>1. SealedAs(NoPackage) = Contract!NoPackage
    BY DEF SealedAs, NoPackage, Contract!NoPackage, Contract!Package
  <2>2. disk'["package"].place = "final" => package' = package
    BY <1>1, <1>2, <1>3 DEF Forget
  <2> QED
    BY <1>2, <1>4, <2>1, <2>2 DEF Sealed, SealedAs
<1>9. \A n \in Unpackings : FilesOf(n)' = IF n \in gone THEN NoFiles ELSE FilesOf(n)
  <2>1. \A n \in Unpackings : disk'[n].place = "final" => unpacked'[n] = unpacked[n]
    BY <1>1, <1>2, <1>3 DEF Forget
  <2> QED
    BY <1>2, <1>4, <2>1 DEF FilesOf
<1>10. SealedAs(remote)' = SealedAs(remote)
  BY <1>3 DEF Forget, SealedAs
<1> HIDE DEF gone
<1>11. Contract!Lose(gone)
  BY <1>2, <1>6, <1>7, <1>8, <1>9, <1>10 DEF Contract!Lose, BundlesStay
<1> QED
  BY <1>5, <1>11

LEMMA SurroundingsHide ==
  ASSUME Typed, Surroundings \/ UNCHANGED vars,
         ~PowerLoss({"timer", "operator"}, SourceNames),
         ~PowerLoss({"recoverer"}, RecoveryNames)
  PROVE  UNCHANGED Contract!custody
<1>1. UNCHANGED <<package, unpacked, remote, disk>>
  BY DEF Surroundings, Checkout, RestartService, EditTracked, ReplaceDatabase,
     EditConfiguration, Damage, vars, content
<1>2. \A b \in Bundles : /\ bundles'[b].commit = bundles[b].commit
                         /\ bundles'[b].schema = bundles[b].schema
  BY DEF Typed, TypeOK, Surroundings, Checkout, RestartService, EditTracked,
     ReplaceDatabase, EditConfiguration, Damage, vars, content
<1>3. ShelfStays /\ BundlesStay /\ Sealed' = Sealed /\ RecoveredStay
  BY <1>1, <1>2, PlacesUnseen, BundlesUnseen, PackageUnseen, FilesUnseen
<1> QED
  BY <1>1, <1>3, Unseen

LEMMA StepKept ==
  ASSUME Sound, CustodyConsistent, Unnamed, [Next]_vars
  PROVE  [Contract!Next]_Contract!custody
<1>1. Typed
  BY DEF Sound
<1>2. Begin \/ Backup \/ Test \/ Seal \/ Retrieve \/ Recover => UNCHANGED Contract!custody
  BY CommandsHide
<1>3. Upload => Contract!Next
  BY UploadStores DEF Contract!Next
<1>4. ASSUME NEW a \in Actors, Rename(a) PROVE Contract!Next
  BY <1>4, BackupPublishes, SealSeals, RecovererPublishes DEF Actors, Contract!Next
<1>5. ASSUME NEW a \in Actors, Flush(a) \/ SyncName(a) \/ Fail(a)
      PROVE  [Contract!Next]_Contract!custody
  BY <1>5, FlushHides, SyncLasts, FailHides DEF Contract!Next
<1>6. ASSUME NEW actors, NEW names \in SUBSET Names, PowerLoss(actors, names)
      PROVE  Contract!Next
  BY <1>6, PowerLossLoses DEF Contract!Next
<1>7. Surroundings \/ UNCHANGED vars => [Contract!Next]_Contract!custody
  BY <1>1, <1>6, SurroundingsHide DEF Names
<1> QED
  BY <1>2, <1>3, <1>4, <1>5, <1>7 DEF Next, Publish

\* From the live deployment to the directory recovered on another host, the commands
\* keep what CustodyContract promises: identities are published once, packages are of
\* bundles that were there, with reports that name them and claim no start that would
\* not succeed, and what is recovered is what was sealed, for any bundles,
\* configurations and bounds, at whatever steps commands are terminated and power is
\* lost.
THEOREM KeepsCustody == Spec => ImplementsContract
<1>1. Spec => [](Sound /\ CustodyConsistent /\ Unnamed)
  BY InitUnnamed, NextUnnamed, AlwaysCustody, PTL DEF Spec
<1> QED
  BY <1>1, InitKept, StepKept, PTL DEF Spec, ImplementsContract, Contract!Spec
=============================================================================
