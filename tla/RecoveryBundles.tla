-------------------------- MODULE RecoveryBundles --------------------------
(***************************************************************************)
(* From the live deployment to a directory recovered on another host: the  *)
(* commands of scripts/saaoe_recovery.py, seal, retrieve and decrypt of    *)
(* scripts/saaoe_offhost.py, scripts/saaoe_qualify.py and                  *)
(* scripts/saaoe_windows_verify.py.                                        *)
(*                                                                         *)
(* Each command checks its inputs, fills a staging directory, flushes it   *)
(* and renames it; the deployment, the files it reads and the power of the *)
(* host change meanwhile.  What lies between seal and retrieve is the      *)
(* subject of OffhostUpload; here it is one step.                          *)
(*                                                                         *)
(* A bundle's four files are one content, intact or broken, and so are all *)
(* configuration files together.  Hashes are the contents they stand for,  *)
(* and the hashes an operator keeps outside the hosts are the true ones.   *)
(* Every commit has a schema of its own, and a database that replaces       *)
(* another is never taken for it.  Reports are not changed once they are    *)
(* written, and one that says that a release has been started was written   *)
(* by a command that started it; no other report is assumed to be anyone's. *)
(***************************************************************************)
EXTENDS Naturals

CONSTANTS
  Bundles,          \* identities that backups draw
  Earlier,          \* bundles of the past, of which only reports are left
  Configurations,   \* contents of the configuration files
  NoBundle,
  MaxHead,          \* bounds for model checking: commits to deploy, and
  MaxEdits          \* changes to the deployment and to files around the commands

ASSUME NoBundleIsNone   == NoBundle \notin Bundles
ASSUME EarlierBundles   == Earlier \subseteq Bundles
ASSUME DirectoriesDiffer ==
  Bundles \cap {"package", "retrieved", "recovered", "verified"} = {}
ASSUME BoundsAreNat     == MaxHead \in Nat \ {0} /\ MaxEdits \in Nat

VARIABLES
  deployment,     \* HEAD, its cleanness, the live schema, the database's inode
  configuration,  \* the configuration files of the source host
  bundles,        \* bundles[b]: what the files of b say
  package,        \* what seal put into the ciphertext, and what it recorded
  unpacked,       \* unpacked[n]: contents of the directories that came of it
  evidence,       \* bundles of which a report says that the release started
  remote,         \* the package that is stored off the host, with a receipt
  damaged,        \* directories a file of which has changed on disk
  disk,           \* disk[n]: whether n is staged or final, and flushed
  jobs,           \* jobs[a]: the command that a runs, its step and its n
  reported,       \* directories whose command has reported success
  edits

surroundings == <<deployment, configuration, edits>>
content == <<bundles, package, unpacked, evidence, remote>>
vars == <<surroundings, content, damaged, disk, jobs, reported>>

\* The timer makes backups; operators test and seal on the source host, and
\* retrieve and unpack on the recovery host, each one command at a time.
Actors == {"timer", "operator", "recoverer"}

SourceNames   == Bundles \cup {"package"}
Unpackings    == {"recovered", "verified"}
RecoveryNames == {"retrieved"} \cup Unpackings
Names         == SourceNames \cup RecoveryNames

\* Every file of the directory is flushed before its name is given to it:
\* decrypt flushes no entry of a nested directory, verify_archive nothing.
FullyFlushed == Bundles \cup {"package", "retrieved"}

Files == {"bundle", "configuration"}

Absence == [place |-> "none", flushed |-> FALSE, named |-> FALSE,
            torn |-> FALSE]
Staged  == [Absence EXCEPT !.place = "stage"]
Idle    == [pc |-> "idle", name |-> "package"]
Pcs == {"idle", "status", "copy", "identity", "recheck", "run", "hash", "read",
        "download", "compare", "unpack", "check", "flush", "rename", "sync"}
Job(pc, n) == [pc |-> pc, name |-> n]

\* The commit that HEAD named first and the schema that was copied; opened says
\* that the database copied was the one looked at before, under that it was
\* copied under the commit, moved how often HEAD has moved meanwhile.
NoContents == [commit |-> 0, schema |-> 0, source |-> 0, opened |-> TRUE,
               under |-> TRUE, moved |-> 0]
NoFiles    == [f \in Files |-> "absent"]

\* evidence is the bundle that the sealed report names; tested, whether the report
\* says that its release was started.  One report stands for the hundred.
NoPackage  == [bundle |-> NoBundle, configured |-> FALSE, evidence |-> NoBundle,
               tested |-> FALSE, inventory |-> NoFiles, archived |-> NoFiles]

Init ==
  /\ deployment = [head |-> 1, clean |-> TRUE, schema |-> 1, database |-> 1]
  /\ configuration \in Configurations
  /\ bundles = [b \in Bundles |-> NoContents]
  /\ package = NoPackage
  /\ unpacked = [n \in Unpackings |-> NoFiles]
  /\ evidence = Earlier
  /\ remote = NoPackage
  /\ damaged = {}
  /\ disk = [n \in Names |-> Absence]
  /\ jobs = [a \in Actors |-> Idle]
  /\ reported = {}
  /\ edits = 0

\* a is at the step pc, and goes on to pc.
At(a, pc)   == jobs[a].pc = pc
GoTo(a, pc) == jobs' = [jobs EXCEPT ![a].pc = pc]

\* a starts a command on n at the step pc.
Start(a, n, pc) ==
  /\ At(a, "idle")
  /\ jobs' = [jobs EXCEPT ![a] = Job(pc, n)]

\* Variant: what is under the name already is replaced.
StageOver(n) == disk' = [disk EXCEPT ![n] = Staged]

\* It fills a staging directory of n.  One that an earlier command has left is
\* never touched again, and nothing says what is in it.
Stage(n) ==
  /\ disk[n].place = "none"
  /\ disk' = [disk EXCEPT ![n] = Staged]

\* What is known of the directories that are gone.  The identity of a bundle that
\* was published is not drawn again.
Forget(gone) ==
  /\ bundles' = [b \in Bundles |->
       IF b \in gone /\ disk[b].place = "stage" THEN NoContents ELSE bundles[b]]
  /\ package' = IF "package" \in gone THEN NoPackage ELSE package
  /\ unpacked' = [n \in Unpackings |-> IF n \in gone THEN NoFiles ELSE unpacked[n]]
  /\ damaged' = damaged \ gone
  /\ UNCHANGED <<evidence, remote>>

\* The directory is under its final name and its files are what was written.
Whole(n) == disk[n].place = "final" /\ ~disk[n].torn /\ n \notin damaged

-----------------------------------------------------------------------------
(* The commands share how they publish.  The files of the staging directory *)
(* are flushed, it is renamed, and the directory that holds it is flushed.  *)

Flush(a) ==
  /\ At(a, "flush")
  /\ disk' = [disk EXCEPT ![jobs[a].name].flushed =
                jobs[a].name \in FullyFlushed]
  /\ GoTo(a, "rename")
  /\ UNCHANGED <<surroundings, content, damaged, reported>>

\* Variant: success is reported before the name is on the disk.
RenameReporting(a) ==
  /\ At(a, "rename")
  /\ disk' = [disk EXCEPT ![jobs[a].name].place = "final"]
  /\ GoTo(a, IF jobs[a].name = "verified" THEN "idle" ELSE "sync")
  /\ reported' = reported \cup {jobs[a].name}
  /\ UNCHANGED <<surroundings, content, damaged>>

\* verify_archive ends here.
Rename(a) ==
  /\ At(a, "rename")
  /\ disk' = [disk EXCEPT ![jobs[a].name].place = "final"]
  /\ IF jobs[a].name = "verified"
     THEN GoTo(a, "idle") /\ reported' = reported \cup {"verified"}
     ELSE GoTo(a, "sync") /\ UNCHANGED reported
  /\ UNCHANGED <<surroundings, content, damaged>>

SyncName(a) ==
  /\ At(a, "sync")
  /\ disk' = [disk EXCEPT ![jobs[a].name].named = TRUE]
  /\ reported' = reported \cup {jobs[a].name}
  /\ GoTo(a, "idle")
  /\ UNCHANGED <<surroundings, content, damaged>>

\* Any step may fail, or the command be terminated there.  finally removes the
\* staging directory; termination leaves it under a name that nobody reads.
Fail(a) ==
  LET gone == {n \in {jobs[a].name} : disk[n].place = "stage"} IN
  /\ ~At(a, "idle")
  /\ jobs' = [jobs EXCEPT ![a] = Idle]
  /\ disk' = [n \in Names |-> IF n \in gone THEN Absence ELSE disk[n]]
  /\ Forget(gone)
  /\ UNCHANGED <<surroundings, reported>>

\* Of the directories of a host, names and file contents that were not flushed
\* may be lost.
PowerLoss(actors, names) ==
  \E back \in SUBSET {n \in names : disk[n].place = "final" /\ ~disk[n].named},
     lost \in SUBSET {n \in names : disk[n].place = "final" /\ ~disk[n].flushed} :
    LET gone == back \cup {n \in names : disk[n].place = "stage"} IN
    /\ disk' = [n \in Names |->
         IF n \in gone THEN Absence
         ELSE [disk[n] EXCEPT !.torn = @ \/ n \in lost]]
    /\ jobs' = [a \in Actors |-> IF a \in actors THEN Idle ELSE jobs[a]]
    /\ Forget(gone)
    /\ UNCHANGED <<surroundings, reported>>

-----------------------------------------------------------------------------
(* backup *)

\* The staging directory is made a step later, once HEAD and status are read.
ReadHead(b) ==
  /\ b \notin Earlier /\ bundles[b] = NoContents
  /\ Start("timer", b, "status")
  /\ Stage(b)
  /\ bundles' = [bundles EXCEPT ![b] =
                   [NoContents EXCEPT !.commit = deployment.head]]
  /\ UNCHANGED <<surroundings, package, unpacked, evidence, remote, damaged,
                 reported>>

\* A clean deployment; snapshot looks at the identity of the database.
ReadStatus ==
  /\ At("timer", "status")
  /\ deployment.clean
  /\ bundles' = [bundles EXCEPT ![jobs["timer"].name].source = deployment.database]
  /\ GoTo("timer", "copy")
  /\ UNCHANGED <<surroundings, package, unpacked, evidence, remote, damaged,
                 disk, reported>>

\* SQLite's online backup is of one moment of the database it has opened.
CopyDatabase ==
  LET b == jobs["timer"].name IN
  /\ At("timer", "copy")
  /\ bundles' = [bundles EXCEPT
       ![b].schema = deployment.schema,
       ![b].opened = deployment.database = bundles[b].source,
       ![b].under  = deployment.head = bundles[b].commit]
  /\ GoTo("timer", "identity")
  /\ UNCHANGED <<surroundings, package, unpacked, evidence, remote, damaged,
                 disk, reported>>

CompareIdentity ==
  /\ At("timer", "identity")
  /\ deployment.database = bundles[jobs["timer"].name].source
  /\ GoTo("timer", "recheck")
  /\ UNCHANGED <<surroundings, content, damaged, disk, reported>>

\* Variant: HEAD is not read again.
RecheckStatus ==
  /\ At("timer", "recheck")
  /\ deployment.clean
  /\ GoTo("timer", "flush")
  /\ UNCHANGED <<surroundings, content, damaged, disk, reported>>

\* The release has been archived from the commit, not from the working tree.
\* The manifest is written and the staged bundle verified against it.
RecheckDeployment ==
  /\ At("timer", "recheck")
  /\ deployment.head = bundles[jobs["timer"].name].commit
  /\ deployment.clean
  /\ GoTo("timer", "flush")
  /\ UNCHANGED <<surroundings, content, damaged, disk, reported>>

-----------------------------------------------------------------------------
(* restore-test and qualify: the release starts on a copy of the snapshot. *)

VerifyBundle(b) ==
  /\ Start("operator", b, "run")
  /\ Whole(b)
  /\ UNCHANGED <<surroundings, content, damaged, disk, reported>>

\* Starting migrates a schema that is not the release's, which is refused.
Startable(b) == bundles[b].schema = bundles[b].commit

\* The copy is not compared with the hash that the record names: a file that has
\* changed since it was verified may start where the bundle's own would not.
RestoreTest ==
  LET b == jobs["operator"].name IN
  /\ At("operator", "run")
  /\ Startable(b) \/ b \in damaged
  /\ evidence' = evidence \cup {b}
  /\ jobs' = [jobs EXCEPT !["operator"] = Idle]
  /\ UNCHANGED <<surroundings, bundles, package, unpacked, remote, damaged,
                 disk, reported>>

\* A qualification looks at the snapshot once more.
Qualify ==
  /\ jobs["operator"].name \notin damaged
  /\ RestoreTest

-----------------------------------------------------------------------------
(* seal *)

\* What a reader of the bundle, or of the configuration files, finds now.
Held(p, f) ==
  CASE f = "bundle"             -> IF Whole(p.bundle) THEN "intact" ELSE "broken"
    [] f = "configuration" /\ p.configured -> configuration
    [] OTHER                    -> "absent"

\* Variant: evidence is not compared with the bundle.
FitsAny(e, b) == e \in Bundles \cup {NoBundle} /\ b \in Bundles

\* Evidence names the bundle and the commit that it is about.  Nothing else that it
\* says is looked at: the verification that every backup writes fits as well.
Fits(e, b) == e = NoBundle \/ e = b

\* The manifest has the trusted hash and the bundle passes its verification.
BeginSeal(b, configured, e, tested) ==
  /\ Start("operator", "package", "hash")
  /\ Stage("package")
  /\ Whole(b)
  /\ Fits(e, b)
  /\ package' = [NoPackage EXCEPT !.bundle = b, !.configured = configured,
                                  !.evidence = e, !.tested = tested]
  /\ UNCHANGED <<surroundings, bundles, unpacked, evidence, remote, damaged,
                 reported>>

HashSources ==
  /\ At("operator", "hash")
  /\ package' = [package EXCEPT !.inventory = [f \in Files |-> Held(package, f)]]
  /\ GoTo("operator", "read")
  /\ UNCHANGED <<surroundings, bundles, unpacked, evidence, remote, damaged,
                 disk, reported>>

\* One file after the other goes into the archive as it is by then.
ArchiveFile(f) ==
  /\ At("operator", "read")
  /\ package.archived[f] = "absent"
  /\ f = "configuration" => package.archived["bundle"] # "absent"
  /\ Held(package, f) # "absent"
  /\ package' = [package EXCEPT !.archived[f] = Held(package, f)]
  /\ UNCHANGED <<surroundings, bundles, unpacked, evidence, remote, damaged,
                 disk, jobs, reported>>

RehashSources ==
  /\ At("operator", "read")
  /\ \A f \in Files : package.archived[f] = "absent" => Held(package, f) = "absent"
  /\ \A f \in Files : package.inventory[f] = Held(package, f)
  /\ GoTo("operator", "flush")
  /\ UNCHANGED <<surroundings, content, damaged, disk, reported>>

\* upload, and the reconciling it may take, of an intact package: one step.
Upload ==
  /\ remote = NoPackage
  /\ Whole("package")
  /\ remote' = package
  /\ UNCHANGED <<surroundings, bundles, package, unpacked, evidence, damaged,
                 disk, jobs, reported>>

-----------------------------------------------------------------------------
(* retrieve, decrypt and verify_archive, with a receipt of known hash. *)

BeginRetrieve ==
  /\ remote # NoPackage
  /\ Start("recoverer", "retrieved", "download")
  /\ Stage("retrieved")
  /\ UNCHANGED <<surroundings, content, damaged, reported>>

\* The objects may arrive as something else.
Download ==
  /\ At("recoverer", "download")
  /\ damaged' \in {damaged, damaged \cup {"retrieved"}}
  /\ GoTo("recoverer", "compare")
  /\ UNCHANGED <<surroundings, content, disk, reported>>

CompareDownload ==
  /\ At("recoverer", "compare")
  /\ "retrieved" \notin damaged
  /\ GoTo("recoverer", "flush")
  /\ UNCHANGED <<surroundings, content, damaged, disk, reported>>

\* The ciphertext has the receipt's hash.  verify_archive takes packages
\* without configuration only, and unpacks what age has decrypted for it; a
\* package goes one of the two ways.
BeginUnpacking(n) ==
  /\ Whole("retrieved")
  /\ n = "verified" => ~remote.configured
  /\ \A m \in Unpackings : disk[m].place = "none"
  /\ Start("recoverer", n, "unpack")
  /\ Stage(n)
  /\ UNCHANGED <<surroundings, content, damaged, reported>>

\* age authenticates what it reads, which may no longer be what was hashed.
Unpack ==
  /\ At("recoverer", "unpack")
  /\ Whole("retrieved")
  /\ unpacked' = [unpacked EXCEPT ![jobs["recoverer"].name] = remote.archived]
  /\ GoTo("recoverer", "check")
  /\ UNCHANGED <<surroundings, bundles, package, evidence, remote, damaged,
                 disk, reported>>

\* Variant: the files are not compared with the inventory.
RecoverableBundle(files) ==
  /\ files["bundle"] = "intact"
  /\ Fits(remote.evidence, remote.bundle)

\* The files are those of the inventory, the bundle verifies again and the
\* evidence is about it.
Recoverable(files) ==
  /\ files = remote.inventory
  /\ files["bundle"] = "intact"
  /\ Fits(remote.evidence, remote.bundle)

\* decrypt, unlike verify_archive, flushes before it publishes.
CheckUnpacked ==
  LET n == jobs["recoverer"].name IN
  /\ At("recoverer", "check")
  /\ Recoverable(unpacked[n])
  /\ GoTo("recoverer", IF n = "recovered" THEN "flush" ELSE "rename")
  /\ UNCHANGED <<surroundings, content, damaged, disk, reported>>

-----------------------------------------------------------------------------
(* What happens around the commands. *)

Edit == edits < MaxEdits /\ edits' = edits + 1

\* HEAD may come back to the commit that a backup has read.
Checkout(commit) ==
  /\ Edit
  /\ commit # deployment.head
  /\ deployment' = [deployment EXCEPT !.head = commit]
  /\ bundles' = [b \in Bundles |->
       IF jobs["timer"] \in [pc : Pcs \ {"idle"}, name : {b}]
       THEN [bundles[b] EXCEPT !.moved = @ + 1] ELSE bundles[b]]
  /\ UNCHANGED <<configuration, package, unpacked, evidence, remote, damaged,
                 disk, jobs, reported>>

\* Variant: the migration is to the schema after the release's.
RestartAhead ==
  /\ deployment.schema < deployment.head
  /\ Edit
  /\ deployment' = [deployment EXCEPT !.schema = deployment.head + 1]
  /\ UNCHANGED <<configuration, content, damaged, disk, jobs, reported>>

\* The service starts from the working tree and migrates the database.
RestartService ==
  /\ deployment.schema < deployment.head
  /\ Edit
  /\ deployment' = [deployment EXCEPT !.schema = deployment.head]
  /\ UNCHANGED <<configuration, content, damaged, disk, jobs, reported>>

\* A tracked file is changed, or is as it was committed again.
EditTracked ==
  /\ Edit
  /\ deployment' = [deployment EXCEPT !.clean = ~@]
  /\ UNCHANGED <<configuration, content, damaged, disk, jobs, reported>>

ReplaceDatabase ==
  /\ Edit
  /\ deployment' = [deployment EXCEPT !.database = @ + 1]
  /\ UNCHANGED <<configuration, content, damaged, disk, jobs, reported>>

EditConfiguration ==
  /\ Edit
  /\ configuration' \in Configurations \ {configuration}
  /\ UNCHANGED <<deployment, content, damaged, disk, jobs, reported>>

\* Of what commands read: they look at nothing that they have unpacked.
Damage(n) ==
  /\ Whole(n)
  /\ Edit
  /\ damaged' = damaged \cup {n}
  /\ UNCHANGED <<deployment, configuration, content, disk, jobs, reported>>

-----------------------------------------------------------------------------
Backup == ReadStatus \/ CopyDatabase \/ CompareIdentity \/ RecheckDeployment

Test == RestoreTest \/ Qualify

Seal ==
  \/ HashSources
  \/ \E f \in Files : ArchiveFile(f)
  \/ RehashSources

Retrieve == BeginRetrieve \/ Download \/ CompareDownload

Recover ==
  \/ \E n \in Unpackings : BeginUnpacking(n)
  \/ Unpack
  \/ CheckUnpacked

\* One package goes off the host; what begins on the source host after that
\* does not reach it.  seal is given any report, and one that says that a release
\* was started is one of those made; that is the operators' part, not the code's.
Begin ==
  /\ remote = NoPackage
  /\ \E b \in Bundles :
       \/ ReadHead(b)
       \/ VerifyBundle(b)
       \/ \E configured \in BOOLEAN, e \in Bundles \cup {NoBundle},
             tested \in BOOLEAN :
            (tested => e \in evidence) /\ BeginSeal(b, configured, e, tested)

Publish(a) == Flush(a) \/ Rename(a) \/ SyncName(a)

\* Bounds for model checking: nothing changes that no command reads any more.  Of
\* the identities that backups draw, each instance has a few.
DeploymentIsRead ==
  ~At("timer", "idle") \/ \E b \in Bundles \ Earlier : bundles[b] = NoContents
ConfigurationIsRead ==
  ~At("operator", "idle") \/ (remote = NoPackage /\ disk["package"].place # "final")

Surroundings ==
  \/ DeploymentIsRead /\ \E commit \in 1 .. MaxHead : Checkout(commit)
  \/ DeploymentIsRead /\ (RestartService \/ EditTracked \/ ReplaceDatabase)
  \/ ConfigurationIsRead /\ EditConfiguration
  \/ \E n \in Names \ Unpackings : Damage(n)
  \/ PowerLoss({"timer", "operator"}, SourceNames)
  \/ PowerLoss({"recoverer"}, RecoveryNames)

Next ==
  \/ Begin \/ Backup \/ Test \/ Seal \/ Upload \/ Retrieve \/ Recover
  \/ \E a \in Actors : Publish(a) \/ Fail(a)
  \/ Surroundings

Spec == Init /\ [][Next]_vars

-----------------------------------------------------------------------------
(* Properties *)

Contents == {"absent", "intact", "broken"} \cup Configurations
Inventories == [Files -> Contents]
Packages ==
  [bundle : Bundles \cup {NoBundle}, configured : BOOLEAN,
   evidence : Bundles \cup {NoBundle}, tested : BOOLEAN,
   inventory : Inventories, archived : Inventories]

\* The values that the records and files take.
TypeOK ==
  /\ deployment \in [head : 1 .. MaxHead, clean : BOOLEAN,
                     schema : 1 .. MaxHead, database : 1 .. MaxEdits + 1]
  /\ configuration \in Configurations
  /\ bundles \in [Bundles -> [commit : 0 .. MaxHead, schema : 0 .. MaxHead,
                              source : 0 .. MaxEdits + 1, opened : BOOLEAN,
                              under : BOOLEAN, moved : 0 .. MaxEdits]]
  /\ package \in Packages
  /\ remote \in Packages
  /\ unpacked \in [Unpackings -> Inventories]
  /\ evidence \subseteq Bundles
  /\ damaged \subseteq Names
  /\ disk \in [Names -> [place : {"none", "stage", "final"}, flushed : BOOLEAN,
                         named : BOOLEAN, torn : BOOLEAN]]
  /\ jobs \in [Actors -> [pc : Pcs, name : Names]]
  /\ reported \subseteq Names
  /\ edits \in 0 .. MaxEdits

\* A directory of these kinds that is seen under its final name is complete,
\* and one whose command has reported success stays there, whatever steps the
\* commands were terminated at and whenever the power was lost.
PublishedSurvives ==
  /\ \A n \in FullyFlushed : disk[n].place = "final" => ~disk[n].torn
  /\ \A n \in reported \ {"verified"} : disk[n].place = "final"

\* A published bundle's snapshot is of the one database that was in place from
\* before the copy to after it, and it was taken while the release that the
\* bundle carries was checked out, unless HEAD moved away and came back: neither
\* is locked, both are compared.
PairedWithItsRelease ==
  \A b \in Bundles :
    disk[b].place = "final" =>
      /\ bundles[b].opened
      /\ bundles[b].under \/ bundles[b].moved >= 2

\* What is recovered on another host is an intact bundle and the configuration
\* as it was when seal hashed it: not a file that changed while it was
\* encrypted, also if it changed back before it was hashed again.
RecoveredIsSealed ==
  \A n \in Unpackings :
    disk[n].place = "final" =>
      /\ unpacked[n]["bundle"] = "intact"
      /\ unpacked[n]["configuration"] = remote.inventory["configuration"]

\* A report that is recovered with a bundle names this bundle, and one that says
\* that the release was started is true of what is recovered, also if a file of the
\* bundle changed while the report was made: the release starts on the snapshot
\* without a migration.  A report that does not say so shows nothing of that.
EvidenceIsOfItsBundle ==
  \A n \in Unpackings :
    disk[n].place = "final" =>
      /\ remote.evidence \in {NoBundle, remote.bundle}
      /\ remote.tested => Startable(remote.bundle)

\* A directory under its final name is never filled again, by no later command
\* and after no failure: it keeps its contents for as long as it is there, and
\* once its name is on the disk it stays there.  Evidence is not taken back, and
\* nothing replaces the package off the host.
PublishedIsFinal ==
  [][/\ \A n \in Names :
          disk[n].place = "final" =>
            disk'[n].place = "final" \/ (disk'[n].place = "none" /\ ~disk[n].named)
     /\ \A b \in Bundles :
          disk[b].place = "final" =>
            [bundles'[b] EXCEPT !.moved = 0] = [bundles[b] EXCEPT !.moved = 0]
     /\ disk["package"].place = "final" =>
          package' = package \/ disk'["package"].place = "none"
     /\ \A n \in Unpackings :
          disk[n].place = "final" =>
            unpacked'[n] = unpacked[n] \/ disk'[n].place = "none"
     /\ evidence \subseteq evidence'
     /\ remote # NoPackage => remote' = remote]_vars

\* What is seen of a directory under its final name.
ShelfOf(n) ==
  IF disk[n].place # "final" THEN "absent"
  ELSE IF disk[n].named THEN "lasting" ELSE "visible"

\* What the contract sees of a bundle, of a package and of what is unpacked.
ContentsOf(b) ==
  IF disk[b].place = "stage" THEN [commit |-> 0, schema |-> 0]
  ELSE [commit |-> bundles[b].commit, schema |-> bundles[b].schema]
SealedAs(p) ==
  [bundle |-> p.bundle, configured |-> p.configured, evidence |-> p.evidence,
   tested |-> p.tested, inventory |-> p.inventory]
Sealed == SealedAs(IF disk["package"].place = "final" THEN package ELSE NoPackage)
FilesOf(n) == IF disk[n].place = "final" THEN unpacked[n] ELSE NoFiles

Contract == INSTANCE CustodyContract WITH
  Commits <- 1 .. MaxHead,
  shelf <- [n \in Names |-> ShelfOf(n)],
  contents <- [b \in Bundles |-> ContentsOf(b)],
  sealed <- Sealed,
  stored <- SealedAs(remote),
  recovered <- [n \in Unpackings |-> FilesOf(n)]

\* Every step of every command, failure and power loss is a step that the contract
\* allows, or none of its: staging, copying and hashing do not show, publishing is one
\* step, and no interleaving lets another bundle, package or file slip in between.
ImplementsContract == Contract!Spec
=============================================================================
