-------------------------- MODULE CustodyContract --------------------------
(***************************************************************************)
(* What the recovery scripts promise of a bundle on its way from the live  *)
(* deployment to another host, whatever commands fail or meet and whenever *)
(* the power is lost: an identity is published once, what is sealed or     *)
(* stored was there and stays what it was, a report that is sealed with it *)
(* names it and says no more of it than is so, and what arrives is what    *)
(* was sealed.  Only what is not yet on the disk is ever lost.             *)
(* RecoveryBundles implements this module.                                 *)
(***************************************************************************)
EXTENDS Naturals

CONSTANTS
  Names,          \* directories: bundles, packages and what is unpacked
  Bundles, Earlier, NoBundle,
  Commits,        \* releases, and the schemas they need
  Inventories,    \* what the hashes of the files of a package may say
  NoFiles,
  Unpackings      \* directories that a package is recovered into

VARIABLES
  shelf,          \* shelf[n]: whether n is there, and its name on the disk
  contents,       \* contents[b]: what b has been published with
  sealed,         \* the package on the source host
  stored,         \* the package off the host
  recovered       \* recovered[n]: the files in the directory n

custody == <<shelf, contents, sealed, stored, recovered>>

Blank == [commit |-> 0, schema |-> 0]
Package(b, configured, e, tested, inventory) ==
  [bundle |-> b, configured |-> configured, evidence |-> e, tested |-> tested,
   inventory |-> inventory]
NoPackage == Package(NoBundle, FALSE, NoBundle, FALSE, NoFiles)

Init ==
  /\ shelf = [n \in Names |-> "absent"]
  /\ contents = [b \in Bundles |-> Blank]
  /\ sealed = NoPackage /\ stored = NoPackage
  /\ recovered = [n \in Unpackings |-> NoFiles]

IsThere(n) == shelf[n] # "absent"
Appear(n)  == ~IsThere(n) /\ shelf' = [shelf EXCEPT ![n] = "visible"]

PublishBundle(b) ==
  /\ Appear(b)
  /\ contents[b] = Blank
  /\ \E commit, schema \in Commits :
       contents' = [contents EXCEPT ![b] = [commit |-> commit, schema |-> schema]]
  /\ UNCHANGED <<sealed, stored, recovered>>

\* The release of b starts on its snapshot without a migration.
Startable(b) == contents[b].schema = contents[b].commit

\* The bundle is there, a report that is sealed with it names it, and if it says that
\* the release was started, the release starts; it need not say so.  Of the
\* configuration nothing is sealed that was not asked for.
Seal(b) ==
  /\ IsThere(b)
  /\ Appear("package")
  /\ \E configured \in BOOLEAN, e \in {NoBundle, b}, tested \in BOOLEAN,
        inventory \in Inventories :
       /\ tested => e = b /\ Startable(b)
       /\ ~configured => inventory["configuration"] = "absent"
       /\ sealed' = Package(b, configured, e, tested, inventory)
  /\ UNCHANGED <<contents, stored, recovered>>

Store ==
  /\ stored = NoPackage
  /\ IsThere("package")
  /\ stored' = sealed
  /\ UNCHANGED <<shelf, contents, sealed, recovered>>

Retrieve ==
  /\ stored # NoPackage
  /\ Appear("retrieved")
  /\ UNCHANGED <<contents, sealed, stored, recovered>>

\* The files are what was hashed when the package was sealed, with an intact bundle;
\* a package with configuration is not unpacked for verification.
Recover(n) ==
  /\ stored # NoPackage
  /\ stored.inventory["bundle"] = "intact"
  /\ n = "verified" => ~stored.configured
  /\ Appear(n)
  /\ recovered' = [recovered EXCEPT ![n] = stored.inventory]
  /\ UNCHANGED <<contents, sealed, stored>>

\* The name of n is on the disk.
Last(n) ==
  /\ shelf[n] = "visible"
  /\ shelf' = [shelf EXCEPT ![n] = "lasting"]
  /\ UNCHANGED <<contents, sealed, stored, recovered>>

\* What a bundle was published with is remembered: its identity is not used again.
Lose(gone) ==
  /\ shelf' = [n \in Names |-> IF n \in gone THEN "absent" ELSE shelf[n]]
  /\ sealed' = IF "package" \in gone THEN NoPackage ELSE sealed
  /\ recovered' = [n \in Unpackings |-> IF n \in gone THEN NoFiles ELSE recovered[n]]
  /\ UNCHANGED <<contents, stored>>

Next ==
  \/ \E gone \in SUBSET {n \in Names : shelf[n] = "visible"} : Lose(gone)
  \/ \E b \in Bundles \ Earlier : PublishBundle(b)
  \/ \E b \in Bundles : Seal(b)
  \/ Store \/ Retrieve
  \/ \E n \in Unpackings : Recover(n)
  \/ \E n \in Names : Last(n)

Spec == Init /\ [][Next]_custody
=============================================================================
