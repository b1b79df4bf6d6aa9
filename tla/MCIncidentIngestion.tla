------------------------ MODULE MCIncidentIngestion ------------------------
(***************************************************************************)
(* Small instances of IncidentIngestion for TLC.                           *)
(***************************************************************************)
EXTENDS IncidentIngestion, TLC

\* Threads run the same code and workspaces have the same playbooks.
Symmetric == Permutations(Workers) \cup Permutations(Workspaces)
=============================================================================
