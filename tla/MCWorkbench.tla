---------------------------- MODULE MCWorkbench ----------------------------
(* A small instance of Workbench for TLC. *)
EXTENDS Workbench, TLC

MCLists == <<"anomaly_rules", "automation_rules">>
Symmetric == Permutations(Threads)
=============================================================================
