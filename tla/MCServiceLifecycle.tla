------------------------- MODULE MCServiceLifecycle -------------------------
(* Small instances of ServiceLifecycle for TLC. *)
EXTENDS ServiceLifecycle, TLC

\* Identifiers are only compared, and commands run the same code.
Symmetric == Permutations(Pids) \cup Permutations(Commands)
=============================================================================
