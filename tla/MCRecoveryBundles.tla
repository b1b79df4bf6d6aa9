------------------------ MODULE MCRecoveryBundles ------------------------
(* A small instance of RecoveryBundles for TLC. *)
EXTENDS RecoveryBundles, TLC

\* Contents are compared for equality only.
Symmetric == Permutations(Configurations)
=============================================================================
