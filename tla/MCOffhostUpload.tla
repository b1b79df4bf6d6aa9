-------------------------- MODULE MCOffhostUpload --------------------------
(***************************************************************************)
(* The instance of OffhostUpload that TLC checks.  Its processes and       *)
(* identifiers are model values; no symmetry is declared, because the run  *)
(* has a liveness property.                                                *)
(***************************************************************************)
EXTENDS OffhostUpload
=============================================================================
