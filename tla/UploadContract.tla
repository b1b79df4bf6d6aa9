--------------------------- MODULE UploadContract ---------------------------
(***************************************************************************)
(* What docs/offhost-retry-protocol.md promises of one sealed package: each *)
(* object is transmitted at most once, the completion marker only after    *)
(* the ciphertext has arrived, and the receipt, which stays, only after    *)
(* both.  How often commands are run, killed or lose power is not visible. *)
(***************************************************************************)

CONSTANTS First, Second   \* the ciphertext and its completion marker

VARIABLES
  phase,      \* phase[k]: unsent, sent (perhaps in flight) or stored
  published   \* the durable receipt exists

vars == <<phase, published>>

Objects == {First, Second}

Init ==
  /\ phase = [k \in Objects |-> "unsent"]
  /\ published = FALSE

Send(k) ==
  /\ phase[k] = "unsent"
  /\ k = Second => phase[First] = "stored"
  /\ phase' = [phase EXCEPT ![k] = "sent"]
  /\ UNCHANGED published

\* A request may arrive long after whoever sent it is gone, or never.
Arrive(k) ==
  /\ phase[k] = "sent"
  /\ phase' = [phase EXCEPT ![k] = "stored"]
  /\ UNCHANGED published

Publish ==
  /\ \A k \in Objects : phase[k] = "stored"
  /\ ~published
  /\ published' = TRUE
  /\ UNCHANGED phase

Next == (\E k \in Objects : Send(k) \/ Arrive(k)) \/ Publish

Spec == Init /\ [][Next]_vars
=============================================================================
