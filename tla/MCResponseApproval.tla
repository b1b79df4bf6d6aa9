------------------------- MODULE MCResponseApproval -------------------------
(* Small instances of ResponseApproval for TLC. *)
EXTENDS ResponseApproval, TLC

\* The metadata that the registry in the source gives three kinds of action.
Restartable == [ request_role |-> Analyst, required_role |-> Admin,
                 execution_role |-> Admin, enabled |-> TRUE,
                 host_impacting |-> TRUE, supported |-> TRUE ]
Disabled    == [Restartable EXCEPT !.enabled = FALSE]
RecordOnly  == [ request_role |-> Analyst, required_role |-> Analyst,
                 execution_role |-> Analyst, enabled |-> TRUE,
                 host_impacting |-> FALSE, supported |-> TRUE ]

\* One deployed version, one action each.
OnlyRestart  == {[action \in Actions |-> Restartable]}
OnlyReport   == {[action \in Actions |-> RecordOnly]}

\* Versions that disable the action, or raise the role its contract requires.
Versions ==
  {[action \in Actions |-> m] :
     m \in {Restartable, Disabled, [Restartable EXCEPT !.required_role = Analyst]}}
Symmetric == Permutations(Users) \cup Permutations(Workers)
=============================================================================
