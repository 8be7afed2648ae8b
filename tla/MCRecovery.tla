----------------------------- MODULE MCRecovery -----------------------------
(* Recovery with interchangeable approvals and state roots. *)
EXTENDS Recovery, TLC

Interchangeable == Permutations(Approval) \cup Permutations(Root)
=============================================================================
