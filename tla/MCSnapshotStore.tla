--------------------------- MODULE MCSnapshotStore ---------------------------
(* SnapshotStore with interchangeable processes. *)
EXTENDS SnapshotStore, TLC

Processes == Permutations(Proc)
=============================================================================
