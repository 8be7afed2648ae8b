----------------------------- MODULE MCReconcile -----------------------------
(***************************************************************************)
(* Reconcile on two workspaces: three columns on one, a single one on the  *)
(* other.  The windows of a workspace are alike, so one order to start     *)
(* from is enough; the desired order is any.                               *)
(***************************************************************************)
EXTENDS Reconcile

MCHome == <<2, 2, 2, 1>>
MCStarts == {<<1, 2, 3, 1>>}
=============================================================================
