---------------------------- MODULE MCResolution ----------------------------
(* Which attempt, resolution or profile is which makes no difference. *)
EXTENDS Resolution, TLC

Symmetry == Permutations(Attempt) \cup Permutations(Resolution) \cup Permutations(Profile)
=============================================================================
