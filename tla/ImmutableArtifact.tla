-------------------------- MODULE ImmutableArtifact --------------------------
(***************************************************************************)
(* What a stored artifact promises its callers: once a call has returned,  *)
(* the artifact is there for good, through any crash; and when the name is *)
(* a fence (exclusive), one call at most ever returns.                     *)
(***************************************************************************)
CONSTANT Call

VARIABLES
  exclusive, \* fixed
  stored,    \* the artifact survives anything from now on
  returned   \* calls that were told it is stored
vars == <<exclusive, stored, returned>>

Init == exclusive \in BOOLEAN /\ stored = FALSE /\ returned = {}

Store == ~stored /\ stored' = TRUE /\ UNCHANGED <<exclusive, returned>>

Return(c) ==
  /\ stored /\ c \notin returned
  /\ exclusive => returned = {}
  /\ returned' = returned \cup {c} /\ UNCHANGED <<exclusive, stored>>

Next == Store \/ \E c \in Call : Return(c)

Spec == Init /\ [][Next]_vars
=============================================================================
