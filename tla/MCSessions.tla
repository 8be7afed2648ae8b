----------------------------- MODULE MCSessions -----------------------------
(* Session ids are interchangeable: no property is a liveness property.       *)
EXTENDS Sessions, TLC

Interchangeable == Permutations(Sessions)
=============================================================================
