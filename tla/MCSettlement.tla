---------------------------- MODULE MCSettlement ----------------------------
(* Instances of Settlement for TLC: handles and plans are interchangeable. *)
EXTENDS Settlement, TLC

Interchangeable == Permutations(Handles) \cup Permutations(Plans)
=============================================================================
