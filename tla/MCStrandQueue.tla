--------------------------- MODULE MCStrandQueue ---------------------------
(* Instances of StrandQueue for TLC: keys, slots and processes are         *)
(* interchangeable.                                                        *)
EXTENDS StrandQueue

Interchangeable == Permutations(UNION Footprints) \cup Permutations(Slots) \cup Permutations(Processes)
=============================================================================
