----------------------------- MODULE MCWarpHost -----------------------------
(***************************************************************************)
(* Instances of WarpHost for TLC.  A cfg picks one deployment: which       *)
(* sessions call which host and write as which writer.                     *)
(***************************************************************************)
EXTENDS WarpHost, TLC

(* Processes write as one writer through createPatch(), one session each,  *)
(* which has the name of its process: they are interchangeable.             *)
OwnHostOf == [s \in Sessions |-> s]
OneWriterOf == [s \in Sessions |-> "a"]
AllGraph == [s \in Sessions |-> "graph"]
Interchangeable == Permutations(Hosts)

(* Two processes with a writer each; the first has a third session, on a    *)
(* second writer obtained by writer().                                     *)
TwoHostOf == [s \in Sessions |-> IF s = "s2" THEN "h2" ELSE "h1"]
TwoWriterOf == [s \in Sessions |-> IF s = "s1" THEN "a" ELSE "b"]
TwoApi == [s \in Sessions |-> IF s = "s3" THEN "writer" ELSE "graph"]
=============================================================================
