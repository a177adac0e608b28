---------------------------- MODULE MCHostSerial ----------------------------
(***************************************************************************)
(* Processes that make one call at a time, in three deployments; the one   *)
(* is chosen at the start.                                                 *)
(*                                                                         *)
(*   alone    one process with two writers, and checkpoints                *)
(*   shared   two processes with a writer each, that materialize before    *)
(*            they write                                                   *)
(*   busy     the same with two adds in a patch; a process materializes    *)
(*            once, and once more when it has restarted                    *)
(***************************************************************************)
EXTENDS MCWarpHost

VARIABLE deployment

Shared ==
  INSTANCE WarpHost
    WITH Discipline <- {"serial", "materialized"}, MaxAdds <- 1, MaxCheckpoints <- 0

Busy ==
  INSTANCE WarpHost
    WITH Discipline <- {"serial", "materialized"}, MaxAdds <- 2, MaxCheckpoints <- 0,
         MaxObjects <- 1

SerialInit == deployment \in {"alone", "shared", "busy"} /\ Init

SerialNext ==
  /\ \/ /\ deployment = "alone" /\ Next
        /\ host'["h2"] = host["h2"] /\ session'["s2"] = session["s2"]
        /\ reader'["h2"] = reader["h2"]
     \/ /\ deployment = "shared" /\ Shared!Next
        /\ session'["s3"] = session["s3"]
     \/ /\ deployment = "busy" /\ Busy!Next
        /\ session'["s3"] = session["s3"]
  /\ UNCHANGED deployment

SerialSpec == SerialInit /\ [][SerialNext]_<<vars, deployment>>
=============================================================================
