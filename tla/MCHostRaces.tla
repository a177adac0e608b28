---------------------------- MODULE MCHostRaces ----------------------------
(***************************************************************************)
(* Two processes that race on one writer ref, in two mixes of work: many   *)
(* patches and live reads, or few patches with checkpoints and reads up to *)
(* a ceiling.  The mix is chosen at the start; a state belongs to one.     *)
(***************************************************************************)
EXTENDS MCWarpHost

VARIABLE mix

Checkpointing ==
  INSTANCE WarpHost WITH MaxPatches <- 1, Ceilings <- {1}, MaxCheckpoints <- 2

RacesInit == mix \in {"patches", "checkpoints"} /\ Init

RacesNext ==
  /\ \/ mix = "patches" /\ Next
     \/ mix = "checkpoints" /\ Checkpointing!Next
  /\ UNCHANGED mix

RacesSpec == RacesInit /\ [][RacesNext]_<<vars, mix>>
=============================================================================
