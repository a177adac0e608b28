------------------------------ MODULE MCReplay ------------------------------
(* SessionReplay for TLC: two writers on one node with a loop.             *)
EXTENDS SessionReplay

CONSTANTS n1, e1

Loop == e1 :> n1
Each == <<1, 1>>
=============================================================================
