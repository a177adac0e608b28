------------------------------ MODULE MCState -------------------------------
(***************************************************************************)
(* The graph state for TLC: three replicas that write, join and compact,   *)
(* on one node with a loop; and a session on paged sets, of three nodes    *)
(* and one edge whose routes share nibbles and force splits.  The two      *)
(* share no state: a behaviour is of one of them.                          *)
(***************************************************************************)
EXTENDS WarpState, TrieSession

CONSTANTS n1, e1, a, b, c, e

VARIABLE focus

PatchesOf == <<2, 1, 0>>
AddsOf == <<1, 2, 0>>
Loop == e1 :> n1

HeldIds == [node |-> {a, b, c}, edge |-> {e}]
Routes == a :> <<0, 0>> @@ b :> <<0, 1>> @@ c :> <<1, 0>> @@ e :> <<1, 1>>
DotsOf == a :> {1, 2} @@ b :> {3} @@ c :> {4} @@ e :> {5}

StateInit == focus \in {"replicas", "pages"} /\ Init /\ SessionInit

StateNext ==
    /\ UNCHANGED focus
    /\ \/ focus = "replicas" /\ Next /\ UNCHANGED sessionVars
       \/ focus = "pages" /\ SessionNext /\ UNCHANGED vars

StateSpec == StateInit /\ [][StateNext]_<<vars, sessionVars, focus>>
=============================================================================
