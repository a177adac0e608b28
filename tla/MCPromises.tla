----------------------------- MODULE MCPromises -----------------------------
(***************************************************************************)
(* The machineries of promises for TLC: calls, mutations and observations  *)
(* of a Runtime against its close(); a pipeline of stream combinators on   *)
(* two keys, with the items of either or of neither in every order; and    *)
(* the leases and workspaces of a materialization store against its        *)
(* close().  They share no state: a behaviour is of one of them, and the   *)
(* others stay as they began, where nothing fair is enabled.               *)
(***************************************************************************)
EXTENDS RuntimeLifecycle, WarpStream, MaterializationStore

VARIABLE focus

PromisesInit ==
    /\ focus \in {"runtime", "pipeline", "leases"} /\ Init /\ StreamInit /\ StoreInit
    /\ focus # "pipeline" => \A i \in Items : class[i] = "unknown"
    /\ focus # "runtime" => \A o \in Observations : plans[o] = 0

PromisesNext ==
    /\ UNCHANGED focus
    /\ \/ focus = "runtime" /\ Next /\ UNCHANGED <<pipelineVars, storeVars>>
       \/ focus = "pipeline" /\ StreamNext /\ UNCHANGED <<vars, storeVars>>
       \/ focus = "leases" /\ StoreNext /\ UNCHANGED <<vars, pipelineVars>>

PromisesSpec ==
    /\ PromisesInit /\ [][PromisesNext]_<<vars, pipelineVars, storeVars, focus>>
    /\ Fairness /\ StreamFairness /\ StoreFairness
=============================================================================
