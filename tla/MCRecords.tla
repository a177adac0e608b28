----------------------------- MODULE MCRecords ------------------------------
(***************************************************************************)
(* The two ledgers a graph keeps beside its patches, for TLC: the audit    *)
(* chain of two processes that write as one writer, and the trust chain of *)
(* two administrators.  They share no state: a behaviour is of one of      *)
(* them.  At most three commits are under way at once.  In a behaviour     *)
(* with the greatest number of commits, which it takes for a service to    *)
(* degrade and then skip one, they are at most two, all of the writer      *)
(* itself, and no process restarts and no hook fails.  An administrator    *)
(* signs what is right for the chain it reads; on a chain of which one     *)
(* record is left it signs a binding or the addition, anew, of a revoked   *)
(* key, which are what could bring trust back.                             *)
(***************************************************************************)
EXTENDS AuditChain, TrustChain, TLC

VARIABLE focus

RecordsInit ==
    /\ focus \in {"audit", "trust"} /\ AuditInit /\ TrustInit
    /\ focus = "trust" => head = 0

AddsAnew(ctx, r) == r.type = "KEY_ADD" /\ r.issuer = r.key /\ r.key \in ctx.revoked

SignedSensibly ==
    \A a \in Admins : admin[a].pc = "idle" /\ admin'[a].pc # "idle" =>
        LET ctx == BuildState(RecordsTo(ref))
            right == ~ProcessRecord(ctx, admin'[a].record).errors
        IN  IF Len(ledger) < MaxRecords - 1 THEN right
            ELSE \/ right /\ admin'[a].record.type = "WRITER_BIND_ADD"
                 \/ AddsAnew(ctx, admin'[a].record)

RecordsNext ==
    /\ UNCHANGED focus
    /\ \/ /\ focus = "audit" /\ AuditNext /\ UNCHANGED trustVars
          /\ \/ Len(data') < MaxCommits /\ Cardinality(UnderWay') <= 3
             \/ /\ restarts' = 0 /\ Cardinality(UnderWay') <= 2
                /\ \A n \in DOMAIN call' : call'[n].own /\ call'[n].pc # "lost"
       \/ focus = "trust" /\ TrustNext /\ SignedSensibly /\ UNCHANGED auditVars

RecordsSpec == RecordsInit /\ [][RecordsNext]_<<auditVars, trustVars, focus>>

Interchangeable == Permutations(Processes) \cup Permutations(Admins) \cup Permutations(TrustKeys)
=============================================================================
