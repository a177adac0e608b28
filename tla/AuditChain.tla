------------------------------ MODULE AuditChain ------------------------------
(***************************************************************************)
(* The audit receipts of one writer: AuditReceiptService appends a receipt *)
(* for every data commit to a chain of its own, after the commit, and      *)
(* never lets an error of its own reach the caller.  AuditChainVerifier    *)
(* walks the chain from its tip.                                           *)
(*                                                                         *)
(* A data commit has its tick from the moment its publication succeeds.    *)
(* Between that and the receipt lie the answer to the committer, the hook, *)
(* the hash of the new state, the digest, the append and its answer: each  *)
(* is awaited, and commits overtake one another at each.                   *)
(*                                                                         *)
(* Several processes may write as the same writer and a process may have   *)
(* several commits under way; the service of a process has one previous    *)
(* commit, one expected head and one retry flag for all of them.           *)
(*                                                                         *)
(* A receipt is named by its place in the order of publication; 0 is       *)
(* null, and the zero hash.  Digests, trailers and OID formats are left    *)
(* out: the service writes both sides of what the verifier compares.       *)
(***************************************************************************)
EXTENDS Naturals, Sequences, FiniteSets, FiniteSetsExt

CONSTANTS
    Processes,
    MaxCommits,     \* how many data commits are made
    MaxSkip,        \* how many ticks may lie between two commits of the writer
    MaxRestarts,
    AuditFails      \* may storage or the hook fail, and may an answer be lost?

ASSUME AuditAssumption ==
    /\ MaxCommits \in Nat /\ MaxSkip \in Nat /\ MaxRestarts \in Nat
    /\ AuditFails \in BOOLEAN

VARIABLES
    data,       \* the ticks of the data commits, in the order of publication
    log,        \* every receipt that was published
    head,       \* the audit ref
    svc,        \* the AuditReceiptService of each process
    call,       \* call[n]: what became of data commit n since its publication
    restarts,
    overlapped  \* was a commit published while another was under way? (history)

auditVars == <<data, log, head, svc, call, restarts, overlapped>>

Fresh(tip) ==
    [prev |-> tip, expected |-> tip, degraded |-> FALSE, retrying |-> FALSE,
     committed |-> 0, failed |-> 0, skipped |-> 0, dirty |-> 0]

\* The service of a process reads the tip when the process starts: before there is a
\* receipt, or after the first one.
AuditInit ==
    /\ \E first \in {0, 1} :
           /\ data = [n \in 1..first |-> 1]
           /\ log = [n \in 1..first |-> [data |-> 1, tick |-> 1, prev |-> 0, parent |-> 0]]
           /\ head = first
           /\ svc = [p \in Processes |-> Fresh(first)]
           /\ call \in [1..first -> {[process |-> p, pc |-> "past", own |-> TRUE, prev |-> 0,
                                      expected |-> 0, retry |-> FALSE] : p \in Processes}]
    /\ restarts = 0
    /\ overlapped = FALSE

Tick(n) == data[n]

\* From the publication of the commit to the end of its hook.
UnderWay ==
    {n \in DOMAIN call : call[n].pc \in {"published", "install", "digest", "append", "landed",
                                        "tip", "fresh"}}

-----------------------------------------------------------------------------
(* The hook behind a data commit *)

\* A data commit is published, which fixes its tick.  It may be one of another writer of
\* the same host.
Commit(p, tick, own) ==
    /\ Len(data) < MaxCommits
    /\ data' = Append(data, tick)
    /\ call' = Append(call, [process |-> p, pc |-> "published", own |-> own, prev |-> 0,
                             expected |-> 0, retry |-> FALSE])
    /\ overlapped' = (overlapped \/ UnderWay # {})
    /\ UNCHANGED <<log, head, svc, restarts>>

\* The hook runs.  With a clean cached state the patch is applied to it and the new state
\* is handed to _setMaterializedState; else there is no tick receipt and the host counts
\* the commit as skipped.
Hook(n) ==
    /\ call[n].pc = "published"
    /\ \/ call' = [call EXCEPT ![n].pc = "install"] /\ UNCHANGED svc
       \/ /\ call' = [call EXCEPT ![n].pc = "done"]
          /\ svc' = [svc EXCEPT ![call[n].process].dirty = @ + 1]
    /\ UNCHANGED <<data, log, head, restarts, overlapped>>

\* The answer of the publication is lost and no hook runs, or the hook fails with the hash
\* of the state and the committer swallows it: the audit service never hears of the
\* commit, and nothing counts it.
HookFails(n) ==
    /\ AuditFails /\ call[n].pc \in {"published", "install"}
    /\ call' = [call EXCEPT ![n].pc = "lost"]
    /\ UNCHANGED <<data, log, head, svc, restarts, overlapped>>

\* The state is installed and the hook calls commit() of the service.  A degraded service
\* skips the commit.
CallAudit(n) ==
    /\ call[n].pc = "install"
    /\ LET p == call[n].process
       IN  IF svc[p].degraded
           THEN /\ call' = [call EXCEPT ![n].pc = "done"]
                /\ svc' = [svc EXCEPT ![p].skipped = @ + 1]
           ELSE call' = [call EXCEPT ![n].pc = "digest"] /\ UNCHANGED svc
    /\ UNCHANGED <<data, log, head, restarts, overlapped>>

-----------------------------------------------------------------------------
(* The service *)

\* mutant: the failure that degrades the service is not counted
ThrowUncounted(n, s) ==
    /\ svc' = [svc EXCEPT ![call[n].process] =
                  [s EXCEPT !.failed = @ + (IF s.degraded THEN 0 ELSE 1),
                            !.retrying = @ /\ ~call[n].retry]]
    /\ call' = [call EXCEPT ![n].pc = "done"]

\* commit() catches what its attempt threw and counts it; the retry, if it was one,
\* has lowered its flag.
Throw(n, s) ==
    /\ svc' = [svc EXCEPT ![call[n].process] =
                  [s EXCEPT !.failed = @ + 1,
                            !.retrying = @ /\ ~call[n].retry]]
    /\ call' = [call EXCEPT ![n].pc = "done"]

\* buildReceiptRecord accepts the zero hash for the tick 1 only.
ValidRecord(tick, prev) == tick >= 1 /\ (prev = 0 => tick = 1)

\* A commit of another writer is refused.  Else, with the digest of the operations at
\* hand, the record is built on what the service now takes for the previous receipt,
\* and the append begins.
Build(n) ==
    /\ call[n].pc = "digest"
    /\ LET s == svc[call[n].process]
       IN  IF call[n].own /\ ValidRecord(Tick(n), s.prev)
           THEN /\ call' = [call EXCEPT ![n].pc = "append", ![n].prev = s.prev,
                                        ![n].expected = s.expected]
                /\ UNCHANGED svc
           ELSE Throw(n, s)
    /\ UNCHANGED <<data, log, head, restarts, overlapped>>

\* What the adapter publishes when the ref is where the caller expects it.
Receipt(n) == [data |-> n, tick |-> Tick(n), prev |-> call[n].prev, parent |-> call[n].prev]
Publish(n) ==
    /\ head = call[n].expected
    /\ log' = Append(log, Receipt(n))
    /\ head' = Len(log) + 1

\* The receipt is published.
Append_(n) ==
    /\ call[n].pc = "append"
    /\ Publish(n)
    /\ call' = [call EXCEPT ![n].pc = "landed", ![n].prev = head', ![n].expected = head']
    /\ UNCHANGED <<data, svc, restarts, overlapped>>

\* The answer arrives and the service goes on from the receipt it names.
Appended(n) ==
    /\ call[n].pc = "landed"
    /\ LET p == call[n].process
       IN  svc' = [svc EXCEPT ![p].prev = call[n].prev, ![p].expected = call[n].expected,
                              ![p].committed = @ + 1,
                              ![p].retrying = @ /\ ~call[n].retry]
    /\ call' = [call EXCEPT ![n].pc = "done"]
    /\ UNCHANGED <<data, log, head, restarts, overlapped>>

\* The ref has moved.  The first conflict asks for the tip; one that meets the retry
\* flag is given up, and if it is the retry itself the service is degraded for good.
\* A conflict is reported only for an append that did not take place: git-cas never
\* answers so for a publication of its own whose answer it lost.
Conflict(n) ==
    /\ call[n].pc = "append" /\ head # call[n].expected
    /\ LET s == svc[call[n].process]
       IN  IF ~s.retrying
           THEN call' = [call EXCEPT ![n].pc = "tip"] /\ UNCHANGED svc
           ELSE Throw(n, [s EXCEPT !.degraded = @ \/ call[n].retry])
    /\ UNCHANGED <<data, log, head, restarts, overlapped>>

\* mutant: any failure of the append is retried as if it were a conflict
AppendRetried(n) ==
    /\ AuditFails /\ call[n].pc \in {"append", "landed"}
    /\ call' = [call EXCEPT ![n].pc = "tip"]
    /\ UNCHANGED <<data, log, head, svc, restarts, overlapped>>

\* Any other failure of the append ends the call, whether or not the receipt was
\* published before the answer was lost.
AppendFails(n) ==
    /\ AuditFails /\ call[n].pc \in {"append", "landed"}
    /\ Throw(n, svc[call[n].process])
    /\ UNCHANGED <<data, log, head, restarts, overlapped>>

\* _retryAfterCasConflict: the tip is read, or the call fails with the read.
ReadTip(n) ==
    /\ call[n].pc = "tip"
    /\ \/ /\ call' = [call EXCEPT ![n].pc = "fresh", ![n].prev = head, ![n].expected = head]
          /\ UNCHANGED svc
       \/ AuditFails /\ Throw(n, svc[call[n].process])
    /\ UNCHANGED <<data, log, head, restarts, overlapped>>

\* mutant: the retry expects the fresh tip but keeps its old parent
TakeTipHalf(n) ==
    /\ call[n].pc = "fresh"
    /\ svc' = [svc EXCEPT ![call[n].process].expected = call[n].expected,
                          ![call[n].process].retrying = TRUE]
    /\ call' = [call EXCEPT ![n].pc = "digest", ![n].retry = TRUE]
    /\ UNCHANGED <<data, log, head, restarts, overlapped>>

\* The service takes over the tip that was read, and the call tries once more.
TakeTip(n) ==
    /\ call[n].pc = "fresh"
    /\ LET p == call[n].process
       IN  svc' = [svc EXCEPT ![p].prev = call[n].prev, ![p].expected = call[n].expected,
                              ![p].retrying = TRUE]
    /\ call' = [call EXCEPT ![n].pc = "digest", ![n].retry = TRUE]
    /\ UNCHANGED <<data, log, head, restarts, overlapped>>

\* A process ends and is started again: its calls are gone, init() reads the tip, or
\* fails to and starts as if there were none.
Restart(p) ==
    /\ restarts < MaxRestarts
    /\ restarts' = restarts + 1
    /\ \E tip \in {head} \cup (IF AuditFails THEN {0} ELSE {}) :
           svc' = [svc EXCEPT ![p] = Fresh(tip)]
    /\ call' = [n \in DOMAIN call |-> IF call[n].process = p
                                      THEN [call[n] EXCEPT !.pc = "past"] ELSE call[n]]
    /\ UNCHANGED <<data, log, head, overlapped>>

LastTick == IF data = <<>> THEN 0 ELSE data[Len(data)]

AuditNext ==
    \/ \E p \in Processes, skip \in 1..(MaxSkip + 1), own \in BOOLEAN :
           Commit(p, LastTick + skip, own)
    \/ \E n \in DOMAIN call :
           \/ Hook(n) \/ HookFails(n) \/ CallAudit(n)
           \/ Build(n) \/ Append_(n) \/ Appended(n) \/ Conflict(n) \/ AppendFails(n)
           \/ ReadTip(n) \/ TakeTip(n)
    \/ \E p \in Processes : Restart(p)

AuditSpec == AuditInit /\ [][AuditNext]_auditVars

-----------------------------------------------------------------------------
(* The verifier *)

\* The receipts that a walk from a tip along the parents meets.
Walk(tip) ==
    LET met[i \in 0..Len(log)] == IF i = 0 THEN {} ELSE {i} \cup met[log[i].parent]
    IN  met[tip]

\* _validateChainLink: ticks fall along the walk.  A step of more than one is a gap.
LinkHolds(walk, i) == \A j \in walk : log[j].parent = i => log[i].tick < log[j].tick
LinkHasGap(walk, i) == \E j \in walk : log[j].parent = i /\ log[i].tick + 1 < log[j].tick

\* _handleGenesisOrContinuation: the receipt names its Git parent, the genesis has none.
ParentAgrees(i) == log[i].parent = log[i].prev

\* verifyChain: the walk ends at the receipt "since" (0 when not asked for), at the
\* genesis, or at the first receipt that is not as it should be.
Verify(tip, since) ==
    LET walk == Walk(tip)
        seen == IF since \in walk THEN {i \in walk : i >= since} ELSE walk
        broken == {i \in seen : ~LinkHolds(walk, i) \/ ~ParentAgrees(i)}
        met == IF broken = {} THEN seen ELSE {i \in seen : i >= Max(broken)}
    IN  [status |-> IF broken # {} THEN "BROKEN_CHAIN"
                    ELSE IF since = 0 \/ tip = 0 THEN "VALID"
                    ELSE IF since \in walk THEN "PARTIAL" ELSE "ERROR",
         verified |-> Cardinality(met \ (IF broken = {} THEN {} ELSE {Max(broken)})),
         gaps |-> {i \in met : LinkHasGap(walk, i)}]

-----------------------------------------------------------------------------
(* Properties *)

ReceiptRecord == [data : Nat, tick : Nat, prev : Nat, parent : Nat]

ServiceState ==
    [prev : Nat, expected : Nat, degraded : BOOLEAN, retrying : BOOLEAN,
     committed : Nat, failed : Nat, skipped : Nat, dirty : Nat]

CallState ==
    [process : Processes,
     pc : {"published", "install", "digest", "append", "landed", "tip", "fresh", "done",
           "lost", "past"},
     own : BOOLEAN, prev : Nat, expected : Nat, retry : BOOLEAN]

AuditTypeOK ==
    /\ data \in Seq(Nat)
    /\ log \in Seq(ReceiptRecord)
    /\ head \in 0..Len(log)
    /\ svc \in [Processes -> ServiceState]
    /\ call \in Seq(CallState)
    /\ restarts \in 0..MaxRestarts
    /\ overlapped \in BOOLEAN

\* However the appends of several processes and calls interleave, with retries and lost
\* answers: a data commit has at most one receipt, the receipt has its tick, and every
\* receipt that was published can be reached from the audit ref (_commitInner,
\* _retryAfterCasConflict, GitCasAuditLogAdapter.append).
OneReceiptEach ==
    /\ \A i, j \in DOMAIN log : log[i].data = log[j].data => i = j
    /\ \A i \in DOMAIN log : log[i].tick = Tick(log[i].data)
    /\ Walk(head) = DOMAIN log

Unaudited(p) ==
    {n \in DOMAIN call : /\ call[n].process = p /\ call[n].pc = "done"
                         /\ \A i \in DOMAIN log : log[i].data # n}

\* Within the life of a process the service's counters and the host's count of skipped
\* commits cover every commit without a receipt whose hook ran to its end, and together
\* they count every such commit once, in whatever order calls retry, fail and degrade the
\* service.  The one silent gap is a commit of which the audit service never heard: the
\* answer of its publication was lost, or its hook failed before the call (commit,
\* getStats, _onPatchCommitted).
GapsAreCounted ==
    \A p \in Processes :
        /\ Cardinality(Unaudited(p)) <= svc[p].failed + svc[p].skipped + svc[p].dirty
        /\ svc[p].committed + svc[p].failed + svc[p].skipped + svc[p].dirty =
               Cardinality({n \in DOMAIN call : call[n].process = p /\ call[n].pc = "done"})

\* What the service writes the verifier accepts, from every tip the ref has had and back
\* to every receipt: an honest chain is reported broken only when a data commit was
\* published before the hook of another had ended, because from the publication on, which
\* fixes the tick, the receipts may land in another order than the ticks, even by calls of
\* the service that do not overlap (verifyChain against _onPatchCommitted, _commitInner).
HonestChainVerifies ==
    ~overlapped =>
        \A tip \in DOMAIN log : \A since \in 0..tip :
            /\ Verify(tip, since).status = (IF since = 0 THEN "VALID" ELSE "PARTIAL")
            /\ Verify(tip, since).verified = tip - (IF since = 0 THEN 0 ELSE since - 1)
=============================================================================
