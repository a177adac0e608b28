----------------------------- MODULE Settlement -----------------------------
(***************************************************************************)
(* Settling a strand into its parent worldline: Runtime.fork, strand,      *)
(* previewSettlement and settle (src/src/application/RuntimeSettlement.ts) *)
(* over the draft handles of src/src/domain/api/DraftTimelineRuntime.ts.   *)
(*                                                                         *)
(* One strand is followed.  The repository holds its overlay (intents      *)
(* 1..overlay), the coordinate it was forked at, and the target            *)
(* worldline's patches and checkpoint; the target only grows, so a count   *)
(* names its frontier.  One Runtime holds the handles, the plans and the   *)
(* mutation gate (RuntimeMutationGate, modelled in RuntimeLifecycle: here  *)
(* a lock).  Other processes commit to the target and to the strand        *)
(* without asking that gate.                                               *)
(***************************************************************************)
EXTENDS Naturals, FiniteSets, FiniteSetsExt

CONSTANTS
    Handles,        \* Lane handles of the strand, each with its own draft state
    Plans,          \* SettlementPlan objects
    MaxIntents,     \* bound: intents written to the strand
    MaxTarget,      \* bound: patches of the target that are not promotions
    MaxCheckpoints, \* bound: checkpoints of the target worldline
    Others,         \* TRUE: another process writes to the same repository
    Failures        \* TRUE: storage calls may fail or lose their answer

ASSUME SettlementAssumption ==
    /\ MaxIntents \in Nat /\ MaxTarget \in Nat /\ MaxCheckpoints \in Nat
    /\ Others \in BOOLEAN /\ Failures \in BOOLEAN

Intents == 1 .. MaxIntents

VARIABLES
    \* the repository
    target,      \* patches in the target worldline
    checkpoint,  \* its newest checkpoint, 0 when there is none
    base,        \* the coordinate the strand was forked at, NoBase before
    overlay,     \* patches in the strand's overlay
    landed,      \* how often each intent was committed to the target
    \* one Runtime: its handles
    opened,      \* handles with a draft state
    intents,     \* DraftTimelineState.intents (and draftPatchShas)
    joinShas,    \* DraftTimelineState.joinPatchShas
    joinState,   \* its joined, joining and joinFailed flags
    \* one Runtime: its plans and its gate
    gate,        \* the plan whose settle() holds the mutation gate, if any
    handle,      \* the source Lane of a plan
    step,        \* where its preview or settlement is
    seen,        \* the snapshot that is being captured
    plan,        \* the snapshot the plan was issued for
    receipt,     \* the outcome of its last settlement
    moved        \* plans whose settlement committed to the target

repository == <<target, checkpoint, base, overlay, landed>>
drafts     == <<opened, intents, joinShas, joinState>>
calls      == <<gate, handle, step, seen, plan, receipt, moved>>
vars       == <<repository, drafts, calls>>

NoBase == [checkpoint |-> 0, frontier |-> 0]

Statuses   == {"settled", "settling", "failed", "empty", "ready"}
JoinStates == {"open", "joining", "failed", "joined"}
CaptureSteps == {"source", "basis", "frontier", "status", "captured"}
Steps      == CaptureSteps \cup {"none", "issued", "queued", "promoting"}
Receipts   == {"none", "derived", "obstruction", "stale", "promotionFailed", "threw"}

\* SettlementSourceSnapshot: the opaque refs are named by what they hash.
Snapshots == [source : Nat, checkpoint : Nat, frontier : Nat,
              proposal : SUBSET Intents, status : Statuses]

EmptySnapshot == [source |-> 0, checkpoint |-> 0, frontier |-> 0,
                  proposal |-> {}, status |-> "empty"]

Init ==
    /\ target = 0 /\ checkpoint = 0 /\ base = NoBase /\ overlay = 0
    /\ landed = [i \in Intents |-> 0]
    /\ opened = {}
    /\ intents = [h \in Handles |-> {}]
    /\ joinShas = [h \in Handles |-> {}]
    /\ joinState = [h \in Handles |-> "open"]
    /\ gate = {}
    /\ handle \in [Plans -> Handles]
    /\ step = [p \in Plans |-> "none"]
    /\ seen = [p \in Plans |-> EmptySnapshot]
    /\ plan = [p \in Plans |-> EmptySnapshot]
    /\ receipt = [p \in Plans |-> "none"]
    /\ moved = {}

GateFree == gate = {}

(***************************************************************************)
(* Drafts.                                                                 *)
(***************************************************************************)

\* createDraftState: everything but the persisted patches starts afresh.
LoadDraft(h, persisted) ==
    /\ opened' = opened \cup {h}
    /\ intents' = [intents EXCEPT ![h] = persisted]
    /\ joinShas' = [joinShas EXCEPT ![h] = {}]
    /\ joinState' = [joinState EXCEPT ![h] = "open"]

\* Runtime.fork: behind the gate, a checkpoint is made when there is none.
Fork(h) ==
    /\ GateFree /\ base = NoBase /\ MaxCheckpoints > 0
    /\ checkpoint' = IF checkpoint = 0 THEN 1 ELSE checkpoint
    /\ base' = [checkpoint |-> checkpoint', frontier |-> target]
    /\ LoadDraft(h, {})
    /\ UNCHANGED <<target, overlay, landed, calls>>

\* Runtime.strand: not behind the gate; a second handle has a state of its own.
Open(h) ==
    /\ base # NoBase /\ h \notin opened
    /\ LoadDraft(h, 1 .. overlay)
    /\ UNCHANGED <<repository, calls>>

\* Lane.write on the strand.  An answer that is lost leaves a patch in the
\* overlay that the handle does not know.  Nothing asks whether it has joined.
WriteDraft(h) ==
    /\ GateFree /\ h \in opened /\ overlay < MaxIntents
    /\ overlay' = overlay + 1
    /\ \/ intents' = [intents EXCEPT ![h] = @ \cup {overlay'}]
       \/ Failures /\ UNCHANGED intents
    /\ UNCHANGED <<target, checkpoint, base, landed, opened, joinShas, joinState, calls>>

\* Lane.write on the worldline.
WriteTarget ==
    /\ GateFree /\ target < MaxTarget
    /\ target' = target + 1
    /\ UNCHANGED <<checkpoint, base, overlay, landed, drafts, calls>>

(***************************************************************************)
(* The environment: other processes, checkpoints, a process that ends.     *)
(***************************************************************************)

OtherCommits ==
    /\ Others /\ target < MaxTarget
    /\ target' = target + 1
    /\ UNCHANGED <<checkpoint, base, overlay, landed, drafts, calls>>

OtherWritesDraft ==
    /\ Others /\ base # NoBase /\ overlay < MaxIntents
    /\ overlay' = overlay + 1
    /\ UNCHANGED <<target, checkpoint, base, landed, drafts, calls>>

NewCheckpoint ==
    /\ checkpoint < MaxCheckpoints
    /\ checkpoint' = checkpoint + 1
    /\ UNCHANGED <<target, base, overlay, landed, drafts, calls>>

\* The process ends at any point; the next one starts with no handle or plan.
Restart ==
    /\ opened # {}
    /\ opened' = {} /\ gate' = {}
    /\ intents' = [h \in Handles |-> {}]
    /\ joinShas' = [h \in Handles |-> {}]
    /\ joinState' = [h \in Handles |-> "open"]
    /\ step' = [p \in Plans |-> "none"]
    /\ seen' = [p \in Plans |-> EmptySnapshot]
    /\ plan' = [p \in Plans |-> EmptySnapshot]
    /\ receipt' = [p \in Plans |-> "none"]
    /\ moved' = {}
    /\ UNCHANGED <<repository, handle>>

(***************************************************************************)
(* captureDraftSettlementSnapshot: four reads with an await between them.  *)
(***************************************************************************)

Status(h) ==
    CASE joinState[h] = "joined"  -> "settled"
      [] joinState[h] = "joining" -> "settling"
      [] joinState[h] = "failed"  -> "failed"
      [] OTHER -> IF intents[h] = {} THEN "empty" ELSE "ready"

Capture(p, from, to) ==
    /\ step[p] = from
    /\ step' = [step EXCEPT ![p] = to]
    /\ UNCHANGED <<repository, drafts, gate, handle, plan, receipt, moved>>

CaptureSource(p) ==
    /\ Capture(p, "source", "basis")
    /\ seen' = [seen EXCEPT ![p].source = overlay]

CaptureBasis(p) ==
    /\ Capture(p, "basis", "frontier")
    /\ seen' = [seen EXCEPT ![p].checkpoint = checkpoint]

CaptureFrontier(p) ==
    /\ Capture(p, "frontier", "status")
    /\ seen' = [seen EXCEPT ![p].frontier = target, ![p].proposal = intents[handle[p]]]

CaptureStatus(p) ==
    /\ Capture(p, "status", "captured")
    /\ seen' = [seen EXCEPT ![p].status = Status(handle[p])]

CaptureStep(p) ==
    CaptureSource(p) \/ CaptureBasis(p) \/ CaptureFrontier(p) \/ CaptureStatus(p)

(***************************************************************************)
(* previewSettlement: no gate; the plan keeps the snapshot.                *)
(***************************************************************************)

Preview(p, h) ==
    /\ step[p] \in {"none", "issued"} /\ h \in opened
    /\ handle' = [handle EXCEPT ![p] = h]
    /\ step' = [step EXCEPT ![p] = "source"]
    /\ plan' = [plan EXCEPT ![p] = EmptySnapshot]
    /\ receipt' = [receipt EXCEPT ![p] = "none"]
    /\ moved' = moved \ {p}
    /\ UNCHANGED <<repository, drafts, gate, seen>>

PreviewAnswers(p) ==
    /\ step[p] = "captured" /\ p \notin gate
    /\ plan' = [plan EXCEPT ![p] = seen[p]]
    /\ step' = [step EXCEPT ![p] = "issued"]
    /\ seen' = [seen EXCEPT ![p] = EmptySnapshot]
    /\ UNCHANGED <<repository, drafts, gate, handle, receipt, moved>>

PreviewThrows(p) ==
    /\ Failures /\ step[p] \in CaptureSteps /\ p \notin gate
    /\ step' = [step EXCEPT ![p] = "none"]
    /\ seen' = [seen EXCEPT ![p] = EmptySnapshot]
    /\ UNCHANGED <<repository, drafts, gate, handle, plan, receipt, moved>>

(***************************************************************************)
(* settle.                                                                 *)
(***************************************************************************)

Settle(p) ==
    /\ step[p] = "issued"
    /\ step' = [step EXCEPT ![p] = "queued"]
    /\ receipt' = [receipt EXCEPT ![p] = "none"]
    /\ moved' = moved \ {p}
    /\ UNCHANGED <<repository, drafts, gate, handle, seen, plan>>

TakeGate(p) ==
    /\ step[p] = "queued" /\ GateFree
    /\ gate' = {p}
    /\ step' = [step EXCEPT ![p] = "source"]
    /\ UNCHANGED <<repository, drafts, handle, seen, plan, receipt, moved>>

\* settlementOutcomeKind, and previewOutcome's two obstructions.
Derived(s) ==
    /\ s.status = "ready"
    /\ [checkpoint |-> s.checkpoint, frontier |-> s.frontier] = base

\* Mutant: the target frontier is not compared again.
SourceMatches(p) ==
    \A f \in {"source", "proposal", "status", "checkpoint"} : seen[p][f] = plan[p][f]

\* Mutant: the source frontier is not compared again.
TargetMatches(p) ==
    \A f \in {"frontier", "proposal", "status", "checkpoint"} : seen[p][f] = plan[p][f]

\* settlementBasisMatches: law and policy are constants of the program.
BasisMatches(p) == seen[p] = plan[p]

\* Mutant: the gate is released only when the promotion succeeded.
LeaveGateOnSuccess(p, r) ==
    /\ receipt' = [receipt EXCEPT ![p] = r]
    /\ step' = [step EXCEPT ![p] = "issued"]
    /\ gate' = IF r = "promotionFailed" THEN gate ELSE {}
    /\ seen' = [seen EXCEPT ![p] = EmptySnapshot]
    /\ UNCHANGED <<handle, plan>>

\* The operation behind the gate ends: the finally of RuntimeMutationGate.run.
LeaveGate(p, r) ==
    /\ receipt' = [receipt EXCEPT ![p] = r]
    /\ step' = [step EXCEPT ![p] = "issued"]
    /\ gate' = {}
    /\ seen' = [seen EXCEPT ![p] = EmptySnapshot]
    /\ UNCHANGED <<handle, plan>>

SettleStale(p) ==
    /\ step[p] = "captured" /\ p \in gate
    /\ ~BasisMatches(p)
    /\ LeaveGate(p, "stale")
    /\ UNCHANGED <<repository, drafts, moved>>

SettleObstructed(p) ==
    /\ step[p] = "captured" /\ p \in gate
    /\ BasisMatches(p) /\ ~Derived(plan[p])
    /\ LeaveGate(p, "obstruction")
    /\ UNCHANGED <<repository, drafts, moved>>

\* rejectedJoinPrecondition
JoinRejected(h) == joinState[h] # "open" \/ intents[h] = {}

\* promoteDraftSettlement starts.
Promote(p) ==
    LET h == handle[p] IN
    /\ step[p] = "captured" /\ p \in gate
    /\ BasisMatches(p) /\ Derived(plan[p])
    /\ IF JoinRejected(h)
         THEN LeaveGate(p, "promotionFailed") /\ UNCHANGED <<drafts, repository, moved>>
         ELSE /\ joinState' = [joinState EXCEPT ![h] = "joining"]
              /\ step' = [step EXCEPT ![p] = "promoting"]
              /\ UNCHANGED <<repository, opened, intents, joinShas, gate, handle,
                             seen, plan, receipt, moved>>

\* The first await of performDraftJoin (the recovery evidence) or a capture fails.
SettleThrows(p) ==
    LET h == handle[p] IN
    /\ Failures /\ p \in gate
    /\ step[p] \in CaptureSteps \cup {"promoting"}
    /\ step[p] = "promoting" => joinShas[h] = {} /\ p \notin moved
    /\ joinState' = [joinState EXCEPT ![h] = IF @ = "joining" THEN "open" ELSE @]
    /\ LeaveGate(p, "threw")
    /\ UNCHANGED <<repository, opened, intents, joinShas, moved>>

Uncommitted(h) == intents[h] \ joinShas[h]

\* The patch of intent i reaches the target worldline (MaxTarget bounds the
\* other commits only: an intent lands once).
Lands(p, i) ==
    /\ target' = target + 1
    /\ landed' = [landed EXCEPT ![i] = @ + 1]
    /\ moved' = moved \cup {p}

\* One turn of commitDraftIntents' loop.
CommitIntent(p) ==
    LET h == handle[p] IN
    /\ step[p] = "promoting" /\ Uncommitted(h) # {}
    /\ \E i \in Uncommitted(h) :
         /\ \A j \in Uncommitted(h) : i <= j
         /\ Lands(p, i)
         /\ joinShas' = [joinShas EXCEPT ![h] = @ \cup {i}]
    /\ UNCHANGED <<checkpoint, base, overlay, opened, intents, joinState,
                   gate, handle, step, seen, plan, receipt>>

\* Mutant: a rejected commit is counted like a successful one.
CommitFailsQuietly(p) ==
    LET h == handle[p] IN
    /\ Failures /\ step[p] = "promoting" /\ Uncommitted(h) # {}
    /\ \E i \in Uncommitted(h) :
         /\ \A j \in Uncommitted(h) : i <= j
         /\ joinShas' = [joinShas EXCEPT ![h] = @ \cup {i}]
    /\ UNCHANGED <<repository, opened, intents, joinState, calls>>

\* A commit rejects, its patch published or not: the loop ends and the join is
\* incomplete (rejectedIncompleteJoin).
CommitFails(p) ==
    LET h == handle[p] IN
    /\ Failures /\ step[p] = "promoting" /\ Uncommitted(h) # {}
    /\ \/ \E i \in Uncommitted(h) :
            /\ \A j \in Uncommitted(h) : i <= j
            /\ Lands(p, i)
       \/ UNCHANGED <<target, landed, moved>>
    /\ joinState' = [joinState EXCEPT ![h] = "failed"]
    /\ LeaveGate(p, "promotionFailed")
    /\ UNCHANGED <<checkpoint, base, overlay, opened, intents, joinShas>>

\* Every intent is committed: the draft has joined.
JoinCompletes(p) ==
    LET h == handle[p] IN
    /\ step[p] = "promoting" /\ Uncommitted(h) = {}
    /\ joinState' = [joinState EXCEPT ![h] = "joined"]
    /\ LeaveGate(p, "derived")
    /\ UNCHANGED <<repository, opened, intents, joinShas, moved>>

PlanStep(p) ==
    \/ CaptureStep(p) \/ PreviewAnswers(p) \/ PreviewThrows(p)
    \/ SettleStale(p) \/ SettleObstructed(p) \/ Promote(p) \/ SettleThrows(p)
    \/ CommitIntent(p) \/ CommitFails(p) \/ JoinCompletes(p)

Next ==
    \/ \E h \in Handles : Fork(h) \/ Open(h) \/ WriteDraft(h)
    \/ WriteTarget \/ OtherCommits \/ OtherWritesDraft \/ NewCheckpoint \/ Restart
    \/ \E p \in Plans, h \in Handles : Preview(p, h)
    \/ \E p \in Plans : Settle(p) \/ TakeGate(p) \/ PlanStep(p)

Spec == Init /\ [][Next]_vars

\* A started call goes on (the event loop and Git answer), and the gate is FIFO
\* (RuntimeLifecycle): a waiting settlement that can have it infinitely often
\* gets it.
Fairness ==
    /\ \A p \in Plans : WF_vars(PlanStep(p))
    /\ \A p \in Plans : SF_vars(TakeGate(p))

FairSpec == Spec /\ Fairness

(***************************************************************************)
(* Properties.                                                             *)
(***************************************************************************)

RepositoryTyped ==
    /\ target \in Nat /\ checkpoint \in Nat /\ overlay \in Nat /\ overlay <= MaxIntents
    /\ base \in [checkpoint : Nat, frontier : Nat]
    /\ landed \in [Intents -> Nat]

DraftsTyped ==
    /\ opened \subseteq Handles
    /\ intents \in [Handles -> SUBSET Intents]
    /\ joinShas \in [Handles -> SUBSET Intents]
    /\ joinState \in [Handles -> JoinStates]

CallsTyped ==
    /\ gate \subseteq Plans /\ moved \subseteq Plans
    /\ handle \in [Plans -> Handles]
    /\ step \in [Plans -> Steps]
    /\ receipt \in [Plans -> Receipts]

SnapshotsTyped == seen \in [Plans -> Snapshots] /\ plan \in [Plans -> Snapshots]

\* Every variable stays in its domain: a handle and a snapshot name patches of
\* the overlay only, and a captured status is one the settlement law knows.
TypeOK == RepositoryTyped /\ DraftsTyped /\ CallsTyped /\ SnapshotsTyped

\* However many handles, plans, retries, partial joins and restarts there are,
\* one Runtime never commits the same strand intent to the worldline twice:
\* the second promotion no longer finds the worldline at the strand's basis.
PromotedOnce == \A i \in Intents : landed[i] <= 1

\* A derived receipt is never given for a part: every intent of the plan's
\* proposal is in the target worldline.
DerivedIsComplete ==
    \A p \in Plans : receipt[p] = "derived" =>
        \A i \in plan[p].proposal : landed[i] >= 1

\* The proposal of a plan that was carried out is what its handle holds of the
\* strand at the plan's source frontier, although the preview read the two at
\* different moments and other handles and processes wrote to the strand.
SourceSettled ==
    \A p \in Plans : receipt[p] = "derived" =>
        plan[p].proposal = intents[handle[p]] \cap (1 .. plan[p].source)

\* A plan is carried out against the target frontier it was issued for: the
\* first patch a settlement commits lands right on that frontier.
PromotesOnBasis ==
    [][\A p \in Plans : p \in moved' \ moved => target = plan[p].frontier]_vars

\* settle() ends: it answers or throws, or its process does not live on.
SettlementAnswers ==
    \A p \in Plans : step[p] = "queued" ~> step[p] \in {"issued", "none"}
=============================================================================
