-------------------------- MODULE SettlementProofs --------------------------
(***************************************************************************)
(* Theorems about Settlement for every number of handles, plans, intents   *)
(* and commits, with other processes and storage failures: the types       *)
(* (SettlementTypes), one Runtime promotes an intent at most once          *)
(* (PromotionAtMostOnce), a derived receipt is complete                    *)
(* (DerivedReceiptComplete) and is for what the handle held of the strand  *)
(* at the plan's source (SettledFromItsSource); and, where one Runtime has *)
(* the repository for itself, a plan is carried out on the frontier it was *)
(* issued for (PromotedOnItsBasis).                                        *)
(***************************************************************************)
EXTENDS Settlement, TLAPS

(* Every step of the specification keeps the types. *)
LEMMA SettlementTypesStep == TypeOK /\ [Next]_vars => TypeOK'
<1> SUFFICES ASSUME TypeOK, [Next]_vars PROVE TypeOK'  OBVIOUS
<1> USE SettlementAssumption DEF TypeOK, repository, drafts, calls
<1>1. CASE UNCHANGED vars
    BY <1>1 DEF vars, RepositoryTyped, DraftsTyped, CallsTyped, SnapshotsTyped
<1>2. CASE WriteTarget
  <2>1. RepositoryTyped'
      BY <1>2 DEF WriteTarget, RepositoryTyped, Intents, NoBase
  <2>2. DraftsTyped'
      BY <1>2 DEF WriteTarget, DraftsTyped, RepositoryTyped, Intents, JoinStates
  <2>3. CallsTyped'
      BY <1>2 DEF WriteTarget, CallsTyped, Steps, Receipts, CaptureSteps
  <2>4. SnapshotsTyped'
      BY <1>2 DEF WriteTarget, SnapshotsTyped, EmptySnapshot, Snapshots, Statuses,
          RepositoryTyped, DraftsTyped, CallsTyped, Intents
  <2> QED BY <2>1, <2>2, <2>3, <2>4
<1>3. CASE OtherCommits
  <2>1. RepositoryTyped'
      BY <1>3 DEF OtherCommits, RepositoryTyped, Intents, NoBase
  <2>2. DraftsTyped'
      BY <1>3 DEF OtherCommits, DraftsTyped, RepositoryTyped, Intents, JoinStates
  <2>3. CallsTyped'
      BY <1>3 DEF OtherCommits, CallsTyped, Steps, Receipts, CaptureSteps
  <2>4. SnapshotsTyped'
      BY <1>3 DEF OtherCommits, SnapshotsTyped, EmptySnapshot, Snapshots, Statuses,
          RepositoryTyped, DraftsTyped, CallsTyped, Intents
  <2> QED BY <2>1, <2>2, <2>3, <2>4
<1>4. CASE OtherWritesDraft
  <2>1. RepositoryTyped'
      BY <1>4 DEF OtherWritesDraft, RepositoryTyped, Intents, NoBase
  <2>2. DraftsTyped'
      BY <1>4 DEF OtherWritesDraft, DraftsTyped, RepositoryTyped, Intents, JoinStates
  <2>3. CallsTyped'
      BY <1>4 DEF OtherWritesDraft, CallsTyped, Steps, Receipts, CaptureSteps
  <2>4. SnapshotsTyped'
      BY <1>4 DEF OtherWritesDraft, SnapshotsTyped, EmptySnapshot, Snapshots,
          Statuses, RepositoryTyped, DraftsTyped, CallsTyped, Intents
  <2> QED BY <2>1, <2>2, <2>3, <2>4
<1>5. CASE NewCheckpoint
  <2>1. RepositoryTyped'
      BY <1>5 DEF NewCheckpoint, RepositoryTyped, Intents, NoBase
  <2>2. DraftsTyped'
      BY <1>5 DEF NewCheckpoint, DraftsTyped, RepositoryTyped, Intents, JoinStates
  <2>3. CallsTyped'
      BY <1>5 DEF NewCheckpoint, CallsTyped, Steps, Receipts, CaptureSteps
  <2>4. SnapshotsTyped'
      BY <1>5 DEF NewCheckpoint, SnapshotsTyped, EmptySnapshot, Snapshots, Statuses,
          RepositoryTyped, DraftsTyped, CallsTyped, Intents
  <2> QED BY <2>1, <2>2, <2>3, <2>4
<1>6. CASE Restart
  <2>1. RepositoryTyped'
      BY <1>6 DEF Restart, RepositoryTyped, Intents, NoBase
  <2>2. DraftsTyped'
      BY <1>6 DEF Restart, DraftsTyped, RepositoryTyped, Intents, JoinStates
  <2>3. CallsTyped'
      BY <1>6 DEF Restart, CallsTyped, Steps, Receipts, CaptureSteps
  <2>4. SnapshotsTyped'
      BY <1>6 DEF Restart, SnapshotsTyped, EmptySnapshot, Snapshots, Statuses,
          RepositoryTyped, DraftsTyped, CallsTyped, Intents
  <2> QED BY <2>1, <2>2, <2>3, <2>4
<1>7. ASSUME NEW h \in Handles, Fork(h) \/ Open(h) \/ WriteDraft(h) PROVE TypeOK'
  <2>1. CASE Fork(h)
    <3>1. RepositoryTyped'
        BY <2>1 DEF Fork, LoadDraft, GateFree, RepositoryTyped, Intents, NoBase
    <3>2. DraftsTyped'
        BY <2>1 DEF Fork, LoadDraft, GateFree, DraftsTyped, RepositoryTyped, Intents,
            JoinStates
    <3>3. CallsTyped'
        BY <2>1 DEF Fork, LoadDraft, GateFree, CallsTyped, Steps, Receipts, CaptureSteps
    <3>4. SnapshotsTyped'
        BY <2>1 DEF Fork, LoadDraft, GateFree, SnapshotsTyped, EmptySnapshot,
            Snapshots, Statuses, RepositoryTyped, DraftsTyped, CallsTyped, Intents
    <3> QED BY <3>1, <3>2, <3>3, <3>4
  <2>2. CASE Open(h)
    <3>1. RepositoryTyped'
        BY <2>2 DEF Open, LoadDraft, RepositoryTyped, Intents, NoBase
    <3>2. DraftsTyped'
        BY <2>2 DEF Open, LoadDraft, DraftsTyped, RepositoryTyped, Intents, JoinStates
    <3>3. CallsTyped'
        BY <2>2 DEF Open, LoadDraft, CallsTyped, Steps, Receipts, CaptureSteps
    <3>4. SnapshotsTyped'
        BY <2>2 DEF Open, LoadDraft, SnapshotsTyped, EmptySnapshot, Snapshots,
            Statuses, RepositoryTyped, DraftsTyped, CallsTyped, Intents
    <3> QED BY <3>1, <3>2, <3>3, <3>4
  <2>3. CASE WriteDraft(h)
    <3>1. RepositoryTyped'
        BY <2>3 DEF WriteDraft, GateFree, RepositoryTyped, Intents, NoBase
    <3>2. DraftsTyped'
        BY <2>3 DEF WriteDraft, GateFree, DraftsTyped, RepositoryTyped, Intents,
            JoinStates
    <3>3. CallsTyped'
        BY <2>3 DEF WriteDraft, GateFree, CallsTyped, Steps, Receipts, CaptureSteps
    <3>4. SnapshotsTyped'
        BY <2>3 DEF WriteDraft, GateFree, SnapshotsTyped, EmptySnapshot, Snapshots,
            Statuses, RepositoryTyped, DraftsTyped, CallsTyped, Intents
    <3> QED BY <3>1, <3>2, <3>3, <3>4
  <2> QED BY <1>7, <2>1, <2>2, <2>3
<1>8. ASSUME NEW p \in Plans, NEW h \in Handles, Preview(p, h) PROVE TypeOK'
  <2>1. RepositoryTyped'
      BY <1>8 DEF Preview, RepositoryTyped, Intents, NoBase
  <2>2. DraftsTyped'
      BY <1>8 DEF Preview, DraftsTyped, RepositoryTyped, Intents, JoinStates
  <2>3. CallsTyped'
      BY <1>8 DEF Preview, CallsTyped, Steps, Receipts, CaptureSteps
  <2>4. SnapshotsTyped'
      BY <1>8 DEF Preview, SnapshotsTyped, EmptySnapshot, Snapshots, Statuses,
          RepositoryTyped, DraftsTyped, CallsTyped, Intents
  <2> QED BY <2>1, <2>2, <2>3, <2>4
<1>9. ASSUME NEW p \in Plans, Settle(p) \/ TakeGate(p) \/ PlanStep(p) PROVE TypeOK'
  <2>1. CASE Settle(p)
    <3>1. RepositoryTyped'
        BY <2>1 DEF Settle, RepositoryTyped, Intents, NoBase
    <3>2. DraftsTyped'
        BY <2>1 DEF Settle, DraftsTyped, RepositoryTyped, Intents, JoinStates
    <3>3. CallsTyped'
        BY <2>1 DEF Settle, CallsTyped, Steps, Receipts, CaptureSteps
    <3>4. SnapshotsTyped'
        BY <2>1 DEF Settle, SnapshotsTyped, EmptySnapshot, Snapshots, Statuses,
            RepositoryTyped, DraftsTyped, CallsTyped, Intents
    <3> QED BY <3>1, <3>2, <3>3, <3>4
  <2>2. CASE TakeGate(p)
    <3>1. RepositoryTyped'
        BY <2>2 DEF TakeGate, GateFree, RepositoryTyped, Intents, NoBase
    <3>2. DraftsTyped'
        BY <2>2 DEF TakeGate, GateFree, DraftsTyped, RepositoryTyped, Intents,
            JoinStates
    <3>3. CallsTyped'
        BY <2>2 DEF TakeGate, GateFree, CallsTyped, Steps, Receipts, CaptureSteps
    <3>4. SnapshotsTyped'
        BY <2>2 DEF TakeGate, GateFree, SnapshotsTyped, EmptySnapshot, Snapshots,
            Statuses, RepositoryTyped, DraftsTyped, CallsTyped, Intents
    <3> QED BY <3>1, <3>2, <3>3, <3>4
  <2>3. CASE CaptureSource(p)
    <3>1. RepositoryTyped'
        BY <2>3 DEF CaptureSource, Capture, RepositoryTyped, Intents, NoBase
    <3>2. DraftsTyped'
        BY <2>3 DEF CaptureSource, Capture, DraftsTyped, RepositoryTyped, Intents,
            JoinStates
    <3>3. CallsTyped'
        BY <2>3 DEF CaptureSource, Capture, CallsTyped, Steps, Receipts, CaptureSteps
    <3>4. SnapshotsTyped'
        BY <2>3, ZenonT(40) DEF CaptureSource, Capture, SnapshotsTyped, EmptySnapshot, Snapshots,
            Statuses, RepositoryTyped, DraftsTyped, CallsTyped, Intents
    <3> QED BY <3>1, <3>2, <3>3, <3>4
  <2>4. CASE CaptureBasis(p)
    <3>1. RepositoryTyped'
        BY <2>4 DEF CaptureBasis, Capture, RepositoryTyped, Intents, NoBase
    <3>2. DraftsTyped'
        BY <2>4 DEF CaptureBasis, Capture, DraftsTyped, RepositoryTyped, Intents,
            JoinStates
    <3>3. CallsTyped'
        BY <2>4 DEF CaptureBasis, Capture, CallsTyped, Steps, Receipts, CaptureSteps
    <3>4. SnapshotsTyped'
        BY <2>4, ZenonT(40) DEF CaptureBasis, Capture, SnapshotsTyped, EmptySnapshot, Snapshots,
            Statuses, RepositoryTyped, DraftsTyped, CallsTyped, Intents
    <3> QED BY <3>1, <3>2, <3>3, <3>4
  <2>5. CASE CaptureFrontier(p)
    <3>1. RepositoryTyped'
        BY <2>5 DEF CaptureFrontier, Capture, RepositoryTyped, Intents, NoBase
    <3>2. DraftsTyped'
        BY <2>5 DEF CaptureFrontier, Capture, DraftsTyped, RepositoryTyped, Intents,
            JoinStates
    <3>3. CallsTyped'
        BY <2>5 DEF CaptureFrontier, Capture, CallsTyped, Steps, Receipts, CaptureSteps
    <3>4. SnapshotsTyped'
      <4>1. intents[handle[p]] \in SUBSET Intents /\ target \in Nat
          BY DEF RepositoryTyped, DraftsTyped, CallsTyped
      <4> QED BY <4>1, <2>5 DEF CaptureFrontier, Capture, SnapshotsTyped, Snapshots
    <3> QED BY <3>1, <3>2, <3>3, <3>4
  <2>6. CASE CaptureStatus(p)
    <3>0. Status(handle[p]) \in Statuses  BY DEF Status, Statuses
    <3>1. RepositoryTyped'
        BY <2>6 DEF CaptureStatus, Capture, RepositoryTyped, Intents, NoBase
    <3>2. DraftsTyped'
        BY <2>6 DEF CaptureStatus, Capture, DraftsTyped, RepositoryTyped, Intents,
            JoinStates
    <3>3. CallsTyped'
        BY <2>6 DEF CaptureStatus, Capture, CallsTyped, Steps, Receipts, CaptureSteps
    <3>4. SnapshotsTyped'
        BY <3>0, <2>6, ZenonT(40) DEF CaptureStatus, Capture, SnapshotsTyped, EmptySnapshot,
            Snapshots, Statuses, RepositoryTyped, DraftsTyped, CallsTyped, Intents
    <3> QED BY <3>1, <3>2, <3>3, <3>4
  <2>7. CASE PreviewAnswers(p)
    <3>1. RepositoryTyped'
        BY <2>7 DEF PreviewAnswers, RepositoryTyped, Intents, NoBase
    <3>2. DraftsTyped'
        BY <2>7 DEF PreviewAnswers, DraftsTyped, RepositoryTyped, Intents, JoinStates
    <3>3. CallsTyped'
        BY <2>7 DEF PreviewAnswers, CallsTyped, Steps, Receipts, CaptureSteps
    <3>4. SnapshotsTyped'
        BY <2>7 DEF PreviewAnswers, SnapshotsTyped, EmptySnapshot, Snapshots,
            Statuses, RepositoryTyped, DraftsTyped, CallsTyped, Intents
    <3> QED BY <3>1, <3>2, <3>3, <3>4
  <2>8. CASE PreviewThrows(p)
    <3>1. RepositoryTyped'
        BY <2>8 DEF PreviewThrows, RepositoryTyped, Intents, NoBase
    <3>2. DraftsTyped'
        BY <2>8 DEF PreviewThrows, DraftsTyped, RepositoryTyped, Intents, JoinStates
    <3>3. CallsTyped'
        BY <2>8 DEF PreviewThrows, CallsTyped, Steps, Receipts, CaptureSteps
    <3>4. SnapshotsTyped'
        BY <2>8 DEF PreviewThrows, SnapshotsTyped, EmptySnapshot, Snapshots, Statuses,
            RepositoryTyped, DraftsTyped, CallsTyped, Intents
    <3> QED BY <3>1, <3>2, <3>3, <3>4
  <2>9. CASE SettleStale(p)
    <3>1. RepositoryTyped'
        BY <2>9 DEF SettleStale, LeaveGate, RepositoryTyped, Intents, NoBase
    <3>2. DraftsTyped'
        BY <2>9 DEF SettleStale, LeaveGate, DraftsTyped, RepositoryTyped, Intents,
            JoinStates
    <3>3. CallsTyped'
        BY <2>9 DEF SettleStale, LeaveGate, CallsTyped, Steps, Receipts, CaptureSteps
    <3>4. SnapshotsTyped'
        BY <2>9 DEF SettleStale, LeaveGate, SnapshotsTyped, EmptySnapshot, Snapshots,
            Statuses, RepositoryTyped, DraftsTyped, CallsTyped, Intents
    <3> QED BY <3>1, <3>2, <3>3, <3>4
  <2>10. CASE SettleObstructed(p)
    <3>1. RepositoryTyped'
        BY <2>10 DEF SettleObstructed, LeaveGate, RepositoryTyped, Intents, NoBase
    <3>2. DraftsTyped'
        BY <2>10 DEF SettleObstructed, LeaveGate, DraftsTyped, RepositoryTyped,
            Intents, JoinStates
    <3>3. CallsTyped'
        BY <2>10 DEF SettleObstructed, LeaveGate, CallsTyped, Steps, Receipts,
            CaptureSteps
    <3>4. SnapshotsTyped'
        BY <2>10 DEF SettleObstructed, LeaveGate, SnapshotsTyped, EmptySnapshot,
            Snapshots, Statuses, RepositoryTyped, DraftsTyped, CallsTyped, Intents
    <3> QED BY <3>1, <3>2, <3>3, <3>4
  <2>11. CASE Promote(p)
    <3>1. RepositoryTyped'
        BY <2>11 DEF Promote, LeaveGate, RepositoryTyped, Intents, NoBase
    <3>2. DraftsTyped'
        BY <2>11 DEF Promote, LeaveGate, DraftsTyped, RepositoryTyped, Intents,
            JoinStates
    <3>3. CallsTyped'
        BY <2>11 DEF Promote, LeaveGate, CallsTyped, Steps, Receipts, CaptureSteps
    <3>4. SnapshotsTyped'
      <4>1. seen' = seen \/ seen' = [seen EXCEPT ![p] = EmptySnapshot]
          BY <2>11 DEF Promote, LeaveGate
      <4> QED BY <4>1, <2>11 DEF Promote, LeaveGate, SnapshotsTyped, EmptySnapshot,
              Snapshots, Statuses
    <3> QED BY <3>1, <3>2, <3>3, <3>4
  <2>12. CASE SettleThrows(p)
    <3>1. RepositoryTyped'
        BY <2>12 DEF SettleThrows, LeaveGate, RepositoryTyped, Intents, NoBase
    <3>2. DraftsTyped'
        BY <2>12 DEF SettleThrows, LeaveGate, DraftsTyped, RepositoryTyped, Intents,
            JoinStates
    <3>3. CallsTyped'
        BY <2>12 DEF SettleThrows, LeaveGate, CallsTyped, Steps, Receipts, CaptureSteps
    <3>4. SnapshotsTyped'
        BY <2>12 DEF SettleThrows, LeaveGate, SnapshotsTyped, EmptySnapshot,
            Snapshots, Statuses, RepositoryTyped, DraftsTyped, CallsTyped, Intents
    <3> QED BY <3>1, <3>2, <3>3, <3>4
  <2>13. CASE CommitIntent(p)
    <3>0. PICK j \in Uncommitted(handle[p]) :
              Lands(p, j) /\ joinShas' = [joinShas EXCEPT ![handle[p]] = @ \cup {j}]
        BY <2>13 DEF CommitIntent
    <3>5. j \in Intents  BY DEF Uncommitted, DraftsTyped, CallsTyped
    <3>1. RepositoryTyped'
        BY <3>0, <3>5, <2>13 DEF CommitIntent, Lands, RepositoryTyped, Intents, NoBase
    <3>2. DraftsTyped'
        BY <3>0, <3>5, <2>13, ZenonT(40) DEF CommitIntent, Lands, DraftsTyped, RepositoryTyped,
            Intents, JoinStates
    <3>3. CallsTyped'
        BY <3>0, <3>5, <2>13 DEF CommitIntent, Lands, CallsTyped, Steps, Receipts,
            CaptureSteps
    <3>4. SnapshotsTyped'
        BY <3>0, <3>5, <2>13 DEF CommitIntent, Lands, SnapshotsTyped, EmptySnapshot,
            Snapshots, Statuses, RepositoryTyped, DraftsTyped, CallsTyped, Intents
    <3> QED BY <3>1, <3>2, <3>3, <3>4
  <2>14. CASE CommitFails(p)
    <3>1. RepositoryTyped'
        BY <2>14 DEF CommitFails, Lands, LeaveGate, RepositoryTyped, Intents, NoBase
    <3>2. DraftsTyped'
        BY <2>14 DEF CommitFails, Lands, LeaveGate, DraftsTyped, RepositoryTyped,
            Intents, JoinStates
    <3>3. CallsTyped'
        BY <2>14 DEF CommitFails, Lands, LeaveGate, CallsTyped, Steps, Receipts,
            CaptureSteps
    <3>4. SnapshotsTyped'
        BY <2>14 DEF CommitFails, Lands, LeaveGate, SnapshotsTyped, EmptySnapshot,
            Snapshots, Statuses, RepositoryTyped, DraftsTyped, CallsTyped, Intents
    <3> QED BY <3>1, <3>2, <3>3, <3>4
  <2>15. CASE JoinCompletes(p)
    <3>1. RepositoryTyped'
        BY <2>15 DEF JoinCompletes, LeaveGate, RepositoryTyped, Intents, NoBase
    <3>2. DraftsTyped'
        BY <2>15 DEF JoinCompletes, LeaveGate, DraftsTyped, RepositoryTyped, Intents,
            JoinStates
    <3>3. CallsTyped'
        BY <2>15 DEF JoinCompletes, LeaveGate, CallsTyped, Steps, Receipts, CaptureSteps
    <3>4. SnapshotsTyped'
        BY <2>15 DEF JoinCompletes, LeaveGate, SnapshotsTyped, EmptySnapshot,
            Snapshots, Statuses, RepositoryTyped, DraftsTyped, CallsTyped, Intents
    <3> QED BY <3>1, <3>2, <3>3, <3>4
  <2> QED BY <1>9, <2>1, <2>2, <2>3, <2>4, <2>5, <2>6, <2>7, <2>8, <2>9, <2>10, <2>11, <2>12,
      <2>13, <2>14, <2>15 DEF PlanStep, CaptureStep
<1> QED BY <1>1, <1>2, <1>3, <1>4, <1>5, <1>6, <1>7, <1>8, <1>9 DEF Next

(* Snapshots, receipts and draft states are well formed in every reachable *)
(* state, for every number of handles, plans, intents and failures.        *)
THEOREM SettlementTypes == Spec => []TypeOK
<1>1. Init => TypeOK
    BY SettlementAssumption DEF Init, TypeOK, RepositoryTyped, DraftsTyped, CallsTyped,
        SnapshotsTyped, EmptySnapshot, Snapshots, Statuses, NoBase, Intents, JoinStates,
        Steps, CaptureSteps, Receipts
<1> QED BY <1>1, SettlementTypesStep, PTL DEF Spec

-----------------------------------------------------------------------------
(* At most one promotion. *)

(* Nothing was asked of a strand that does not exist. *)
Forked == base = NoBase => opened = {} /\ \A p \in Plans : step[p] = "none"

(* A plan belongs to a handle that is open. *)
PlanOpened == \A p \in Plans : step[p] # "none" => handle[p] \in opened

(* The gate is exclusive and a promotion holds it. *)
GateHeld ==
    /\ \A p \in Plans : step[p] = "promoting" => p \in gate
    /\ \A p, q \in gate : p = q

(* An intent that landed has moved the target off the strand's basis for good. *)
Landings ==
    /\ base.frontier <= target
    /\ \A i \in Intents : landed[i] > 0 => base # NoBase /\ base.frontier < target

(* Whoever holds the gate and has read the basis's frontier knows that nothing *)
(* of the strand has landed: nobody lands anything while the gate is held.     *)
FrontierSeen ==
    \A p \in gate :
        step[p] \in {"status", "captured"} /\ seen[p].frontier = base.frontier
            => \A i \in Intents : landed[i] = 0

(* What a promotion still has to commit has not landed. *)
Remaining ==
    \A p \in Plans : step[p] = "promoting" =>
        \A i \in intents[handle[p]] : i \notin joinShas[handle[p]] => landed[i] = 0

OnceInv ==
    /\ TypeOK /\ Forked /\ PlanOpened /\ GateHeld
    /\ Landings /\ FrontierSeen /\ Remaining /\ PromotedOnce

(* Every step keeps the invariant behind PromotedOnce. *)
LEMMA OnceStep == OnceInv /\ [Next]_vars => OnceInv'
<1> SUFFICES ASSUME OnceInv, [Next]_vars
             PROVE  Forked' /\ PlanOpened' /\ GateHeld' /\ Landings' /\ FrontierSeen' /\ Remaining' /\ PromotedOnce'
    BY SettlementTypesStep DEF OnceInv
<1> USE SettlementAssumption
<1> USE DEF OnceInv, TypeOK, RepositoryTyped, DraftsTyped, CallsTyped, repository, drafts, calls
<1>1. CASE UNCHANGED vars
    BY <1>1 DEF vars, Forked, PlanOpened, GateHeld, Landings, FrontierSeen, Remaining,
        PromotedOnce
<1>2. CASE WriteTarget
  <2>1. Forked'
      BY <1>2 DEF WriteTarget, GateFree, Forked, NoBase, CaptureSteps
  <2>2. PlanOpened'
      BY <1>2 DEF WriteTarget, GateFree, PlanOpened, Forked, CaptureSteps
  <2>3. GateHeld'
      BY <1>2 DEF WriteTarget, GateFree, GateHeld
  <2>4. Landings'
      BY <1>2 DEF WriteTarget, GateFree, Landings, Forked
  <2>5. FrontierSeen'
      BY <1>2 DEF WriteTarget, GateFree, FrontierSeen, GateHeld, Landings,
          SnapshotsTyped, Snapshots
  <2>6. Remaining'
      BY <1>2 DEF WriteTarget, GateFree, Remaining, GateHeld, PlanOpened
  <2>7. PromotedOnce'
      BY <1>2 DEF WriteTarget, GateFree, PromotedOnce, Remaining
  <2> QED BY <2>1, <2>2, <2>3, <2>4, <2>5, <2>6, <2>7
<1>3. CASE OtherCommits
  <2>1. Forked'
      BY <1>3 DEF OtherCommits, Forked, NoBase, CaptureSteps
  <2>2. PlanOpened'
      BY <1>3 DEF OtherCommits, PlanOpened, Forked, CaptureSteps
  <2>3. GateHeld'
      BY <1>3 DEF OtherCommits, GateHeld
  <2>4. Landings'
      BY <1>3 DEF OtherCommits, Landings, Forked
  <2>5. FrontierSeen'
      BY <1>3 DEF OtherCommits, FrontierSeen, GateHeld, Landings, SnapshotsTyped,
          Snapshots
  <2>6. Remaining'
      BY <1>3 DEF OtherCommits, Remaining, GateHeld, PlanOpened
  <2>7. PromotedOnce'
      BY <1>3 DEF OtherCommits, PromotedOnce, Remaining
  <2> QED BY <2>1, <2>2, <2>3, <2>4, <2>5, <2>6, <2>7
<1>4. CASE OtherWritesDraft
  <2>1. Forked'
      BY <1>4 DEF OtherWritesDraft, Forked, NoBase, CaptureSteps
  <2>2. PlanOpened'
      BY <1>4 DEF OtherWritesDraft, PlanOpened, Forked, CaptureSteps
  <2>3. GateHeld'
      BY <1>4 DEF OtherWritesDraft, GateHeld
  <2>4. Landings'
      BY <1>4 DEF OtherWritesDraft, Landings, Forked
  <2>5. FrontierSeen'
      BY <1>4 DEF OtherWritesDraft, FrontierSeen, GateHeld, Landings, SnapshotsTyped,
          Snapshots
  <2>6. Remaining'
      BY <1>4 DEF OtherWritesDraft, Remaining, GateHeld, PlanOpened
  <2>7. PromotedOnce'
      BY <1>4 DEF OtherWritesDraft, PromotedOnce, Remaining
  <2> QED BY <2>1, <2>2, <2>3, <2>4, <2>5, <2>6, <2>7
<1>5. CASE NewCheckpoint
  <2>1. Forked'
      BY <1>5 DEF NewCheckpoint, Forked, NoBase, CaptureSteps
  <2>2. PlanOpened'
      BY <1>5 DEF NewCheckpoint, PlanOpened, Forked, CaptureSteps
  <2>3. GateHeld'
      BY <1>5 DEF NewCheckpoint, GateHeld
  <2>4. Landings'
      BY <1>5 DEF NewCheckpoint, Landings, Forked
  <2>5. FrontierSeen'
      BY <1>5 DEF NewCheckpoint, FrontierSeen, GateHeld, Landings, SnapshotsTyped,
          Snapshots
  <2>6. Remaining'
      BY <1>5 DEF NewCheckpoint, Remaining, GateHeld, PlanOpened
  <2>7. PromotedOnce'
      BY <1>5 DEF NewCheckpoint, PromotedOnce, Remaining
  <2> QED BY <2>1, <2>2, <2>3, <2>4, <2>5, <2>6, <2>7
<1>6. CASE Restart
  <2>1. Forked'
      BY <1>6 DEF Restart, Forked, NoBase, CaptureSteps
  <2>2. PlanOpened'
      BY <1>6 DEF Restart, PlanOpened, Forked, CaptureSteps
  <2>3. GateHeld'
      BY <1>6 DEF Restart, GateHeld
  <2>4. Landings'
      BY <1>6 DEF Restart, Landings, Forked
  <2>5. FrontierSeen'
      BY <1>6 DEF Restart, FrontierSeen, GateHeld, Landings, SnapshotsTyped, Snapshots
  <2>6. Remaining'
      BY <1>6 DEF Restart, Remaining, GateHeld, PlanOpened
  <2>7. PromotedOnce'
      BY <1>6 DEF Restart, PromotedOnce, Remaining
  <2> QED BY <2>1, <2>2, <2>3, <2>4, <2>5, <2>6, <2>7
<1>7. ASSUME NEW h \in Handles, Fork(h) \/ Open(h) \/ WriteDraft(h)
      PROVE  Forked' /\ PlanOpened' /\ GateHeld' /\ Landings' /\ FrontierSeen' /\ Remaining' /\ PromotedOnce'
  <2>1. CASE Fork(h)
    <3>1. Forked'
        BY <2>1 DEF Fork, LoadDraft, GateFree, Forked, NoBase, CaptureSteps, NoBase
    <3>2. PlanOpened'
        BY <2>1 DEF Fork, LoadDraft, GateFree, PlanOpened, Forked, CaptureSteps, NoBase
    <3>3. GateHeld'
        BY <2>1 DEF Fork, LoadDraft, GateFree, GateHeld, NoBase
    <3>4. Landings'
        BY <2>1 DEF Fork, LoadDraft, GateFree, Landings, Forked, NoBase
    <3>5. FrontierSeen'
        BY <2>1 DEF Fork, LoadDraft, GateFree, FrontierSeen, GateHeld, Landings,
            SnapshotsTyped, Snapshots, NoBase
    <3>6. Remaining'
        BY <2>1 DEF Fork, LoadDraft, GateFree, Remaining, GateHeld, PlanOpened, NoBase
    <3>7. PromotedOnce'
        BY <2>1 DEF Fork, LoadDraft, GateFree, PromotedOnce, Remaining, NoBase
    <3> QED BY <3>1, <3>2, <3>3, <3>4, <3>5, <3>6, <3>7
  <2>2. CASE Open(h)
    <3>1. Forked'
        BY <2>2 DEF Open, LoadDraft, Forked, NoBase, CaptureSteps
    <3>2. PlanOpened'
        BY <2>2 DEF Open, LoadDraft, PlanOpened, Forked, CaptureSteps
    <3>3. GateHeld'
        BY <2>2 DEF Open, LoadDraft, GateHeld
    <3>4. Landings'
        BY <2>2 DEF Open, LoadDraft, Landings, Forked
    <3>5. FrontierSeen'
        BY <2>2 DEF Open, LoadDraft, FrontierSeen, GateHeld, Landings, SnapshotsTyped,
            Snapshots
    <3>6. Remaining'
        BY <2>2 DEF Open, LoadDraft, Remaining, GateHeld, PlanOpened
    <3>7. PromotedOnce'
        BY <2>2 DEF Open, LoadDraft, PromotedOnce, Remaining
    <3> QED BY <3>1, <3>2, <3>3, <3>4, <3>5, <3>6, <3>7
  <2>3. CASE WriteDraft(h)
    <3>1. Forked'
        BY <2>3 DEF WriteDraft, GateFree, Forked, NoBase, CaptureSteps
    <3>2. PlanOpened'
        BY <2>3 DEF WriteDraft, GateFree, PlanOpened, Forked, CaptureSteps
    <3>3. GateHeld'
        BY <2>3 DEF WriteDraft, GateFree, GateHeld
    <3>4. Landings'
        BY <2>3 DEF WriteDraft, GateFree, Landings, Forked
    <3>5. FrontierSeen'
        BY <2>3 DEF WriteDraft, GateFree, FrontierSeen, GateHeld, Landings,
            SnapshotsTyped, Snapshots
    <3>6. Remaining'
        BY <2>3 DEF WriteDraft, GateFree, Remaining, GateHeld, PlanOpened
    <3>7. PromotedOnce'
        BY <2>3 DEF WriteDraft, GateFree, PromotedOnce, Remaining
    <3> QED BY <3>1, <3>2, <3>3, <3>4, <3>5, <3>6, <3>7
  <2> QED BY <1>7, <2>1, <2>2, <2>3
<1>8. ASSUME NEW p \in Plans, NEW h \in Handles, Preview(p, h)
      PROVE  Forked' /\ PlanOpened' /\ GateHeld' /\ Landings' /\ FrontierSeen' /\ Remaining' /\ PromotedOnce'
  <2>1. Forked'
      BY <1>8 DEF Preview, Forked, NoBase, CaptureSteps
  <2>2. PlanOpened'
      BY <1>8 DEF Preview, PlanOpened, Forked, CaptureSteps
  <2>3. GateHeld'
      BY <1>8 DEF Preview, GateHeld
  <2>4. Landings'
      BY <1>8 DEF Preview, Landings, Forked
  <2>5. FrontierSeen'
      BY <1>8 DEF Preview, FrontierSeen, GateHeld, Landings, SnapshotsTyped, Snapshots
  <2>6. Remaining'
      BY <1>8 DEF Preview, Remaining, GateHeld, PlanOpened
  <2>7. PromotedOnce'
      BY <1>8 DEF Preview, PromotedOnce, Remaining
  <2> QED BY <2>1, <2>2, <2>3, <2>4, <2>5, <2>6, <2>7
<1>9. ASSUME NEW p \in Plans, Settle(p) \/ TakeGate(p) \/ PlanStep(p)
      PROVE  Forked' /\ PlanOpened' /\ GateHeld' /\ Landings' /\ FrontierSeen' /\ Remaining' /\ PromotedOnce'
  <2>1. CASE Settle(p)
    <3>1. Forked'
        BY <2>1 DEF Settle, Forked, NoBase, CaptureSteps
    <3>2. PlanOpened'
        BY <2>1 DEF Settle, PlanOpened, Forked, CaptureSteps
    <3>3. GateHeld'
        BY <2>1 DEF Settle, GateHeld
    <3>4. Landings'
        BY <2>1 DEF Settle, Landings, Forked
    <3>5. FrontierSeen'
        BY <2>1 DEF Settle, FrontierSeen, GateHeld, Landings, SnapshotsTyped, Snapshots
    <3>6. Remaining'
        BY <2>1 DEF Settle, Remaining, GateHeld, PlanOpened
    <3>7. PromotedOnce'
        BY <2>1 DEF Settle, PromotedOnce, Remaining
    <3> QED BY <3>1, <3>2, <3>3, <3>4, <3>5, <3>6, <3>7
  <2>2. CASE TakeGate(p)
    <3>1. Forked'
        BY <2>2 DEF TakeGate, GateFree, Forked, NoBase, CaptureSteps
    <3>2. PlanOpened'
        BY <2>2 DEF TakeGate, GateFree, PlanOpened, Forked, CaptureSteps
    <3>3. GateHeld'
        BY <2>2 DEF TakeGate, GateFree, GateHeld
    <3>4. Landings'
        BY <2>2 DEF TakeGate, GateFree, Landings, Forked
    <3>5. FrontierSeen'
        BY <2>2 DEF TakeGate, GateFree, FrontierSeen, GateHeld, Landings,
            SnapshotsTyped, Snapshots
    <3>6. Remaining'
        BY <2>2 DEF TakeGate, GateFree, Remaining, GateHeld, PlanOpened
    <3>7. PromotedOnce'
        BY <2>2 DEF TakeGate, GateFree, PromotedOnce, Remaining
    <3> QED BY <3>1, <3>2, <3>3, <3>4, <3>5, <3>6, <3>7
  <2>3. CASE CaptureSource(p)
    <3>1. Forked'
        BY <2>3 DEF CaptureSource, Capture, Forked, NoBase, CaptureSteps
    <3>2. PlanOpened'
        BY <2>3 DEF CaptureSource, Capture, PlanOpened, Forked, CaptureSteps
    <3>3. GateHeld'
        BY <2>3 DEF CaptureSource, Capture, GateHeld
    <3>4. Landings'
        BY <2>3 DEF CaptureSource, Capture, Landings, Forked
    <3>5. FrontierSeen'
        BY <2>3 DEF CaptureSource, Capture, FrontierSeen, GateHeld, Landings,
            SnapshotsTyped, Snapshots
    <3>6. Remaining'
        BY <2>3 DEF CaptureSource, Capture, Remaining, GateHeld, PlanOpened
    <3>7. PromotedOnce'
        BY <2>3 DEF CaptureSource, Capture, PromotedOnce, Remaining
    <3> QED BY <3>1, <3>2, <3>3, <3>4, <3>5, <3>6, <3>7
  <2>4. CASE CaptureBasis(p)
    <3>1. Forked'
        BY <2>4 DEF CaptureBasis, Capture, Forked, NoBase, CaptureSteps
    <3>2. PlanOpened'
        BY <2>4 DEF CaptureBasis, Capture, PlanOpened, Forked, CaptureSteps
    <3>3. GateHeld'
        BY <2>4 DEF CaptureBasis, Capture, GateHeld
    <3>4. Landings'
        BY <2>4 DEF CaptureBasis, Capture, Landings, Forked
    <3>5. FrontierSeen'
        BY <2>4 DEF CaptureBasis, Capture, FrontierSeen, GateHeld, Landings,
            SnapshotsTyped, Snapshots
    <3>6. Remaining'
        BY <2>4 DEF CaptureBasis, Capture, Remaining, GateHeld, PlanOpened
    <3>7. PromotedOnce'
        BY <2>4 DEF CaptureBasis, Capture, PromotedOnce, Remaining
    <3> QED BY <3>1, <3>2, <3>3, <3>4, <3>5, <3>6, <3>7
  <2>5. CASE CaptureFrontier(p)
    <3>1. Forked'
        BY <2>5 DEF CaptureFrontier, Capture, Forked, NoBase, CaptureSteps
    <3>2. PlanOpened'
        BY <2>5 DEF CaptureFrontier, Capture, PlanOpened, Forked, CaptureSteps
    <3>3. GateHeld'
        BY <2>5 DEF CaptureFrontier, Capture, GateHeld
    <3>4. Landings'
        BY <2>5 DEF CaptureFrontier, Capture, Landings, Forked
    <3>5. FrontierSeen'
        BY <2>5 DEF CaptureFrontier, Capture, FrontierSeen, GateHeld, Landings,
            SnapshotsTyped, Snapshots
    <3>6. Remaining'
        BY <2>5 DEF CaptureFrontier, Capture, Remaining, GateHeld, PlanOpened
    <3>7. PromotedOnce'
        BY <2>5 DEF CaptureFrontier, Capture, PromotedOnce, Remaining
    <3> QED BY <3>1, <3>2, <3>3, <3>4, <3>5, <3>6, <3>7
  <2>6. CASE CaptureStatus(p)
    <3>1. Forked'
        BY <2>6 DEF CaptureStatus, Capture, Forked, NoBase, CaptureSteps
    <3>2. PlanOpened'
        BY <2>6 DEF CaptureStatus, Capture, PlanOpened, Forked, CaptureSteps
    <3>3. GateHeld'
        BY <2>6 DEF CaptureStatus, Capture, GateHeld
    <3>4. Landings'
        BY <2>6 DEF CaptureStatus, Capture, Landings, Forked
    <3>5. FrontierSeen'
        BY <2>6 DEF CaptureStatus, Capture, FrontierSeen, GateHeld, Landings,
            SnapshotsTyped, Snapshots
    <3>6. Remaining'
        BY <2>6 DEF CaptureStatus, Capture, Remaining, GateHeld, PlanOpened
    <3>7. PromotedOnce'
        BY <2>6 DEF CaptureStatus, Capture, PromotedOnce, Remaining
    <3> QED BY <3>1, <3>2, <3>3, <3>4, <3>5, <3>6, <3>7
  <2>7. CASE PreviewAnswers(p)
    <3>1. Forked'
        BY <2>7 DEF PreviewAnswers, Forked, NoBase, CaptureSteps
    <3>2. PlanOpened'
        BY <2>7 DEF PreviewAnswers, PlanOpened, Forked, CaptureSteps
    <3>3. GateHeld'
        BY <2>7 DEF PreviewAnswers, GateHeld
    <3>4. Landings'
        BY <2>7 DEF PreviewAnswers, Landings, Forked
    <3>5. FrontierSeen'
        BY <2>7 DEF PreviewAnswers, FrontierSeen, GateHeld, Landings, SnapshotsTyped,
            Snapshots
    <3>6. Remaining'
        BY <2>7 DEF PreviewAnswers, Remaining, GateHeld, PlanOpened
    <3>7. PromotedOnce'
        BY <2>7 DEF PreviewAnswers, PromotedOnce, Remaining
    <3> QED BY <3>1, <3>2, <3>3, <3>4, <3>5, <3>6, <3>7
  <2>8. CASE PreviewThrows(p)
    <3>1. Forked'
        BY <2>8 DEF PreviewThrows, Forked, NoBase, CaptureSteps
    <3>2. PlanOpened'
        BY <2>8 DEF PreviewThrows, PlanOpened, Forked, CaptureSteps
    <3>3. GateHeld'
        BY <2>8 DEF PreviewThrows, GateHeld
    <3>4. Landings'
        BY <2>8 DEF PreviewThrows, Landings, Forked
    <3>5. FrontierSeen'
        BY <2>8 DEF PreviewThrows, FrontierSeen, GateHeld, Landings, SnapshotsTyped,
            Snapshots
    <3>6. Remaining'
        BY <2>8 DEF PreviewThrows, Remaining, GateHeld, PlanOpened
    <3>7. PromotedOnce'
        BY <2>8 DEF PreviewThrows, PromotedOnce, Remaining
    <3> QED BY <3>1, <3>2, <3>3, <3>4, <3>5, <3>6, <3>7
  <2>9. CASE SettleStale(p)
    <3>1. Forked'
        BY <2>9 DEF SettleStale, LeaveGate, Forked, NoBase, CaptureSteps
    <3>2. PlanOpened'
        BY <2>9 DEF SettleStale, LeaveGate, PlanOpened, Forked, CaptureSteps
    <3>3. GateHeld'
        BY <2>9 DEF SettleStale, LeaveGate, GateHeld
    <3>4. Landings'
        BY <2>9 DEF SettleStale, LeaveGate, Landings, Forked
    <3>5. FrontierSeen'
        BY <2>9 DEF SettleStale, LeaveGate, FrontierSeen, GateHeld, Landings,
            SnapshotsTyped, Snapshots
    <3>6. Remaining'
        BY <2>9 DEF SettleStale, LeaveGate, Remaining, GateHeld, PlanOpened
    <3>7. PromotedOnce'
        BY <2>9 DEF SettleStale, LeaveGate, PromotedOnce, Remaining
    <3> QED BY <3>1, <3>2, <3>3, <3>4, <3>5, <3>6, <3>7
  <2>10. CASE SettleObstructed(p)
    <3>1. Forked'
        BY <2>10 DEF SettleObstructed, LeaveGate, Forked, NoBase, CaptureSteps
    <3>2. PlanOpened'
        BY <2>10 DEF SettleObstructed, LeaveGate, PlanOpened, Forked, CaptureSteps
    <3>3. GateHeld'
        BY <2>10 DEF SettleObstructed, LeaveGate, GateHeld
    <3>4. Landings'
        BY <2>10 DEF SettleObstructed, LeaveGate, Landings, Forked
    <3>5. FrontierSeen'
        BY <2>10 DEF SettleObstructed, LeaveGate, FrontierSeen, GateHeld, Landings,
            SnapshotsTyped, Snapshots
    <3>6. Remaining'
        BY <2>10 DEF SettleObstructed, LeaveGate, Remaining, GateHeld, PlanOpened
    <3>7. PromotedOnce'
        BY <2>10 DEF SettleObstructed, LeaveGate, PromotedOnce, Remaining
    <3> QED BY <3>1, <3>2, <3>3, <3>4, <3>5, <3>6, <3>7
  <2>11. CASE Promote(p)
    <3>0. \A i \in Intents : landed[i] = 0
        BY <2>11 DEF Promote, BasisMatches, Derived, FrontierSeen
    <3>1. Forked'
        BY <2>11 DEF Promote, LeaveGate, Forked, NoBase, CaptureSteps
    <3>2. PlanOpened'
        BY <2>11 DEF Promote, LeaveGate, PlanOpened, Forked, CaptureSteps
    <3>3. GateHeld'
        BY <2>11 DEF Promote, LeaveGate, GateHeld
    <3>4. Landings'
        BY <2>11 DEF Promote, LeaveGate, Landings, Forked
    <3>5. FrontierSeen'
        BY <2>11 DEF Promote, LeaveGate, FrontierSeen, GateHeld, Landings,
            SnapshotsTyped, Snapshots
    <3>6. Remaining'
        BY <2>11, <3>0 DEF Promote, LeaveGate, Remaining, GateHeld, PlanOpened,
            SnapshotsTyped
    <3>7. PromotedOnce'
        BY <2>11 DEF Promote, LeaveGate, PromotedOnce, Remaining
    <3> QED BY <3>1, <3>2, <3>3, <3>4, <3>5, <3>6, <3>7
  <2>12. CASE SettleThrows(p)
    <3>1. Forked'
        BY <2>12 DEF SettleThrows, LeaveGate, Forked, NoBase, CaptureSteps
    <3>2. PlanOpened'
        BY <2>12 DEF SettleThrows, LeaveGate, PlanOpened, Forked, CaptureSteps
    <3>3. GateHeld'
        BY <2>12 DEF SettleThrows, LeaveGate, GateHeld
    <3>4. Landings'
        BY <2>12 DEF SettleThrows, LeaveGate, Landings, Forked
    <3>5. FrontierSeen'
        BY <2>12 DEF SettleThrows, LeaveGate, FrontierSeen, GateHeld, Landings,
            SnapshotsTyped, Snapshots
    <3>6. Remaining'
        BY <2>12 DEF SettleThrows, LeaveGate, Remaining, GateHeld, PlanOpened
    <3>7. PromotedOnce'
        BY <2>12 DEF SettleThrows, LeaveGate, PromotedOnce, Remaining
    <3> QED BY <3>1, <3>2, <3>3, <3>4, <3>5, <3>6, <3>7
  <2>13. CASE CommitIntent(p)
    <3>0. PICK j \in Uncommitted(handle[p]) :
              Lands(p, j) /\ joinShas' = [joinShas EXCEPT ![handle[p]] = @ \cup {j}]
        BY <2>13 DEF CommitIntent
    <3>11. j \in Intents /\ j \in intents[handle[p]] /\ j \notin joinShas[handle[p]]
        BY DEF Uncommitted
    <3>12. step[p] = "promoting" /\ p \in gate /\ base # NoBase
        BY <2>13 DEF CommitIntent, GateHeld, Forked
    <3>13. landed[j] = 0  BY <3>11, <3>12 DEF Remaining
    <3>1. Forked'
        BY <2>13, <3>0, <3>11, <3>12, <3>13 DEF CommitIntent, Lands, Forked, NoBase,
            CaptureSteps
    <3>2. PlanOpened'
        BY <2>13, <3>0, <3>11, <3>12, <3>13 DEF CommitIntent, Lands, PlanOpened,
            Forked, CaptureSteps
    <3>3. GateHeld'
        BY <2>13, <3>0, <3>11, <3>12, <3>13 DEF CommitIntent, Lands, GateHeld
    <3>4. Landings'
        BY <2>13, <3>0, <3>11, <3>12, <3>13 DEF CommitIntent, Lands, Landings, Forked
    <3>5. FrontierSeen'
        BY <2>13, <3>0, <3>11, <3>12, <3>13 DEF CommitIntent, Lands, FrontierSeen,
            GateHeld, Landings, SnapshotsTyped, Snapshots
    <3>6. Remaining'
        BY <2>13, <3>0, <3>11, <3>12, <3>13 DEF CommitIntent, Lands, Remaining,
            GateHeld, PlanOpened
    <3>7. PromotedOnce'
        BY <2>13, <3>0, <3>11, <3>12, <3>13 DEF CommitIntent, Lands, PromotedOnce,
            Remaining
    <3> QED BY <3>1, <3>2, <3>3, <3>4, <3>5, <3>6, <3>7
  <2>14. CASE CommitFails(p)
    <3>0. step[p] = "promoting" /\ p \in gate /\ base # NoBase
        BY <2>14 DEF CommitFails, GateHeld, Forked
    <3>11. \/ landed' = landed /\ target' = target
          \/ \E j \in Intents : landed[j] = 0 /\ landed' = [landed EXCEPT ![j] = @ + 1]
                                  /\ target' = target + 1
        BY <3>0, <2>14 DEF CommitFails, Lands, Uncommitted, Remaining
    <3>12. gate' = {} /\ step' = [step EXCEPT ![p] = "issued"]  BY <2>14 DEF CommitFails,
        LeaveGate
    <3>1. Forked'
        BY <2>14, <3>0, <3>11, <3>12 DEF CommitFails, Lands, LeaveGate, Forked,
            NoBase, CaptureSteps
    <3>2. PlanOpened'
        BY <2>14, <3>0, <3>11, <3>12 DEF CommitFails, Lands, LeaveGate, PlanOpened,
            Forked, CaptureSteps
    <3>3. GateHeld'
        BY <2>14, <3>0, <3>11, <3>12 DEF CommitFails, Lands, LeaveGate, GateHeld
    <3>4. Landings'
        BY <2>14, <3>0, <3>11, <3>12 DEF CommitFails, Lands, LeaveGate, Landings, Forked
    <3>5. FrontierSeen'
        BY <2>14, <3>0, <3>11, <3>12 DEF CommitFails, Lands, LeaveGate, FrontierSeen,
            GateHeld, Landings, SnapshotsTyped, Snapshots
    <3>6. Remaining'
        BY <2>14, <3>0, <3>11, <3>12 DEF CommitFails, Lands, LeaveGate, Remaining,
            GateHeld, PlanOpened
    <3>7. PromotedOnce'
        BY <2>14, <3>0, <3>11, <3>12 DEF CommitFails, Lands, LeaveGate, PromotedOnce,
            Remaining
    <3> QED BY <3>1, <3>2, <3>3, <3>4, <3>5, <3>6, <3>7
  <2>15. CASE JoinCompletes(p)
    <3>1. Forked'
        BY <2>15 DEF JoinCompletes, LeaveGate, Forked, NoBase, CaptureSteps
    <3>2. PlanOpened'
        BY <2>15 DEF JoinCompletes, LeaveGate, PlanOpened, Forked, CaptureSteps
    <3>3. GateHeld'
        BY <2>15 DEF JoinCompletes, LeaveGate, GateHeld
    <3>4. Landings'
        BY <2>15 DEF JoinCompletes, LeaveGate, Landings, Forked
    <3>5. FrontierSeen'
        BY <2>15 DEF JoinCompletes, LeaveGate, FrontierSeen, GateHeld, Landings,
            SnapshotsTyped, Snapshots
    <3>6. Remaining'
        BY <2>15 DEF JoinCompletes, LeaveGate, Remaining, GateHeld, PlanOpened
    <3>7. PromotedOnce'
        BY <2>15 DEF JoinCompletes, LeaveGate, PromotedOnce, Remaining
    <3> QED BY <3>1, <3>2, <3>3, <3>4, <3>5, <3>6, <3>7
  <2> QED BY <1>9, <2>1, <2>2, <2>3, <2>4, <2>5, <2>6, <2>7, <2>8, <2>9, <2>10, <2>11, <2>12,
      <2>13, <2>14, <2>15 DEF PlanStep, CaptureStep
<1> QED BY <1>1, <1>2, <1>3, <1>4, <1>5, <1>6, <1>7, <1>8, <1>9 DEF Next

(* The invariant holds in the initial states. *)
LEMMA OnceInit == Init => OnceInv
<1>1. Init => TypeOK
    BY SettlementAssumption DEF Init, TypeOK, RepositoryTyped, DraftsTyped, CallsTyped,
        SnapshotsTyped, EmptySnapshot, Snapshots, Statuses, NoBase, Intents, JoinStates,
        Steps, CaptureSteps, Receipts
<1> QED BY <1>1, SettlementAssumption DEF Init, OnceInv, Forked, PlanOpened, GateHeld, Landings,
        FrontierSeen, Remaining, PromotedOnce, NoBase

(* One Runtime commits no strand intent to the worldline twice, whatever    *)
(* handles, plans, failures, restarts and other processes' writes there are. *)
THEOREM PromotionAtMostOnce == Spec => []PromotedOnce
<1>1. Init => OnceInv  BY OnceInit
<1>2. OnceInv => PromotedOnce  BY DEF OnceInv
<1> QED BY <1>1, <1>2, OnceStep, PTL DEF Spec

-----------------------------------------------------------------------------
(* A derived receipt is complete. *)

(* A patch the draft counts as joined is in the target. *)
JoinLanded == \A h \in Handles : \A i \in joinShas[h] : landed[i] >= 1

(* A handle that is not open proposes nothing. *)
Unopened == \A h \in Handles : h \notin opened => intents[h] = {}

(* What a plan proposes is in its draft: a draft only grows while it is open. *)
Proposed ==
    \A p \in Plans :
        /\ plan[p].proposal \subseteq intents[handle[p]]
        /\ step[p] \in {"status", "captured"} => seen[p].proposal \subseteq intents[handle[p]]

(* A call that is under way has not answered. *)
Unanswered ==
    \A p \in Plans : step[p] \in CaptureSteps \cup {"queued", "promoting"} => receipt[p] = "none"

CompleteInv ==
    /\ TypeOK /\ Forked /\ PlanOpened
    /\ JoinLanded /\ Unopened /\ Proposed /\ Unanswered /\ DerivedIsComplete

(* Every step keeps the invariant behind DerivedIsComplete. *)
LEMMA CompleteStep == OnceInv /\ OnceInv' /\ CompleteInv /\ [Next]_vars => CompleteInv'
<1> SUFFICES ASSUME OnceInv, OnceInv', CompleteInv, [Next]_vars
             PROVE  JoinLanded' /\ Unopened' /\ Proposed' /\ Unanswered' /\ DerivedIsComplete'
    BY DEF OnceInv, CompleteInv
<1> USE SettlementAssumption
<1> USE DEF CompleteInv, TypeOK, RepositoryTyped, DraftsTyped, CallsTyped, repository, drafts,
calls
<1>1. CASE UNCHANGED vars
    BY <1>1 DEF vars, JoinLanded, Unopened, Proposed, Unanswered, DerivedIsComplete
<1>2. CASE WriteTarget
  <2>1. JoinLanded'
      BY <1>2 DEF WriteTarget, GateFree, JoinLanded, Intents
  <2>2. Unopened'
      BY <1>2 DEF WriteTarget, GateFree, Unopened, Forked, PlanOpened
  <2>3. Proposed'
      BY <1>2 DEF WriteTarget, GateFree, Proposed, Unopened, PlanOpened, Forked,
          SnapshotsTyped, Snapshots, EmptySnapshot
  <2>4. Unanswered'
      BY <1>2 DEF WriteTarget, GateFree, Unanswered, CaptureSteps
  <2>5. DerivedIsComplete'
      BY <1>2 DEF WriteTarget, GateFree, DerivedIsComplete, SnapshotsTyped, Snapshots,
          EmptySnapshot, Intents
  <2> QED BY <2>1, <2>2, <2>3, <2>4, <2>5
<1>3. CASE OtherCommits
  <2>1. JoinLanded'
      BY <1>3 DEF OtherCommits, JoinLanded, Intents
  <2>2. Unopened'
      BY <1>3 DEF OtherCommits, Unopened, Forked, PlanOpened
  <2>3. Proposed'
      BY <1>3 DEF OtherCommits, Proposed, Unopened, PlanOpened, Forked,
          SnapshotsTyped, Snapshots, EmptySnapshot
  <2>4. Unanswered'
      BY <1>3 DEF OtherCommits, Unanswered, CaptureSteps
  <2>5. DerivedIsComplete'
      BY <1>3 DEF OtherCommits, DerivedIsComplete, SnapshotsTyped, Snapshots,
          EmptySnapshot, Intents
  <2> QED BY <2>1, <2>2, <2>3, <2>4, <2>5
<1>4. CASE OtherWritesDraft
  <2>1. JoinLanded'
      BY <1>4 DEF OtherWritesDraft, JoinLanded, Intents
  <2>2. Unopened'
      BY <1>4 DEF OtherWritesDraft, Unopened, Forked, PlanOpened
  <2>3. Proposed'
      BY <1>4 DEF OtherWritesDraft, Proposed, Unopened, PlanOpened, Forked,
          SnapshotsTyped, Snapshots, EmptySnapshot
  <2>4. Unanswered'
      BY <1>4 DEF OtherWritesDraft, Unanswered, CaptureSteps
  <2>5. DerivedIsComplete'
      BY <1>4 DEF OtherWritesDraft, DerivedIsComplete, SnapshotsTyped, Snapshots,
          EmptySnapshot, Intents
  <2> QED BY <2>1, <2>2, <2>3, <2>4, <2>5
<1>5. CASE NewCheckpoint
  <2>1. JoinLanded'
      BY <1>5 DEF NewCheckpoint, JoinLanded, Intents
  <2>2. Unopened'
      BY <1>5 DEF NewCheckpoint, Unopened, Forked, PlanOpened
  <2>3. Proposed'
      BY <1>5 DEF NewCheckpoint, Proposed, Unopened, PlanOpened, Forked,
          SnapshotsTyped, Snapshots, EmptySnapshot
  <2>4. Unanswered'
      BY <1>5 DEF NewCheckpoint, Unanswered, CaptureSteps
  <2>5. DerivedIsComplete'
      BY <1>5 DEF NewCheckpoint, DerivedIsComplete, SnapshotsTyped, Snapshots,
          EmptySnapshot, Intents
  <2> QED BY <2>1, <2>2, <2>3, <2>4, <2>5
<1>6. CASE Restart
  <2>1. JoinLanded'
      BY <1>6 DEF Restart, JoinLanded, Intents
  <2>2. Unopened'
      BY <1>6 DEF Restart, Unopened, Forked, PlanOpened
  <2>3. Proposed'
      BY <1>6 DEF Restart, Proposed, Unopened, PlanOpened, Forked, SnapshotsTyped,
          Snapshots, EmptySnapshot
  <2>4. Unanswered'
      BY <1>6 DEF Restart, Unanswered, CaptureSteps
  <2>5. DerivedIsComplete'
      BY <1>6 DEF Restart, DerivedIsComplete, SnapshotsTyped, Snapshots,
          EmptySnapshot, Intents
  <2> QED BY <2>1, <2>2, <2>3, <2>4, <2>5
<1>7. ASSUME NEW h \in Handles, Fork(h) \/ Open(h) \/ WriteDraft(h)
      PROVE  JoinLanded' /\ Unopened' /\ Proposed' /\ Unanswered' /\ DerivedIsComplete'
  <2>1. CASE Fork(h)
    <3>1. JoinLanded'
        BY <2>1 DEF Fork, LoadDraft, GateFree, JoinLanded, Intents
    <3>2. Unopened'
        BY <2>1 DEF Fork, LoadDraft, GateFree, Unopened, Forked, PlanOpened
    <3>3. Proposed'
        BY <2>1 DEF Fork, LoadDraft, GateFree, Proposed, Unopened, PlanOpened, Forked,
            SnapshotsTyped, Snapshots, EmptySnapshot
    <3>4. Unanswered'
        BY <2>1 DEF Fork, LoadDraft, GateFree, Unanswered, CaptureSteps
    <3>5. DerivedIsComplete'
        BY <2>1 DEF Fork, LoadDraft, GateFree, DerivedIsComplete, SnapshotsTyped,
            Snapshots, EmptySnapshot, Intents
    <3> QED BY <3>1, <3>2, <3>3, <3>4, <3>5
  <2>2. CASE Open(h)
    <3>1. JoinLanded'
        BY <2>2 DEF Open, LoadDraft, JoinLanded, Intents
    <3>2. Unopened'
        BY <2>2 DEF Open, LoadDraft, Unopened, Forked, PlanOpened
    <3>3. Proposed'
        BY <2>2 DEF Open, LoadDraft, Proposed, Unopened, PlanOpened, Forked,
            SnapshotsTyped, Snapshots, EmptySnapshot
    <3>4. Unanswered'
        BY <2>2 DEF Open, LoadDraft, Unanswered, CaptureSteps
    <3>5. DerivedIsComplete'
        BY <2>2 DEF Open, LoadDraft, DerivedIsComplete, SnapshotsTyped, Snapshots,
            EmptySnapshot, Intents
    <3> QED BY <3>1, <3>2, <3>3, <3>4, <3>5
  <2>3. CASE WriteDraft(h)
    <3>1. JoinLanded'
        BY <2>3 DEF WriteDraft, GateFree, JoinLanded, Intents
    <3>2. Unopened'
        BY <2>3 DEF WriteDraft, GateFree, Unopened, Forked, PlanOpened
    <3>3. Proposed'
        BY <2>3, SMTT(20) DEF WriteDraft, GateFree, Proposed, Unopened, PlanOpened, Forked,
            SnapshotsTyped, Snapshots, EmptySnapshot
    <3>4. Unanswered'
        BY <2>3 DEF WriteDraft, GateFree, Unanswered, CaptureSteps
    <3>5. DerivedIsComplete'
        BY <2>3 DEF WriteDraft, GateFree, DerivedIsComplete, SnapshotsTyped,
            Snapshots, EmptySnapshot, Intents
    <3> QED BY <3>1, <3>2, <3>3, <3>4, <3>5
  <2> QED BY <1>7, <2>1, <2>2, <2>3
<1>8. ASSUME NEW p \in Plans, NEW h \in Handles, Preview(p, h)
      PROVE  JoinLanded' /\ Unopened' /\ Proposed' /\ Unanswered' /\ DerivedIsComplete'
  <2>1. JoinLanded'
      BY <1>8 DEF Preview, JoinLanded, Intents
  <2>2. Unopened'
      BY <1>8 DEF Preview, Unopened, Forked, PlanOpened
  <2>3. Proposed'
      BY <1>8 DEF Preview, Proposed, Unopened, PlanOpened, Forked, SnapshotsTyped,
          Snapshots, EmptySnapshot
  <2>4. Unanswered'
      BY <1>8 DEF Preview, Unanswered, CaptureSteps
  <2>5. DerivedIsComplete'
      BY <1>8 DEF Preview, DerivedIsComplete, SnapshotsTyped, Snapshots,
          EmptySnapshot, Intents
  <2> QED BY <2>1, <2>2, <2>3, <2>4, <2>5
<1>9. ASSUME NEW p \in Plans, Settle(p) \/ TakeGate(p) \/ PlanStep(p)
      PROVE  JoinLanded' /\ Unopened' /\ Proposed' /\ Unanswered' /\ DerivedIsComplete'
  <2>1. CASE Settle(p)
    <3>1. JoinLanded'
        BY <2>1 DEF Settle, JoinLanded, Intents
    <3>2. Unopened'
        BY <2>1 DEF Settle, Unopened, Forked, PlanOpened
    <3>3. Proposed'
        BY <2>1 DEF Settle, Proposed, Unopened, PlanOpened, Forked, SnapshotsTyped,
            Snapshots, EmptySnapshot
    <3>4. Unanswered'
        BY <2>1 DEF Settle, Unanswered, CaptureSteps
    <3>5. DerivedIsComplete'
        BY <2>1 DEF Settle, DerivedIsComplete, SnapshotsTyped, Snapshots,
            EmptySnapshot, Intents
    <3> QED BY <3>1, <3>2, <3>3, <3>4, <3>5
  <2>2. CASE TakeGate(p)
    <3>1. JoinLanded'
        BY <2>2 DEF TakeGate, GateFree, JoinLanded, Intents
    <3>2. Unopened'
        BY <2>2 DEF TakeGate, GateFree, Unopened, Forked, PlanOpened
    <3>3. Proposed'
        BY <2>2 DEF TakeGate, GateFree, Proposed, Unopened, PlanOpened, Forked,
            SnapshotsTyped, Snapshots, EmptySnapshot
    <3>4. Unanswered'
        BY <2>2 DEF TakeGate, GateFree, Unanswered, CaptureSteps
    <3>5. DerivedIsComplete'
        BY <2>2 DEF TakeGate, GateFree, DerivedIsComplete, SnapshotsTyped, Snapshots,
            EmptySnapshot, Intents
    <3> QED BY <3>1, <3>2, <3>3, <3>4, <3>5
  <2>3. CASE CaptureSource(p)
    <3>1. JoinLanded'
        BY <2>3 DEF CaptureSource, Capture, JoinLanded, Intents
    <3>2. Unopened'
        BY <2>3 DEF CaptureSource, Capture, Unopened, Forked, PlanOpened
    <3>3. Proposed'
        BY <2>3 DEF CaptureSource, Capture, Proposed, Unopened, PlanOpened, Forked,
            SnapshotsTyped, Snapshots, EmptySnapshot
    <3>4. Unanswered'
        BY <2>3 DEF CaptureSource, Capture, Unanswered, CaptureSteps
    <3>5. DerivedIsComplete'
        BY <2>3 DEF CaptureSource, Capture, DerivedIsComplete, SnapshotsTyped,
            Snapshots, EmptySnapshot, Intents
    <3> QED BY <3>1, <3>2, <3>3, <3>4, <3>5
  <2>4. CASE CaptureBasis(p)
    <3>1. JoinLanded'
        BY <2>4 DEF CaptureBasis, Capture, JoinLanded, Intents
    <3>2. Unopened'
        BY <2>4 DEF CaptureBasis, Capture, Unopened, Forked, PlanOpened
    <3>3. Proposed'
        BY <2>4 DEF CaptureBasis, Capture, Proposed, Unopened, PlanOpened, Forked,
            SnapshotsTyped, Snapshots, EmptySnapshot
    <3>4. Unanswered'
        BY <2>4 DEF CaptureBasis, Capture, Unanswered, CaptureSteps
    <3>5. DerivedIsComplete'
        BY <2>4 DEF CaptureBasis, Capture, DerivedIsComplete, SnapshotsTyped,
            Snapshots, EmptySnapshot, Intents
    <3> QED BY <3>1, <3>2, <3>3, <3>4, <3>5
  <2>5. CASE CaptureFrontier(p)
    <3>1. JoinLanded'
        BY <2>5 DEF CaptureFrontier, Capture, JoinLanded, Intents
    <3>2. Unopened'
        BY <2>5 DEF CaptureFrontier, Capture, Unopened, Forked, PlanOpened
    <3>3. Proposed'
        BY <2>5 DEF CaptureFrontier, Capture, Proposed, Unopened, PlanOpened, Forked,
            SnapshotsTyped, Snapshots, EmptySnapshot
    <3>4. Unanswered'
        BY <2>5 DEF CaptureFrontier, Capture, Unanswered, CaptureSteps
    <3>5. DerivedIsComplete'
        BY <2>5 DEF CaptureFrontier, Capture, DerivedIsComplete, SnapshotsTyped,
            Snapshots, EmptySnapshot, Intents
    <3> QED BY <3>1, <3>2, <3>3, <3>4, <3>5
  <2>6. CASE CaptureStatus(p)
    <3>1. JoinLanded'
        BY <2>6 DEF CaptureStatus, Capture, JoinLanded, Intents
    <3>2. Unopened'
        BY <2>6 DEF CaptureStatus, Capture, Unopened, Forked, PlanOpened
    <3>3. Proposed'
        BY <2>6 DEF CaptureStatus, Capture, Proposed, Unopened, PlanOpened, Forked,
            SnapshotsTyped, Snapshots, EmptySnapshot
    <3>4. Unanswered'
        BY <2>6 DEF CaptureStatus, Capture, Unanswered, CaptureSteps
    <3>5. DerivedIsComplete'
        BY <2>6 DEF CaptureStatus, Capture, DerivedIsComplete, SnapshotsTyped,
            Snapshots, EmptySnapshot, Intents
    <3> QED BY <3>1, <3>2, <3>3, <3>4, <3>5
  <2>7. CASE PreviewAnswers(p)
    <3>1. JoinLanded'
        BY <2>7 DEF PreviewAnswers, JoinLanded, Intents
    <3>2. Unopened'
        BY <2>7 DEF PreviewAnswers, Unopened, Forked, PlanOpened
    <3>3. Proposed'
        BY <2>7 DEF PreviewAnswers, Proposed, Unopened, PlanOpened, Forked,
            SnapshotsTyped, Snapshots, EmptySnapshot
    <3>4. Unanswered'
        BY <2>7 DEF PreviewAnswers, Unanswered, CaptureSteps
    <3>5. DerivedIsComplete'
        BY <2>7 DEF PreviewAnswers, Unanswered, CaptureSteps, DerivedIsComplete,
            SnapshotsTyped, Snapshots, EmptySnapshot, Intents
    <3> QED BY <3>1, <3>2, <3>3, <3>4, <3>5
  <2>8. CASE PreviewThrows(p)
    <3>1. JoinLanded'
        BY <2>8 DEF PreviewThrows, JoinLanded, Intents
    <3>2. Unopened'
        BY <2>8 DEF PreviewThrows, Unopened, Forked, PlanOpened
    <3>3. Proposed'
        BY <2>8 DEF PreviewThrows, Proposed, Unopened, PlanOpened, Forked,
            SnapshotsTyped, Snapshots, EmptySnapshot
    <3>4. Unanswered'
        BY <2>8 DEF PreviewThrows, Unanswered, CaptureSteps
    <3>5. DerivedIsComplete'
        BY <2>8 DEF PreviewThrows, DerivedIsComplete, SnapshotsTyped, Snapshots,
            EmptySnapshot, Intents
    <3> QED BY <3>1, <3>2, <3>3, <3>4, <3>5
  <2>9. CASE SettleStale(p)
    <3>1. JoinLanded'
        BY <2>9 DEF SettleStale, LeaveGate, JoinLanded, Intents
    <3>2. Unopened'
        BY <2>9 DEF SettleStale, LeaveGate, Unopened, Forked, PlanOpened
    <3>3. Proposed'
        BY <2>9 DEF SettleStale, LeaveGate, Proposed, Unopened, PlanOpened, Forked,
            SnapshotsTyped, Snapshots, EmptySnapshot
    <3>4. Unanswered'
        BY <2>9 DEF SettleStale, LeaveGate, Unanswered, CaptureSteps
    <3>5. DerivedIsComplete'
        BY <2>9 DEF SettleStale, LeaveGate, DerivedIsComplete, SnapshotsTyped,
            Snapshots, EmptySnapshot, Intents
    <3> QED BY <3>1, <3>2, <3>3, <3>4, <3>5
  <2>10. CASE SettleObstructed(p)
    <3>1. JoinLanded'
        BY <2>10 DEF SettleObstructed, LeaveGate, JoinLanded, Intents
    <3>2. Unopened'
        BY <2>10 DEF SettleObstructed, LeaveGate, Unopened, Forked, PlanOpened
    <3>3. Proposed'
        BY <2>10 DEF SettleObstructed, LeaveGate, Proposed, Unopened, PlanOpened,
            Forked, SnapshotsTyped, Snapshots, EmptySnapshot
    <3>4. Unanswered'
        BY <2>10 DEF SettleObstructed, LeaveGate, Unanswered, CaptureSteps
    <3>5. DerivedIsComplete'
        BY <2>10 DEF SettleObstructed, LeaveGate, DerivedIsComplete, SnapshotsTyped,
            Snapshots, EmptySnapshot, Intents
    <3> QED BY <3>1, <3>2, <3>3, <3>4, <3>5
  <2>11. CASE Promote(p)
    <3>1. JoinLanded'
        BY <2>11 DEF Promote, LeaveGate, JoinLanded, Intents
    <3>2. Unopened'
        BY <2>11 DEF Promote, LeaveGate, Unopened, Forked, PlanOpened
    <3>3. Proposed'
        BY <2>11, SMTT(20) DEF Promote, LeaveGate, Proposed, Unopened, PlanOpened, Forked,
            SnapshotsTyped, Snapshots, EmptySnapshot
    <3>4. Unanswered'
        BY <2>11 DEF Promote, LeaveGate, Unanswered, CaptureSteps
    <3>5. DerivedIsComplete'
        BY <2>11 DEF Promote, LeaveGate, DerivedIsComplete, SnapshotsTyped, Snapshots,
            EmptySnapshot, Intents
    <3> QED BY <3>1, <3>2, <3>3, <3>4, <3>5
  <2>12. CASE SettleThrows(p)
    <3>1. JoinLanded'
        BY <2>12 DEF SettleThrows, LeaveGate, JoinLanded, Intents
    <3>2. Unopened'
        BY <2>12 DEF SettleThrows, LeaveGate, Unopened, Forked, PlanOpened
    <3>3. Proposed'
        BY <2>12 DEF SettleThrows, LeaveGate, Proposed, Unopened, PlanOpened, Forked,
            SnapshotsTyped, Snapshots, EmptySnapshot
    <3>4. Unanswered'
        BY <2>12 DEF SettleThrows, LeaveGate, Unanswered, CaptureSteps
    <3>5. DerivedIsComplete'
        BY <2>12 DEF SettleThrows, LeaveGate, DerivedIsComplete, SnapshotsTyped,
            Snapshots, EmptySnapshot, Intents
    <3> QED BY <3>1, <3>2, <3>3, <3>4, <3>5
  <2>13. CASE CommitIntent(p)
    <3>0. PICK j \in Uncommitted(handle[p]) :
              Lands(p, j) /\ joinShas' = [joinShas EXCEPT ![handle[p]] = @ \cup {j}]
        BY <2>13 DEF CommitIntent
    <3>11. j \in Intents  BY DEF Uncommitted
    <3>12. \A i \in Intents : landed'[i] \in Nat /\ landed[i] <= landed'[i]
        BY <3>0, <3>11 DEF Lands
    <3>13. \A q \in Plans :
             /\ plan'[q] = plan[q] /\ plan[q].proposal \subseteq Intents
             /\ receipt'[q] = "derived" => receipt[q] = "derived"
        BY <2>13 DEF CommitIntent, SnapshotsTyped, Snapshots
    <3>1. JoinLanded'
        BY <2>13, <3>0, <3>11 DEF CommitIntent, Lands, JoinLanded, Intents
    <3>2. Unopened'
        BY <2>13, <3>0, <3>11 DEF CommitIntent, Lands, Unopened, Forked, PlanOpened
    <3>3. Proposed'
        BY <2>13, <3>0, <3>11 DEF CommitIntent, Lands, Proposed, Unopened, PlanOpened,
            Forked, SnapshotsTyped, Snapshots, EmptySnapshot
    <3>4. Unanswered'
        BY <2>13, <3>0, <3>11 DEF CommitIntent, Lands, Unanswered, CaptureSteps
    <3>5. DerivedIsComplete'
      <4> SUFFICES ASSUME NEW q \in Plans, receipt'[q] = "derived", NEW i \in plan'[q].proposal
                   PROVE  landed'[i] >= 1
          BY DEF DerivedIsComplete
      <4>0. plan'[q] = plan[q]  BY <3>13
      <4>1. i \in plan[q].proposal  BY <4>0
      <4>3. receipt[q] = "derived" /\ i \in Intents  BY <4>1, <3>13
      <4>2. landed[i] >= 1  BY <4>1, <4>3 DEF DerivedIsComplete
      <4> QED BY <4>2, <4>3, <3>12
    <3> QED BY <3>1, <3>2, <3>3, <3>4, <3>5
  <2>14. CASE CommitFails(p)
    <3>13. \A q \in Plans :
             /\ plan'[q] = plan[q] /\ plan[q].proposal \subseteq Intents
             /\ receipt'[q] = "derived" => receipt[q] = "derived"
        BY <2>14 DEF CommitFails, LeaveGate, SnapshotsTyped, Snapshots
    <3>0. \A i \in Intents : landed'[i] \in Nat /\ landed[i] <= landed'[i]
        BY <2>14 DEF CommitFails, Lands, Uncommitted
    <3>1. JoinLanded'
        BY <2>14, <3>0 DEF CommitFails, Lands, LeaveGate, JoinLanded, Intents
    <3>2. Unopened'
        BY <2>14 DEF CommitFails, Lands, LeaveGate, Unopened, Forked, PlanOpened
    <3>3. Proposed'
        BY <2>14 DEF CommitFails, Lands, LeaveGate, Proposed, Unopened, PlanOpened,
            Forked, SnapshotsTyped, Snapshots, EmptySnapshot
    <3>4. Unanswered'
        BY <2>14 DEF CommitFails, Lands, LeaveGate, Unanswered, CaptureSteps
    <3>5. DerivedIsComplete'
      <4> SUFFICES ASSUME NEW q \in Plans, receipt'[q] = "derived", NEW i \in plan'[q].proposal
                   PROVE  landed'[i] >= 1
          BY DEF DerivedIsComplete
      <4>0. plan'[q] = plan[q]  BY <3>13
      <4>1. i \in plan[q].proposal  BY <4>0
      <4>3. receipt[q] = "derived" /\ i \in Intents  BY <4>1, <3>13
      <4>2. landed[i] >= 1  BY <4>1, <4>3 DEF DerivedIsComplete
      <4> QED BY <4>2, <4>3, <3>0
    <3> QED BY <3>1, <3>2, <3>3, <3>4, <3>5
  <2>15. CASE JoinCompletes(p)
    <3>0. \A i \in plan[p].proposal : landed[i] >= 1
        BY <2>15 DEF JoinCompletes, Uncommitted, Proposed, JoinLanded
    <3>1. JoinLanded'
        BY <2>15 DEF JoinCompletes, LeaveGate, JoinLanded, Intents
    <3>2. Unopened'
        BY <2>15 DEF JoinCompletes, LeaveGate, Unopened, Forked, PlanOpened
    <3>3. Proposed'
        BY <2>15 DEF JoinCompletes, LeaveGate, Proposed, Unopened, PlanOpened, Forked,
            SnapshotsTyped, Snapshots, EmptySnapshot
    <3>4. Unanswered'
        BY <2>15 DEF JoinCompletes, LeaveGate, Unanswered, CaptureSteps
    <3>5. DerivedIsComplete'
        BY <2>15, <3>0 DEF JoinCompletes, LeaveGate, DerivedIsComplete,
            SnapshotsTyped, Snapshots, EmptySnapshot, Intents
    <3> QED BY <3>1, <3>2, <3>3, <3>4, <3>5
  <2> QED BY <1>9, <2>1, <2>2, <2>3, <2>4, <2>5, <2>6, <2>7, <2>8, <2>9, <2>10, <2>11, <2>12,
      <2>13, <2>14, <2>15 DEF PlanStep, CaptureStep
<1> QED BY <1>1, <1>2, <1>3, <1>4, <1>5, <1>6, <1>7, <1>8, <1>9 DEF Next

(* A derived settlement receipt means that every intent of the plan's        *)
(* proposal is in the worldline.                                             *)
THEOREM DerivedReceiptComplete == Spec => []DerivedIsComplete
<1>1. Init => OnceInv /\ CompleteInv
  <2>1. Init => OnceInv  BY OnceInit
  <2> QED BY <2>1, SettlementAssumption DEF Init, OnceInv, CompleteInv, JoinLanded, Unopened,
      Proposed,
        Unanswered, DerivedIsComplete, EmptySnapshot
<1>2. CompleteInv => DerivedIsComplete  BY DEF CompleteInv
<1>3. OnceInv /\ [Next]_vars => OnceInv'  BY OnceStep
<1> QED BY <1>1, <1>2, <1>3, CompleteStep, PTL DEF Spec
-----------------------------------------------------------------------------
(* What a plan that was carried out proposed. *)

(* A handle knows patches of the overlay only, and a captured source is one. *)
Known ==
    /\ \A h \in Handles : intents[h] \subseteq 1 .. overlay
    /\ \A p \in Plans : seen[p].source <= overlay /\ plan[p].source <= overlay

(* While a settlement holds the gate nobody writes through a handle, so what it
   read of the source and what it reads of the draft are of one moment. *)
OneMoment ==
    \A p \in gate :
        /\ step[p] \in {"basis", "frontier"} => intents[handle[p]] \subseteq 1 .. seen[p].source
        /\ step[p] \in {"status", "captured"} =>
             seen[p].proposal = intents[handle[p]] \cap (1 .. seen[p].source)

(* A plan that nobody asked anything of has no receipt. *)
Answered == \A p \in Plans : step[p] = "none" => receipt[p] = "none"

(* The promotion is of the plan that was confirmed at that moment. *)
Confirmed ==
    \A p \in Plans : step[p] = "promoting" =>
        plan[p].proposal = intents[handle[p]] \cap (1 .. plan[p].source)

SourceInv == Known /\ Answered /\ OneMoment /\ Confirmed /\ SourceSettled

(* Every step keeps what plans propose in step with what handles know. *)
LEMMA SourceStep == OnceInv /\ CompleteInv /\ SourceInv /\ [Next]_vars => SourceInv'
<1> SUFFICES ASSUME OnceInv, CompleteInv, SourceInv, [Next]_vars
             PROVE  Known' /\ OneMoment' /\ Answered' /\ Confirmed' /\ SourceSettled'
    BY DEF SourceInv
<1> USE SettlementAssumption
<1> USE DEF OnceInv, CompleteInv, SourceInv, TypeOK, RepositoryTyped, DraftsTyped, CallsTyped,
repository, drafts, calls, Intents
<1>1. CASE UNCHANGED vars
    BY <1>1 DEF vars, Known, OneMoment, Answered, Confirmed, SourceSettled, Unopened,
       SnapshotsTyped, Snapshots, EmptySnapshot, PlanOpened, GateHeld, Unanswered,
       CaptureSteps, Forked
<1>2. CASE WriteTarget
  <2>1. Known'
      BY <1>2 DEF WriteTarget, GateFree, Known, Unopened, SnapshotsTyped, Snapshots,
         EmptySnapshot
  <2>2. OneMoment'
      BY <1>2 DEF WriteTarget, GateFree, OneMoment, Known, PlanOpened, GateHeld,
         SnapshotsTyped, Snapshots, EmptySnapshot
  <2>3. Answered'
      BY <1>2 DEF WriteTarget, GateFree, Answered, Unanswered, CaptureSteps
  <2>4. Confirmed'
      BY <1>2 DEF WriteTarget, GateFree, Confirmed, OneMoment, Known, PlanOpened, GateHeld,
         SnapshotsTyped, Snapshots, EmptySnapshot
  <2>5. SourceSettled'
      BY <1>2 DEF WriteTarget, GateFree, SourceSettled, Confirmed, Answered, Forked, Known,
         PlanOpened, Unopened, Unanswered, CaptureSteps, SnapshotsTyped, Snapshots,
         EmptySnapshot
  <2> QED BY <2>1, <2>2, <2>3, <2>4, <2>5
<1>3. CASE OtherCommits
  <2>1. Known'
      BY <1>3 DEF OtherCommits, Known, Unopened, SnapshotsTyped, Snapshots, EmptySnapshot
  <2>2. OneMoment'
      BY <1>3 DEF OtherCommits, OneMoment, Known, PlanOpened, GateHeld, SnapshotsTyped,
         Snapshots, EmptySnapshot
  <2>3. Answered'
      BY <1>3 DEF OtherCommits, Answered, Unanswered, CaptureSteps
  <2>4. Confirmed'
      BY <1>3 DEF OtherCommits, Confirmed, OneMoment, Known, PlanOpened, GateHeld,
         SnapshotsTyped, Snapshots, EmptySnapshot
  <2>5. SourceSettled'
      BY <1>3 DEF OtherCommits, SourceSettled, Confirmed, Answered, Forked, Known, PlanOpened,
         Unopened, Unanswered, CaptureSteps, SnapshotsTyped, Snapshots, EmptySnapshot
  <2> QED BY <2>1, <2>2, <2>3, <2>4, <2>5
<1>4. CASE OtherWritesDraft
  <2>1. Known'
      BY <1>4 DEF OtherWritesDraft, Known, Unopened, SnapshotsTyped, Snapshots, EmptySnapshot
  <2>2. OneMoment'
      BY <1>4 DEF OtherWritesDraft, OneMoment, Known, PlanOpened, GateHeld, SnapshotsTyped,
         Snapshots, EmptySnapshot
  <2>3. Answered'
      BY <1>4 DEF OtherWritesDraft, Answered, Unanswered, CaptureSteps
  <2>4. Confirmed'
      BY <1>4 DEF OtherWritesDraft, Confirmed, OneMoment, Known, PlanOpened, GateHeld,
         SnapshotsTyped, Snapshots, EmptySnapshot
  <2>5. SourceSettled'
      BY <1>4 DEF OtherWritesDraft, SourceSettled, Confirmed, Answered, Forked, Known,
         PlanOpened, Unopened, Unanswered, CaptureSteps, SnapshotsTyped, Snapshots,
         EmptySnapshot
  <2> QED BY <2>1, <2>2, <2>3, <2>4, <2>5
<1>5. CASE NewCheckpoint
  <2>1. Known'
      BY <1>5 DEF NewCheckpoint, Known, Unopened, SnapshotsTyped, Snapshots, EmptySnapshot
  <2>2. OneMoment'
      BY <1>5 DEF NewCheckpoint, OneMoment, Known, PlanOpened, GateHeld, SnapshotsTyped,
         Snapshots, EmptySnapshot
  <2>3. Answered'
      BY <1>5 DEF NewCheckpoint, Answered, Unanswered, CaptureSteps
  <2>4. Confirmed'
      BY <1>5 DEF NewCheckpoint, Confirmed, OneMoment, Known, PlanOpened, GateHeld,
         SnapshotsTyped, Snapshots, EmptySnapshot
  <2>5. SourceSettled'
      BY <1>5 DEF NewCheckpoint, SourceSettled, Confirmed, Answered, Forked, Known, PlanOpened,
         Unopened, Unanswered, CaptureSteps, SnapshotsTyped, Snapshots, EmptySnapshot
  <2> QED BY <2>1, <2>2, <2>3, <2>4, <2>5
<1>6. CASE Restart
  <2>1. Known'
      BY <1>6 DEF Restart, Known, Unopened, SnapshotsTyped, Snapshots, EmptySnapshot
  <2>2. OneMoment'
      BY <1>6 DEF Restart, OneMoment, Known, PlanOpened, GateHeld, SnapshotsTyped, Snapshots,
         EmptySnapshot
  <2>3. Answered'
      BY <1>6 DEF Restart, Answered, Unanswered, CaptureSteps
  <2>4. Confirmed'
      BY <1>6 DEF Restart, Confirmed, OneMoment, Known, PlanOpened, GateHeld, SnapshotsTyped,
         Snapshots, EmptySnapshot
  <2>5. SourceSettled'
      BY <1>6 DEF Restart, SourceSettled, Confirmed, Answered, Forked, Known, PlanOpened,
         Unopened, Unanswered, CaptureSteps, SnapshotsTyped, Snapshots, EmptySnapshot
  <2> QED BY <2>1, <2>2, <2>3, <2>4, <2>5
<1>7. ASSUME NEW h \in Handles, Fork(h) \/ Open(h) \/ WriteDraft(h)
      PROVE  Known' /\ OneMoment' /\ Answered' /\ Confirmed' /\ SourceSettled'
  <2>1. CASE Fork(h)
    <3>1. Known'
        BY <2>1 DEF Fork, LoadDraft, GateFree, Known, Unopened, SnapshotsTyped, Snapshots,
           EmptySnapshot
    <3>2. OneMoment'
        BY <2>1 DEF Fork, LoadDraft, GateFree, OneMoment, Known, PlanOpened, GateHeld,
           SnapshotsTyped, Snapshots, EmptySnapshot
    <3>3. Answered'
        BY <2>1 DEF Fork, LoadDraft, GateFree, Answered, Unanswered, CaptureSteps
    <3>4. Confirmed'
        BY <2>1 DEF Fork, LoadDraft, GateFree, Confirmed, OneMoment, Known, PlanOpened,
           GateHeld, SnapshotsTyped, Snapshots, EmptySnapshot
    <3>5. SourceSettled'
      <4>1. \A q \in Plans : receipt[q] = "none"  BY <2>1 DEF Fork, Forked, Answered
      <4> QED BY <2>1, <4>1 DEF Fork, SourceSettled
    <3> QED BY <3>1, <3>2, <3>3, <3>4, <3>5
  <2>2. CASE Open(h)
    <3>1. Known'
        BY <2>2 DEF Open, LoadDraft, Known, Unopened, SnapshotsTyped, Snapshots, EmptySnapshot
    <3>2. OneMoment'
        BY <2>2 DEF Open, LoadDraft, OneMoment, Known, PlanOpened, GateHeld, SnapshotsTyped,
           Snapshots, EmptySnapshot
    <3>3. Answered'
        BY <2>2 DEF Open, LoadDraft, Answered, Unanswered, CaptureSteps
    <3>4. Confirmed'
        BY <2>2 DEF Open, LoadDraft, Confirmed, OneMoment, Known, PlanOpened, GateHeld,
           SnapshotsTyped, Snapshots, EmptySnapshot
    <3>5. SourceSettled'
      <4> SUFFICES ASSUME NEW q \in Plans, receipt[q] = "derived"
                   PROVE  plan[q].proposal = intents'[handle[q]] \cap (1 .. plan[q].source)
          BY <2>2 DEF Open, SourceSettled
      <4>1. handle[q] # h  BY <2>2 DEF Open, Answered, PlanOpened
      <4>2. intents'[handle[q]] = intents[handle[q]]  BY <2>2, <4>1 DEF Open, LoadDraft
      <4> QED BY <4>2 DEF SourceSettled
    <3> QED BY <3>1, <3>2, <3>3, <3>4, <3>5
  <2>3. CASE WriteDraft(h)
    <3>1. Known'
      <4>1. \A q \in Plans : seen[q].source \in Nat /\ plan[q].source \in Nat
          BY DEF SnapshotsTyped, Snapshots
      <4>2. overlay' = overlay + 1 /\ UNCHANGED <<seen, plan>>  BY <2>3 DEF WriteDraft
      <4>3. \A q \in Plans : seen'[q].source <= overlay' /\ plan'[q].source <= overlay'
          BY <4>1, <4>2 DEF Known
      <4>4. 1 .. overlay \subseteq 1 .. overlay + 1 /\ overlay + 1 \in 1 .. overlay + 1  OBVIOUS
      <4>5. \A g \in Handles : intents'[g] \subseteq intents[g] \cup {overlay + 1}
          BY <2>3 DEF WriteDraft
      <4> QED BY <4>2, <4>3, <4>4, <4>5 DEF Known
    <3>2. OneMoment'
        BY <2>3 DEF WriteDraft, GateFree, OneMoment, Known, PlanOpened, GateHeld,
           SnapshotsTyped, Snapshots, EmptySnapshot
    <3>3. Answered'
        BY <2>3 DEF WriteDraft, GateFree, Answered, Unanswered, CaptureSteps
    <3>4. Confirmed'
        BY <2>3 DEF WriteDraft, GateFree, Confirmed, OneMoment, Known, PlanOpened, GateHeld,
           SnapshotsTyped, Snapshots, EmptySnapshot
    <3>5. SourceSettled'
      <4> SUFFICES ASSUME NEW q \in Plans, receipt[q] = "derived"
                   PROVE  plan[q].proposal = intents'[handle[q]] \cap (1 .. plan[q].source)
          BY <2>3 DEF WriteDraft, SourceSettled
      <4>1. plan[q].source \in Nat /\ plan[q].source <= overlay
          BY DEF Known, SnapshotsTyped, Snapshots
      <4>2. overlay + 1 \notin 1 .. plan[q].source  BY <4>1
      <4>3. \/ intents'[handle[q]] = intents[handle[q]]
            \/ intents'[handle[q]] = intents[handle[q]] \cup {overlay + 1}
          BY <2>3 DEF WriteDraft
      <4> QED BY <4>2, <4>3 DEF SourceSettled
    <3> QED BY <3>1, <3>2, <3>3, <3>4, <3>5
  <2> QED BY <1>7, <2>1, <2>2, <2>3
<1>8. ASSUME NEW p \in Plans, NEW h \in Handles, Preview(p, h)
      PROVE  Known' /\ OneMoment' /\ Answered' /\ Confirmed' /\ SourceSettled'
  <2>1. Known'
      BY <1>8 DEF Preview, Known, Unopened, SnapshotsTyped, Snapshots, EmptySnapshot
  <2>2. OneMoment'
      BY <1>8 DEF Preview, OneMoment, Known, PlanOpened, GateHeld, SnapshotsTyped, Snapshots,
         EmptySnapshot
  <2>3. Answered'
      BY <1>8 DEF Preview, Answered, Unanswered, CaptureSteps
  <2>4. Confirmed'
      BY <1>8 DEF Preview, Confirmed, OneMoment, Known, PlanOpened, GateHeld, SnapshotsTyped,
         Snapshots, EmptySnapshot
  <2>5. SourceSettled'
      BY <1>8 DEF Preview, SourceSettled, Confirmed, Answered, Forked, Known, PlanOpened,
         Unopened, Unanswered, CaptureSteps, SnapshotsTyped, Snapshots, EmptySnapshot
  <2> QED BY <2>1, <2>2, <2>3, <2>4, <2>5
<1>9. ASSUME NEW p \in Plans, Settle(p) \/ TakeGate(p) \/ PlanStep(p)
      PROVE  Known' /\ OneMoment' /\ Answered' /\ Confirmed' /\ SourceSettled'
  <2>1. CASE Settle(p)
    <3>1. Known'
        BY <2>1 DEF Settle, Known, Unopened, SnapshotsTyped, Snapshots, EmptySnapshot
    <3>2. OneMoment'
        BY <2>1 DEF Settle, OneMoment, Known, PlanOpened, GateHeld, SnapshotsTyped, Snapshots,
           EmptySnapshot
    <3>3. Answered'
        BY <2>1 DEF Settle, Answered, Unanswered, CaptureSteps
    <3>4. Confirmed'
        BY <2>1 DEF Settle, Confirmed, OneMoment, Known, PlanOpened, GateHeld, SnapshotsTyped,
           Snapshots, EmptySnapshot
    <3>5. SourceSettled'
        BY <2>1 DEF Settle, SourceSettled, Confirmed, Answered, Forked, Known, PlanOpened,
           Unopened, Unanswered, CaptureSteps, SnapshotsTyped, Snapshots, EmptySnapshot
    <3> QED BY <3>1, <3>2, <3>3, <3>4, <3>5
  <2>2. CASE TakeGate(p)
    <3>1. Known'
        BY <2>2 DEF TakeGate, GateFree, Known, Unopened, SnapshotsTyped, Snapshots,
           EmptySnapshot
    <3>2. OneMoment'
        BY <2>2 DEF TakeGate, GateFree, OneMoment, Known, PlanOpened, GateHeld, SnapshotsTyped,
           Snapshots, EmptySnapshot
    <3>3. Answered'
        BY <2>2 DEF TakeGate, GateFree, Answered, Unanswered, CaptureSteps
    <3>4. Confirmed'
        BY <2>2 DEF TakeGate, GateFree, Confirmed, OneMoment, Known, PlanOpened, GateHeld,
           SnapshotsTyped, Snapshots, EmptySnapshot
    <3>5. SourceSettled'
        BY <2>2 DEF TakeGate, GateFree, SourceSettled, Confirmed, Answered, Forked, Known,
           PlanOpened, Unopened, Unanswered, CaptureSteps, SnapshotsTyped, Snapshots,
           EmptySnapshot
    <3> QED BY <3>1, <3>2, <3>3, <3>4, <3>5
  <2>3. CASE CaptureSource(p)
    <3>1. Known'
        BY <2>3 DEF CaptureSource, Capture, Known, Unopened, SnapshotsTyped, Snapshots,
           EmptySnapshot
    <3>2. OneMoment'
      <4>1. gate' = gate /\ intents' = intents /\ handle' = handle /\ step[p] = "source"
          BY <2>3 DEF CaptureSource, Capture
      <4>2. \A q \in Plans \ {p} : step'[q] = step[q] /\ seen'[q] = seen[q]
          BY <2>3 DEF CaptureSource, Capture, SnapshotsTyped
      <4>3. step'[p] = "basis" /\ seen'[p].source = overlay
          BY <2>3 DEF CaptureSource, Capture, SnapshotsTyped, Snapshots
      <4> SUFFICES ASSUME NEW q \in gate
                   PROVE  /\ step'[q] \in {"basis", "frontier"} => intents[handle[q]] \subseteq 1 .. seen'[q].source
                          /\ step'[q] \in {"status", "captured"} =>
                               seen'[q].proposal = intents[handle[q]] \cap (1 .. seen'[q].source)
          BY <4>1 DEF OneMoment
      <4>4. CASE q = p  BY <4>1, <4>3, <4>4 DEF OneMoment, Known
      <4>5. CASE q # p  BY <4>2, <4>5 DEF OneMoment
      <4> QED BY <4>4, <4>5
    <3>3. Answered'
        BY <2>3 DEF CaptureSource, Capture, Answered, Unanswered, CaptureSteps
    <3>4. Confirmed'
        BY <2>3 DEF CaptureSource, Capture, Confirmed, OneMoment, Known, PlanOpened, GateHeld,
           SnapshotsTyped, Snapshots, EmptySnapshot
    <3>5. SourceSettled'
        BY <2>3 DEF CaptureSource, Capture, SourceSettled, Confirmed, Answered, Forked, Known,
           PlanOpened, Unopened, Unanswered, CaptureSteps, SnapshotsTyped, Snapshots,
           EmptySnapshot
    <3> QED BY <3>1, <3>2, <3>3, <3>4, <3>5
  <2>4. CASE CaptureBasis(p)
    <3>1. Known'
        BY <2>4 DEF CaptureBasis, Capture, Known, Unopened, SnapshotsTyped, Snapshots,
           EmptySnapshot
    <3>2. OneMoment'
      <4>1. gate' = gate /\ intents' = intents /\ handle' = handle /\ step[p] = "basis"
          BY <2>4 DEF CaptureBasis, Capture
      <4>2. \A q \in Plans \ {p} : step'[q] = step[q] /\ seen'[q] = seen[q]
          BY <2>4 DEF CaptureBasis, Capture, SnapshotsTyped
      <4>3. step'[p] = "frontier" /\ seen'[p].source = seen[p].source
          BY <2>4 DEF CaptureBasis, Capture, SnapshotsTyped, Snapshots
      <4> SUFFICES ASSUME NEW q \in gate
                   PROVE  /\ step'[q] \in {"basis", "frontier"} => intents[handle[q]] \subseteq 1 .. seen'[q].source
                          /\ step'[q] \in {"status", "captured"} =>
                               seen'[q].proposal = intents[handle[q]] \cap (1 .. seen'[q].source)
          BY <4>1 DEF OneMoment
      <4>4. CASE q = p  BY <4>1, <4>3, <4>4 DEF OneMoment, Known
      <4>5. CASE q # p  BY <4>2, <4>5 DEF OneMoment
      <4> QED BY <4>4, <4>5
    <3>3. Answered'
        BY <2>4 DEF CaptureBasis, Capture, Answered, Unanswered, CaptureSteps
    <3>4. Confirmed'
        BY <2>4 DEF CaptureBasis, Capture, Confirmed, OneMoment, Known, PlanOpened, GateHeld,
           SnapshotsTyped, Snapshots, EmptySnapshot
    <3>5. SourceSettled'
        BY <2>4 DEF CaptureBasis, Capture, SourceSettled, Confirmed, Answered, Forked, Known,
           PlanOpened, Unopened, Unanswered, CaptureSteps, SnapshotsTyped, Snapshots,
           EmptySnapshot
    <3> QED BY <3>1, <3>2, <3>3, <3>4, <3>5
  <2>5. CASE CaptureFrontier(p)
    <3>1. Known'
        BY <2>5 DEF CaptureFrontier, Capture, Known, Unopened, SnapshotsTyped, Snapshots,
           EmptySnapshot
    <3>2. OneMoment'
      <4>1. gate' = gate /\ intents' = intents /\ handle' = handle /\ step[p] = "frontier"
          BY <2>5 DEF CaptureFrontier, Capture
      <4>2. \A q \in Plans \ {p} : step'[q] = step[q] /\ seen'[q] = seen[q]
          BY <2>5 DEF CaptureFrontier, Capture, SnapshotsTyped
      <4>3. /\ step'[p] = "status" /\ seen'[p].source = seen[p].source
            /\ seen'[p].proposal = intents[handle[p]]
          BY <2>5 DEF CaptureFrontier, Capture, SnapshotsTyped, Snapshots
      <4> SUFFICES ASSUME NEW q \in gate
                   PROVE  /\ step'[q] \in {"basis", "frontier"} => intents[handle[q]] \subseteq 1 .. seen'[q].source
                          /\ step'[q] \in {"status", "captured"} =>
                               seen'[q].proposal = intents[handle[q]] \cap (1 .. seen'[q].source)
          BY <4>1 DEF OneMoment
      <4>4. CASE q = p  BY <4>1, <4>3, <4>4 DEF OneMoment, Known
      <4>5. CASE q # p  BY <4>2, <4>5 DEF OneMoment
      <4> QED BY <4>4, <4>5
    <3>3. Answered'
        BY <2>5 DEF CaptureFrontier, Capture, Answered, Unanswered, CaptureSteps
    <3>4. Confirmed'
        BY <2>5 DEF CaptureFrontier, Capture, Confirmed, OneMoment, Known, PlanOpened,
           GateHeld, SnapshotsTyped, Snapshots, EmptySnapshot
    <3>5. SourceSettled'
        BY <2>5 DEF CaptureFrontier, Capture, SourceSettled, Confirmed, Answered, Forked,
           Known, PlanOpened, Unopened, Unanswered, CaptureSteps, SnapshotsTyped, Snapshots,
           EmptySnapshot
    <3> QED BY <3>1, <3>2, <3>3, <3>4, <3>5
  <2>6. CASE CaptureStatus(p)
    <3>1. Known'
        BY <2>6 DEF CaptureStatus, Capture, Known, Unopened, SnapshotsTyped, Snapshots,
           EmptySnapshot
    <3>2. OneMoment'
      <4>1. gate' = gate /\ intents' = intents /\ handle' = handle /\ step[p] = "status"
          BY <2>6 DEF CaptureStatus, Capture
      <4>2. \A q \in Plans \ {p} : step'[q] = step[q] /\ seen'[q] = seen[q]
          BY <2>6 DEF CaptureStatus, Capture, SnapshotsTyped
      <4>3. /\ step'[p] = "captured" /\ seen'[p].source = seen[p].source
            /\ seen'[p].proposal = seen[p].proposal
          BY <2>6 DEF CaptureStatus, Capture, SnapshotsTyped, Snapshots
      <4> SUFFICES ASSUME NEW q \in gate
                   PROVE  /\ step'[q] \in {"basis", "frontier"} => intents[handle[q]] \subseteq 1 .. seen'[q].source
                          /\ step'[q] \in {"status", "captured"} =>
                               seen'[q].proposal = intents[handle[q]] \cap (1 .. seen'[q].source)
          BY <4>1 DEF OneMoment
      <4>4. CASE q = p  BY <4>1, <4>3, <4>4 DEF OneMoment, Known
      <4>5. CASE q # p  BY <4>2, <4>5 DEF OneMoment
      <4> QED BY <4>4, <4>5
    <3>3. Answered'
        BY <2>6 DEF CaptureStatus, Capture, Answered, Unanswered, CaptureSteps
    <3>4. Confirmed'
        BY <2>6 DEF CaptureStatus, Capture, Confirmed, OneMoment, Known, PlanOpened, GateHeld,
           SnapshotsTyped, Snapshots, EmptySnapshot
    <3>5. SourceSettled'
        BY <2>6 DEF CaptureStatus, Capture, SourceSettled, Confirmed, Answered, Forked, Known,
           PlanOpened, Unopened, Unanswered, CaptureSteps, SnapshotsTyped, Snapshots,
           EmptySnapshot
    <3> QED BY <3>1, <3>2, <3>3, <3>4, <3>5
  <2>7. CASE PreviewAnswers(p)
    <3>1. Known'
        BY <2>7 DEF PreviewAnswers, Known, Unopened, SnapshotsTyped, Snapshots, EmptySnapshot
    <3>2. OneMoment'
        BY <2>7 DEF PreviewAnswers, OneMoment, Known, PlanOpened, GateHeld, SnapshotsTyped,
           Snapshots, EmptySnapshot
    <3>3. Answered'
        BY <2>7 DEF PreviewAnswers, Answered, Unanswered, CaptureSteps
    <3>4. Confirmed'
        BY <2>7 DEF PreviewAnswers, Confirmed, OneMoment, Known, PlanOpened, GateHeld,
           SnapshotsTyped, Snapshots, EmptySnapshot
    <3>5. SourceSettled'
        BY <2>7 DEF PreviewAnswers, SourceSettled, Confirmed, Answered, Forked, Known,
           PlanOpened, Unopened, Unanswered, CaptureSteps, SnapshotsTyped, Snapshots,
           EmptySnapshot
    <3> QED BY <3>1, <3>2, <3>3, <3>4, <3>5
  <2>8. CASE PreviewThrows(p)
    <3>1. Known'
        BY <2>8 DEF PreviewThrows, Known, Unopened, SnapshotsTyped, Snapshots, EmptySnapshot
    <3>2. OneMoment'
        BY <2>8 DEF PreviewThrows, OneMoment, Known, PlanOpened, GateHeld, SnapshotsTyped,
           Snapshots, EmptySnapshot
    <3>3. Answered'
        BY <2>8 DEF PreviewThrows, Answered, Unanswered, CaptureSteps
    <3>4. Confirmed'
        BY <2>8 DEF PreviewThrows, Confirmed, OneMoment, Known, PlanOpened, GateHeld,
           SnapshotsTyped, Snapshots, EmptySnapshot
    <3>5. SourceSettled'
        BY <2>8 DEF PreviewThrows, SourceSettled, Confirmed, Answered, Forked, Known,
           PlanOpened, Unopened, Unanswered, CaptureSteps, SnapshotsTyped, Snapshots,
           EmptySnapshot
    <3> QED BY <3>1, <3>2, <3>3, <3>4, <3>5
  <2>9. CASE SettleStale(p)
    <3>1. Known'
        BY <2>9 DEF SettleStale, LeaveGate, Known, Unopened, SnapshotsTyped, Snapshots,
           EmptySnapshot
    <3>2. OneMoment'
        BY <2>9 DEF SettleStale, LeaveGate, OneMoment, Known, PlanOpened, GateHeld,
           SnapshotsTyped, Snapshots, EmptySnapshot
    <3>3. Answered'
        BY <2>9 DEF SettleStale, LeaveGate, Answered, Unanswered, CaptureSteps
    <3>4. Confirmed'
        BY <2>9 DEF SettleStale, LeaveGate, Confirmed, OneMoment, Known, PlanOpened, GateHeld,
           SnapshotsTyped, Snapshots, EmptySnapshot
    <3>5. SourceSettled'
        BY <2>9 DEF SettleStale, LeaveGate, SourceSettled, Confirmed, Answered, Forked, Known,
           PlanOpened, Unopened, Unanswered, CaptureSteps, SnapshotsTyped, Snapshots,
           EmptySnapshot
    <3> QED BY <3>1, <3>2, <3>3, <3>4, <3>5
  <2>10. CASE SettleObstructed(p)
    <3>1. Known'
        BY <2>10 DEF SettleObstructed, LeaveGate, Known, Unopened, SnapshotsTyped, Snapshots,
           EmptySnapshot
    <3>2. OneMoment'
        BY <2>10 DEF SettleObstructed, LeaveGate, OneMoment, Known, PlanOpened, GateHeld,
           SnapshotsTyped, Snapshots, EmptySnapshot
    <3>3. Answered'
        BY <2>10 DEF SettleObstructed, LeaveGate, Answered, Unanswered, CaptureSteps
    <3>4. Confirmed'
        BY <2>10 DEF SettleObstructed, LeaveGate, Confirmed, OneMoment, Known, PlanOpened,
           GateHeld, SnapshotsTyped, Snapshots, EmptySnapshot
    <3>5. SourceSettled'
        BY <2>10 DEF SettleObstructed, LeaveGate, SourceSettled, Confirmed, Answered, Forked,
           Known, PlanOpened, Unopened, Unanswered, CaptureSteps, SnapshotsTyped, Snapshots,
           EmptySnapshot
    <3> QED BY <3>1, <3>2, <3>3, <3>4, <3>5
  <2>11. CASE Promote(p)
    <3>1. Known'
      <4>1. /\ UNCHANGED <<intents, overlay, plan>>
            /\ seen' = seen \/ seen' = [seen EXCEPT ![p] = EmptySnapshot]
          BY <2>11 DEF Promote, LeaveGate
      <4>2. EmptySnapshot.source = 0  BY DEF EmptySnapshot
      <4>3. \A q \in Plans : seen'[q] = seen[q] \/ seen'[q] = EmptySnapshot
          BY <4>1 DEF SnapshotsTyped
      <4>4. \A q \in Plans : seen[q].source <= overlay /\ plan[q].source <= overlay  BY DEF Known
      <4>5. 0 <= overlay  OBVIOUS
      <4>6. ASSUME NEW q \in Plans PROVE (seen[q].source <= overlay)'
        <5>1. CASE seen'[q] = seen[q]  BY <4>1, <4>4, <5>1
        <5>2. CASE seen'[q] = EmptySnapshot  BY <4>1, <4>2, <4>5, <5>2
        <5> QED BY <4>3, <5>1, <5>2
      <4>7. \A g \in Handles : (intents[g] \subseteq 1 .. overlay)'  BY <4>1 DEF Known
      <4>8. \A q \in Plans : (plan[q].source <= overlay)'  BY <4>1, <4>4
      <4> QED BY <4>6, <4>7, <4>8 DEF Known
    <3>2. OneMoment'
        BY <2>11 DEF Promote, LeaveGate, BasisMatches, OneMoment, Known, PlanOpened, GateHeld,
           SnapshotsTyped, Snapshots, EmptySnapshot
    <3>3. Answered'
        BY <2>11 DEF Promote, LeaveGate, BasisMatches, Answered, Unanswered, CaptureSteps
    <3>4. Confirmed'
      <4>1. /\ UNCHANGED <<intents, handle, plan>> /\ p \in gate /\ step[p] = "captured" /\ seen[p] = plan[p]
            /\ \A q \in Plans \ {p} : step'[q] = step[q]
          BY <2>11 DEF Promote, LeaveGate, BasisMatches
      <4> QED BY <4>1 DEF Confirmed, OneMoment
    <3>5. SourceSettled'
        BY <2>11 DEF Promote, LeaveGate, BasisMatches, SourceSettled, Confirmed, Answered,
           Forked, Known, PlanOpened, Unopened, Unanswered, CaptureSteps, SnapshotsTyped,
           Snapshots, EmptySnapshot
    <3> QED BY <3>1, <3>2, <3>3, <3>4, <3>5
  <2>12. CASE SettleThrows(p)
    <3>1. Known'
        BY <2>12 DEF SettleThrows, LeaveGate, Known, Unopened, SnapshotsTyped, Snapshots,
           EmptySnapshot
    <3>2. OneMoment'
        BY <2>12 DEF SettleThrows, LeaveGate, OneMoment, Known, PlanOpened, GateHeld,
           SnapshotsTyped, Snapshots, EmptySnapshot
    <3>3. Answered'
        BY <2>12 DEF SettleThrows, LeaveGate, Answered, Unanswered, CaptureSteps
    <3>4. Confirmed'
        BY <2>12 DEF SettleThrows, LeaveGate, Confirmed, OneMoment, Known, PlanOpened,
           GateHeld, SnapshotsTyped, Snapshots, EmptySnapshot
    <3>5. SourceSettled'
        BY <2>12 DEF SettleThrows, LeaveGate, SourceSettled, Confirmed, Answered, Forked,
           Known, PlanOpened, Unopened, Unanswered, CaptureSteps, SnapshotsTyped, Snapshots,
           EmptySnapshot
    <3> QED BY <3>1, <3>2, <3>3, <3>4, <3>5
  <2>13. CASE CommitIntent(p)
    <3>1. Known'
        BY <2>13 DEF CommitIntent, Lands, Known, Unopened, SnapshotsTyped, Snapshots,
           EmptySnapshot
    <3>2. OneMoment'
        BY <2>13 DEF CommitIntent, Lands, OneMoment, Known, PlanOpened, GateHeld,
           SnapshotsTyped, Snapshots, EmptySnapshot
    <3>3. Answered'
        BY <2>13 DEF CommitIntent, Lands, Answered, Unanswered, CaptureSteps
    <3>4. Confirmed'
        BY <2>13 DEF CommitIntent, Lands, Confirmed, OneMoment, Known, PlanOpened, GateHeld,
           SnapshotsTyped, Snapshots, EmptySnapshot
    <3>5. SourceSettled'
        BY <2>13 DEF CommitIntent, Lands, SourceSettled, Confirmed, Answered, Forked, Known,
           PlanOpened, Unopened, Unanswered, CaptureSteps, SnapshotsTyped, Snapshots,
           EmptySnapshot
    <3> QED BY <3>1, <3>2, <3>3, <3>4, <3>5
  <2>14. CASE CommitFails(p)
    <3>1. Known'
        BY <2>14 DEF CommitFails, LeaveGate, Lands, Known, Unopened, SnapshotsTyped, Snapshots,
           EmptySnapshot
    <3>2. OneMoment'
        BY <2>14 DEF CommitFails, LeaveGate, Lands, OneMoment, Known, PlanOpened, GateHeld,
           SnapshotsTyped, Snapshots, EmptySnapshot
    <3>3. Answered'
        BY <2>14 DEF CommitFails, LeaveGate, Lands, Answered, Unanswered, CaptureSteps
    <3>4. Confirmed'
        BY <2>14 DEF CommitFails, LeaveGate, Lands, Confirmed, OneMoment, Known, PlanOpened,
           GateHeld, SnapshotsTyped, Snapshots, EmptySnapshot
    <3>5. SourceSettled'
        BY <2>14 DEF CommitFails, LeaveGate, Lands, SourceSettled, Confirmed, Answered, Forked,
           Known, PlanOpened, Unopened, Unanswered, CaptureSteps, SnapshotsTyped, Snapshots,
           EmptySnapshot
    <3> QED BY <3>1, <3>2, <3>3, <3>4, <3>5
  <2>15. CASE JoinCompletes(p)
    <3>1. Known'
        BY <2>15 DEF JoinCompletes, LeaveGate, Known, Unopened, SnapshotsTyped, Snapshots,
           EmptySnapshot
    <3>2. OneMoment'
        BY <2>15 DEF JoinCompletes, LeaveGate, OneMoment, Known, PlanOpened, GateHeld,
           SnapshotsTyped, Snapshots, EmptySnapshot
    <3>3. Answered'
        BY <2>15 DEF JoinCompletes, LeaveGate, Answered, Unanswered, CaptureSteps
    <3>4. Confirmed'
        BY <2>15 DEF JoinCompletes, LeaveGate, Confirmed, OneMoment, Known, PlanOpened,
           GateHeld, SnapshotsTyped, Snapshots, EmptySnapshot
    <3>5. SourceSettled'
        BY <2>15 DEF JoinCompletes, LeaveGate, SourceSettled, Confirmed, Answered, Forked,
           Known, PlanOpened, Unopened, Unanswered, CaptureSteps, SnapshotsTyped, Snapshots,
           EmptySnapshot
    <3> QED BY <3>1, <3>2, <3>3, <3>4, <3>5
  <2> QED BY <1>9, <2>1, <2>2, <2>3, <2>4, <2>5, <2>6, <2>7, <2>8, <2>9, <2>10, <2>11, <2>12,
      <2>13, <2>14, <2>15 DEF PlanStep, CaptureStep
<1> QED BY <1>1, <1>2, <1>3, <1>4, <1>5, <1>6, <1>7, <1>8, <1>9 DEF Next

(* A settlement that was carried out promoted what its handle held of the
   strand at the plan's source frontier, although the preview read the two at
   different moments and others wrote to the strand. *)
THEOREM SettledFromItsSource == Spec => []SourceSettled
<1>1. Init => OnceInv  BY OnceInit
<1>2. Init => CompleteInv
    BY OnceInit DEF Init, OnceInv, CompleteInv, JoinLanded, Unopened, Proposed, Unanswered,
        DerivedIsComplete, EmptySnapshot, CaptureSteps
<1>3. Init => SourceInv
    BY DEF Init, SourceInv, Known, OneMoment, Answered, Confirmed, SourceSettled, EmptySnapshot
<1>4. SourceInv => SourceSettled  BY DEF SourceInv
<1> QED BY <1>1, <1>2, <1>3, <1>4, OnceStep, CompleteStep, SourceStep, PTL DEF Spec

-----------------------------------------------------------------------------
(* The frontier a promotion starts from. *)

(* A settlement that holds the gate has read the target's frontier as it is, and
   as it stays until the settlement itself commits. *)
FrontierHeld ==
    \A p \in gate :
        /\ step[p] \in {"status", "captured"} => seen[p].frontier = target
        /\ step[p] = "promoting" /\ p \notin moved => plan[p].frontier = target

(* Without another process on the repository, every step keeps that frontier. *)
LEMMA FrontierStep == Others = FALSE /\ OnceInv /\ FrontierHeld /\ [Next]_vars => FrontierHeld'
<1> SUFFICES ASSUME Others = FALSE, OnceInv, FrontierHeld, [Next]_vars
             PROVE  FrontierHeld'
    OBVIOUS
<1> USE SettlementAssumption
<1> USE DEF OnceInv, TypeOK, RepositoryTyped, DraftsTyped, CallsTyped, repository, drafts, calls
<1>1. CASE UNCHANGED vars
    BY <1>1 DEF vars, FrontierHeld, GateHeld, SnapshotsTyped
<1>2. CASE WriteTarget
  <2>1. FrontierHeld'
      BY <1>2 DEF WriteTarget, GateFree, FrontierHeld, GateHeld, SnapshotsTyped
  <2> QED BY <2>1
<1>3. CASE OtherCommits
  <2>1. FrontierHeld'
      BY <1>3 DEF OtherCommits, FrontierHeld, GateHeld, SnapshotsTyped
  <2> QED BY <2>1
<1>4. CASE OtherWritesDraft
  <2>1. FrontierHeld'
      BY <1>4 DEF OtherWritesDraft, FrontierHeld, GateHeld, SnapshotsTyped
  <2> QED BY <2>1
<1>5. CASE NewCheckpoint
  <2>1. FrontierHeld'
      BY <1>5 DEF NewCheckpoint, FrontierHeld, GateHeld, SnapshotsTyped
  <2> QED BY <2>1
<1>6. CASE Restart
  <2>1. FrontierHeld'
      BY <1>6 DEF Restart, FrontierHeld, GateHeld, SnapshotsTyped
  <2> QED BY <2>1
<1>7. ASSUME NEW h \in Handles, Fork(h) \/ Open(h) \/ WriteDraft(h)
      PROVE  FrontierHeld'
  <2>1. CASE Fork(h)
    <3>1. FrontierHeld'
        BY <2>1 DEF Fork, LoadDraft, GateFree, FrontierHeld, GateHeld, SnapshotsTyped
    <3> QED BY <3>1
  <2>2. CASE Open(h)
    <3>1. FrontierHeld'
        BY <2>2 DEF Open, LoadDraft, FrontierHeld, GateHeld, SnapshotsTyped
    <3> QED BY <3>1
  <2>3. CASE WriteDraft(h)
    <3>1. FrontierHeld'
        BY <2>3 DEF WriteDraft, GateFree, FrontierHeld, GateHeld, SnapshotsTyped
    <3> QED BY <3>1
  <2> QED BY <1>7, <2>1, <2>2, <2>3
<1>8. ASSUME NEW p \in Plans, NEW h \in Handles, Preview(p, h)
      PROVE  FrontierHeld'
  <2>1. FrontierHeld'
      BY <1>8 DEF Preview, FrontierHeld, GateHeld, SnapshotsTyped
  <2> QED BY <2>1
<1>9. ASSUME NEW p \in Plans, Settle(p) \/ TakeGate(p) \/ PlanStep(p)
      PROVE  FrontierHeld'
  <2>1. CASE Settle(p)
    <3>1. FrontierHeld'
        BY <2>1 DEF Settle, FrontierHeld, GateHeld, SnapshotsTyped
    <3> QED BY <3>1
  <2>2. CASE TakeGate(p)
    <3>1. FrontierHeld'
        BY <2>2 DEF TakeGate, GateFree, FrontierHeld, GateHeld, SnapshotsTyped
    <3> QED BY <3>1
  <2>3. CASE CaptureSource(p)
    <3>1. FrontierHeld'
      <4>1. gate' = gate /\ target' = target /\ plan' = plan /\ moved' = moved /\ step[p] = "source"
          BY <2>3 DEF CaptureSource, Capture
      <4>2. \A q \in Plans \ {p} : step'[q] = step[q] /\ seen'[q] = seen[q]
          BY <2>3 DEF CaptureSource, Capture, SnapshotsTyped
      <4>3. step'[p] = "basis"
          BY <2>3 DEF CaptureSource, Capture, SnapshotsTyped, Snapshots
      <4> QED BY <4>1, <4>2, <4>3 DEF FrontierHeld
    <3> QED BY <3>1
  <2>4. CASE CaptureBasis(p)
    <3>1. FrontierHeld'
      <4>1. gate' = gate /\ target' = target /\ plan' = plan /\ moved' = moved /\ step[p] = "basis"
          BY <2>4 DEF CaptureBasis, Capture
      <4>2. \A q \in Plans \ {p} : step'[q] = step[q] /\ seen'[q] = seen[q]
          BY <2>4 DEF CaptureBasis, Capture, SnapshotsTyped
      <4>3. step'[p] = "frontier"
          BY <2>4 DEF CaptureBasis, Capture, SnapshotsTyped, Snapshots
      <4> QED BY <4>1, <4>2, <4>3 DEF FrontierHeld
    <3> QED BY <3>1
  <2>5. CASE CaptureFrontier(p)
    <3>1. FrontierHeld'
      <4>1. gate' = gate /\ target' = target /\ plan' = plan /\ moved' = moved /\ step[p] = "frontier"
          BY <2>5 DEF CaptureFrontier, Capture
      <4>2. \A q \in Plans \ {p} : step'[q] = step[q] /\ seen'[q] = seen[q]
          BY <2>5 DEF CaptureFrontier, Capture, SnapshotsTyped
      <4>3. step'[p] = "status" /\ seen'[p].frontier = target
          BY <2>5 DEF CaptureFrontier, Capture, SnapshotsTyped, Snapshots
      <4> QED BY <4>1, <4>2, <4>3 DEF FrontierHeld
    <3> QED BY <3>1
  <2>6. CASE CaptureStatus(p)
    <3>1. FrontierHeld'
      <4>1. gate' = gate /\ target' = target /\ plan' = plan /\ moved' = moved /\ step[p] = "status"
          BY <2>6 DEF CaptureStatus, Capture
      <4>2. \A q \in Plans \ {p} : step'[q] = step[q] /\ seen'[q] = seen[q]
          BY <2>6 DEF CaptureStatus, Capture, SnapshotsTyped
      <4>3. step'[p] = "captured" /\ seen'[p].frontier = seen[p].frontier
          BY <2>6 DEF CaptureStatus, Capture, SnapshotsTyped, Snapshots
      <4> QED BY <4>1, <4>2, <4>3 DEF FrontierHeld
    <3> QED BY <3>1
  <2>7. CASE PreviewAnswers(p)
    <3>1. FrontierHeld'
        BY <2>7 DEF PreviewAnswers, FrontierHeld, GateHeld, SnapshotsTyped
    <3> QED BY <3>1
  <2>8. CASE PreviewThrows(p)
    <3>1. FrontierHeld'
        BY <2>8 DEF PreviewThrows, FrontierHeld, GateHeld, SnapshotsTyped
    <3> QED BY <3>1
  <2>9. CASE SettleStale(p)
    <3>1. FrontierHeld'
        BY <2>9 DEF SettleStale, LeaveGate, FrontierHeld, GateHeld, SnapshotsTyped
    <3> QED BY <3>1
  <2>10. CASE SettleObstructed(p)
    <3>1. FrontierHeld'
        BY <2>10 DEF SettleObstructed, LeaveGate, FrontierHeld, GateHeld, SnapshotsTyped
    <3> QED BY <3>1
  <2>11. CASE Promote(p)
    <3>1. FrontierHeld'
        BY <2>11 DEF Promote, LeaveGate, BasisMatches, FrontierHeld, GateHeld, SnapshotsTyped
    <3> QED BY <3>1
  <2>12. CASE SettleThrows(p)
    <3>1. FrontierHeld'
        BY <2>12 DEF SettleThrows, LeaveGate, FrontierHeld, GateHeld, SnapshotsTyped
    <3> QED BY <3>1
  <2>13. CASE CommitIntent(p)
    <3>1. FrontierHeld'
        BY <2>13 DEF CommitIntent, Lands, FrontierHeld, GateHeld, SnapshotsTyped
    <3> QED BY <3>1
  <2>14. CASE CommitFails(p)
    <3>1. FrontierHeld'
        BY <2>14 DEF CommitFails, LeaveGate, Lands, FrontierHeld, GateHeld, SnapshotsTyped
    <3> QED BY <3>1
  <2>15. CASE JoinCompletes(p)
    <3>1. FrontierHeld'
        BY <2>15 DEF JoinCompletes, LeaveGate, FrontierHeld, GateHeld, SnapshotsTyped
    <3> QED BY <3>1
  <2> QED BY <1>9, <2>1, <2>2, <2>3, <2>4, <2>5, <2>6, <2>7, <2>8, <2>9, <2>10, <2>11, <2>12,
      <2>13, <2>14, <2>15 DEF PlanStep, CaptureStep
<1> QED BY <1>1, <1>2, <1>3, <1>4, <1>5, <1>6, <1>7, <1>8, <1>9 DEF Next

(* Where one Runtime has the repository for itself, a plan is carried out on the
   target frontier it was issued for: its first commit lands right on it.  With
   other processes it is not so: nothing holds the worldline still between the
   confirmation and the commit. *)
THEOREM PromotedOnItsBasis == ASSUME Others = FALSE PROVE Spec => PromotesOnBasis
<1>1. Init => OnceInv  BY OnceInit
<1>2. Init => FrontierHeld  BY DEF Init, FrontierHeld
<1>3. OnceInv /\ FrontierHeld /\ [Next]_vars => FrontierHeld'  BY FrontierStep
<1>4. OnceInv /\ FrontierHeld /\ [Next]_vars
      => [\A p \in Plans : p \in moved' \ moved => target = plan[p].frontier]_vars
  <2> SUFFICES ASSUME OnceInv, FrontierHeld, Next, NEW p \in Plans, p \in moved' \ moved
               PROVE  target = plan[p].frontier
      OBVIOUS
  <2>1. step[p] = "promoting"
    <3> USE DEF repository, drafts, calls
    <3>1. PICK q \in Plans : CommitIntent(q) \/ CommitFails(q)
      <4>1. CASE WriteTarget \/ OtherCommits \/ OtherWritesDraft \/ NewCheckpoint \/ Restart
          BY <4>1 DEF WriteTarget, OtherCommits, OtherWritesDraft, NewCheckpoint, Restart
      <4>2. ASSUME NEW h \in Handles, Fork(h) \/ Open(h) \/ WriteDraft(h) PROVE FALSE
          BY <4>2 DEF Fork, Open, WriteDraft
      <4>3. ASSUME NEW r \in Plans, NEW h \in Handles, Preview(r, h) PROVE FALSE
          BY <4>3 DEF Preview
      <4>4. ASSUME NEW r \in Plans, \/ Settle(r) \/ TakeGate(r) \/ CaptureStep(r)
                                   \/ PreviewAnswers(r) \/ PreviewThrows(r) \/ SettleStale(r)
                                   \/ SettleObstructed(r) \/ Promote(r) \/ SettleThrows(r)
                                   \/ JoinCompletes(r)
            PROVE  FALSE
          BY <4>4 DEF Settle, TakeGate, CaptureStep, CaptureSource, CaptureBasis,
             CaptureFrontier, CaptureStatus, Capture, PreviewAnswers, PreviewThrows,
             SettleStale, SettleObstructed, Promote, SettleThrows, JoinCompletes
      <4> QED BY <4>1, <4>2, <4>3, <4>4 DEF Next, PlanStep
    <3>2. q = p  BY <3>1 DEF CommitIntent, CommitFails, Lands
    <3> QED BY <3>1, <3>2 DEF CommitIntent, CommitFails
  <2> QED BY <2>1 DEF OnceInv, GateHeld, FrontierHeld
<1> QED BY <1>1, <1>2, <1>3, <1>4, OnceStep, PTL DEF Spec, PromotesOnBasis
=============================================================================
