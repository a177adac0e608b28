--------------------------- MODULE SessionReplay ----------------------------
(***************************************************************************)
(* Materializing from a frontier where the storage has tries:              *)
(* src/src/domain/warp/RuntimePatchCollector.ts streams the patches chain  *)
(* by chain, and src/src/domain/services/JoinReducerSession.ts applies     *)
(* them to a StateSession.                                                 *)
(*                                                                         *)
(* The replicas, their patches and their exchange are those of WarpState;  *)
(* a session's sets are the ones TrieSession shows its pages to be.        *)
(***************************************************************************)
EXTENDS WarpState, TLC

Seqs == INSTANCE SequencesExt

\* streamForFrontier: writer after writer, in the order of their ids, each chain oldest
\* first.
StreamedBefore(p, q) ==
    \/ p.event.writer < q.event.writer
    \/ p.event.writer = q.event.writer /\ p.event.lamport < q.event.lamport

StreamForFrontier(P) == Seqs!SetToSortSeq(P, StreamedBefore)

\* removeNode, removeEdge: removeElement leaves a set without the element as it is, and
\* turns only dots that the element holds into tombstones.
Removes(s, p) == p.observed \cap {y[2] : y \in s.entries}

\* applyPatchInSession: mutateInSession for each operation, then foldPatchIntoFrame.
ApplyPatchInSession(s, p) ==
    [entries |-> s.entries \cup p.adds, tombstones |-> s.tombstones \cup Removes(s, p),
     prop |-> WithProps(s, p), birth |-> WithBirths(s, p), seen |-> FoldPatch(s, p)]

\* reducePatchesInSession from an empty frame.
Replay(P) == Seqs!FoldLeft(ApplyPatchInSession, Empty, StreamForFrontier(P))

-----------------------------------------------------------------------------
(* Who materializes from a frontier sees what the patches below it mean,   *)
(* in whatever order the writers are streamed (README.md: "commutativity   *)
(* => writers can apply each other's patches in any order").               *)
ReplayIsMeaning == \A r \in Writers : View(Replay(has[r])) = View(Meaning(has[r]))
=============================================================================
