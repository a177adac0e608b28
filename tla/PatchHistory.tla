---------------------------- MODULE PatchHistory ----------------------------
(***************************************************************************)
(* What git-warp promises about the durable history of a graph, whatever   *)
(* the processes that write it do: every writer owns one linear chain of   *)
(* patches under refs/warp/<graph>/writers/<id>, the chain only ever grows *)
(* at its head, the Lamport tick of a patch is above that of its parent,   *)
(* and a commit that was reported to its caller stays in the chain.        *)
(***************************************************************************)
EXTENDS Naturals, Sequences

CONSTANTS Writers    \* writer ids, one ref each

VARIABLES chain,     \* chain[w]: patches reachable from w's ref, oldest first
          acked      \* commits reported to a caller: [writer, at, patch]

historyVars == <<chain, acked>>

(* Lamport tick of the patch at the head of a chain, 0 for an unborn ref. *)
HeadTick(c) == IF c = <<>> THEN 0 ELSE c[Len(c)].lamport

HistoryInit ==
  /\ chain = [w \in Writers |-> <<>>]
  /\ acked = {}

(* p is w's and carries a tick above its parent's. *)
MayFollow(p, w) == p.writer = w /\ p.lamport > HeadTick(chain[w])

(* One patch is appended to one chain; which one is left open. *)
AppendPatch(w) ==
  LET p == chain'[w][Len(chain[w]) + 1] IN
  /\ Len(chain'[w]) = Len(chain[w]) + 1
  /\ chain' = [chain EXCEPT ![w] = Append(chain[w], p)]
  /\ MayFollow(p, w)
  /\ acked' = acked

(* A commit is reported to its caller under the position it has in its chain. *)
ReportCommit(w, i) ==
  /\ acked' = acked \cup {[writer |-> w, at |-> i, patch |-> chain[w][i]]}
  /\ chain' = chain

HistoryNext ==
  \/ \E w \in Writers : AppendPatch(w)
  \/ \E w \in Writers : \E i \in DOMAIN chain[w] : ReportCommit(w, i)

HistorySpec == HistoryInit /\ [][HistoryNext]_historyVars
=============================================================================
