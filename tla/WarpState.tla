----------------------------- MODULE WarpState -----------------------------
(***************************************************************************)
(* The replicated graph state: src/src/domain/services/state/WarpState.ts  *)
(* over the CRDTs of src/src/domain/crdt/, the reducer of                  *)
(* src/src/domain/services/JoinReducer.ts and the compaction of            *)
(* src/src/domain/services/executeGC.ts.                                   *)
(*                                                                         *)
(* One replica per writer.  A replica writes patches against its state and *)
(* applies those of the others, chain by chain, in any order between the   *)
(* chains; it may also join a whole state of another replica, and compact  *)
(* its own; a history variable tells which of the two it has done.  A      *)
(* patch adds elements, removes one or sets one property.                  *)
(* Writing goes against the state's own frontier, as after a materialize;  *)
(* how a host's version vector may fall behind it is WarpHost's subject.   *)
(*                                                                         *)
(* Nodes and edges live in two ORSets that behave alike and never share a  *)
(* dot; here they are one set of elements.  An element has one property,   *)
(* and a value is named by the event that wrote it.                        *)
(***************************************************************************)
EXTENDS Naturals, FiniteSetsExt

CONSTANTS
    Writers,      \* writer ids, numbered in the order of their strings
    Nodes, Edges, \* element ids
    From, To,     \* the ends of each edge
    MaxPatches,   \* bound: patches of each writer
    MaxAdds,      \* bound: adds in one patch of each writer
    Mixing        \* bound: TRUE where "mixed" histories are explored

ASSUME WarpStateAssumption ==
    /\ Writers \subseteq Nat \ {0} /\ Nodes \cap Edges = {}
    /\ From \in [Edges -> Nodes] /\ To \in [Edges -> Nodes]
    /\ MaxPatches \in [Writers -> Nat] /\ MaxAdds \in [Writers -> Nat] /\ Mixing \in BOOLEAN

VARIABLES
    st,      \* the WarpState of each replica
    has,     \* the patches that were applied to it, or to what it joined
    clock,   \* the highest lamport each replica goes by
    log,     \* every patch written
    past     \* history: "whole" where nothing was compacted, "compacted", or
             \* "mixed" where a compacted state was joined or given a patch again

vars == <<st, has, clock, log, past>>

Elements == Nodes \cup Edges
Dots == Writers \X Nat
VersionVectors == [Writers -> Nat]
NoEvent == [lamport |-> 0, writer |-> 0]
Events == [lamport : Nat \ {0}, writer : Writers]

Patches == [event : Events, adds : SUBSET (Elements \X Dots), observed : SUBSET Dots,
            sets : SUBSET Elements, context : VersionVectors]

States == [entries : SUBSET (Elements \X Dots), tombstones : SUBSET Dots,
           prop : [Elements -> Events \cup {NoEvent}], birth : [Edges -> Events \cup {NoEvent}],
           seen : VersionVectors]

Empty == [entries |-> {}, tombstones |-> {}, prop |-> [x \in Elements |-> NoEvent],
          birth |-> [e \in Edges |-> NoEvent], seen |-> [w \in Writers |-> 0]]

Init ==
    /\ st = [r \in Writers |-> Empty]
    /\ has = [r \in Writers |-> {}]
    /\ clock = [r \in Writers |-> 0]
    /\ log = {}
    /\ past = [r \in Writers |-> "whole"]

-----------------------------------------------------------------------------
(* The lattices. *)

LamportBefore(a, b) == a.lamport < b.lamport   \* a mutant of the next

\* compareEventIds; the writer breaks ties, and no two patches share both.
EventBefore(a, b) ==
    \/ a.lamport < b.lamport
    \/ a.lamport = b.lamport /\ a.writer < b.writer

\* LWWRegister.max: the first argument unless it is smaller.
LwwMax(a, b) == IF EventBefore(a, b) THEN b ELSE a

Larger(i, j) == IF i < j THEN j ELSE i

\* VersionVector.merge.
Merge(v, u) == [w \in Writers |-> Larger(v[w], u[w])]

\* ORSet.contains and getDots.
GetDots(s, x) == {y[2] : y \in {z \in s.entries : z[1] = x}} \ s.tombstones
Alive(s, x) == GetDots(s, x) # {}

\* edgeRecords: an edge is visible while both its ends are.
Visible(s, x) ==
    /\ Alive(s, x)
    /\ x \in Edges => Alive(s, From[x]) /\ Alive(s, To[x])

\* attachmentRecords: a register of a visible element; for an edge, one that
\* is not older than the edge's latest birth.
Shown(s, x) ==
    IF Visible(s, x) /\ ~(x \in Edges /\ EventBefore(s.prop[x], s.birth[x])) THEN s.prop[x] ELSE NoEvent

\* What a reader of the state sees.
View(s) == [elements |-> {x \in Elements : Visible(s, x)}, props |-> [x \in Elements |-> Shown(s, x)]]

-----------------------------------------------------------------------------
(* The reducer. *)

\* foldPatch: the context, and the patch's own lamport.
FoldPatch(s, p) ==
    LET merged == Merge(s.seen, p.context) IN
    [merged EXCEPT ![p.event.writer] = Larger(@, p.event.lamport)]

\* mutatePropLWW for a set, EdgeAdd.mutate for the birth of an edge.
WithProps(s, p) ==
    [x \in Elements |-> IF x \in p.sets THEN LwwMax(s.prop[x], p.event) ELSE s.prop[x]]
WithBirths(s, p) ==
    [e \in Edges |-> IF \E y \in p.adds : y[1] = e THEN LwwMax(s.birth[e], p.event) ELSE s.birth[e]]

\* applyFast: mutate for each operation, then foldPatch.
Apply(s, p) ==
    [entries |-> s.entries \cup p.adds, tombstones |-> s.tombstones \cup p.observed,
     prop |-> WithProps(s, p), birth |-> WithBirths(s, p), seen |-> FoldPatch(s, p)]

\* WarpState.join.
JoinStates(s, t) ==
    [entries |-> s.entries \cup t.entries,
     tombstones |-> s.tombstones \cup t.tombstones,
     prop |-> [x \in Elements |-> LwwMax(s.prop[x], t.prop[x])],
     birth |-> [e \in Edges |-> LwwMax(s.birth[e], t.birth[e])],
     seen |-> Merge(s.seen, t.seen)]

\* computeAppliedVV: the largest counter of each writer among the entries.
AppliedVV(s) ==
    [w \in Writers |-> Max({0} \cup {y[2][2] : y \in {z \in s.entries : z[2][1] = w}})]

\* _collectCompactableDots: dots with an entry, tombstoned, and covered.
Compactable(s) ==
    {d \in {y[2] : y \in s.entries} : d \in s.tombstones /\ d[2] <= AppliedVV(s)[d[1]]}

\* _applyCompaction.
DropTombstones(s, gone) == [s EXCEPT !.tombstones = @ \ gone]
Compact(s, gone) ==
    [s EXCEPT !.entries = {y \in @ : y[2] \notin gone}, !.tombstones = @ \ gone]

-----------------------------------------------------------------------------
(* Replicas. *)

\* The lamport of a new patch.
NextLamport(r) == clock[r] + 1

Commit(r, adds, observed, sets, context) ==
    LET p == [event |-> [lamport |-> NextLamport(r), writer |-> r], adds |-> adds,
              observed |-> observed, sets |-> sets, context |-> context] IN
    /\ Cardinality({q \in log : q.event.writer = r}) < MaxPatches[r]
    /\ log' = log \cup {p}
    /\ has' = [has EXCEPT ![r] = @ \cup {p}]
    /\ st' = [st EXCEPT ![r] = Apply(@, p)]
    /\ clock' = [clock EXCEPT ![r] = p.event.lamport]
    /\ UNCHANGED past

\* The dot of the i-th add: VersionVector.increment, i times.
NextDot(r, i) == <<r, st[r].seen[r] + i>>

\* addNode, addEdge: the elements xs, in this order.
Add(r, xs) ==
    Commit(r, {<<xs[i], NextDot(r, i)>> : i \in DOMAIN xs}, {}, {},
           [st[r].seen EXCEPT ![r] = @ + Cardinality(DOMAIN xs)])

\* removeNode, removeEdge: the dots this replica observes of the element and,
\* where onDeleteWithData is 'cascade', of the edges at the node.
AttachedEdges(x) == {e \in Edges : From[e] = x \/ To[e] = x}

RemoveNode(r, x, cascade) ==
    /\ Alive(st[r], x)
    /\ Commit(r, {}, UNION {GetDots(st[r], y) : y \in {x} \cup (IF cascade THEN AttachedEdges(x) ELSE {})},
              {}, st[r].seen)

\* setProperty; setEdgeProperty asks for a live edge.
SetProperty(r, x) ==
    /\ x \in Edges => Alive(st[r], x)
    /\ Commit(r, {}, {}, {x}, st[r].seen)

\* What has become of a replica.
Becomes(r, how) == past' = [past EXCEPT ![r] = how] /\ (how = "mixed" => Mixing)

\* A patch of another replica arrives after its writer's earlier ones.  A
\* materialize raises the clock, a sync response does not.
Deliver(r, p, raises) ==
    /\ \A q \in log : q.event.writer = p.event.writer /\ LamportBefore(q.event, p.event) => q \in has[r]
    /\ st' = [st EXCEPT ![r] = Apply(@, p)]
    /\ has' = [has EXCEPT ![r] = @ \cup {p}]
    /\ clock' = [clock EXCEPT ![r] = IF raises THEN Larger(@, p.event.lamport) ELSE @]
    /\ Becomes(r, IF p \in has[r] /\ past[r] = "compacted" THEN "mixed" ELSE past[r])
    /\ UNCHANGED log

\* PatchController.join.
Join(r, t) ==
    /\ st' = [st EXCEPT ![r] = JoinStates(@, st[t])]
    /\ has' = [has EXCEPT ![r] = @ \cup has[t]]
    /\ Becomes(r, IF past[r] = "whole" /\ past[t] = "whole" THEN "whole" ELSE "mixed")
    /\ UNCHANGED <<clock, log>>

\* runGC.
RunGC(r) ==
    /\ st' = [st EXCEPT ![r] = Compact(@, Compactable(@))]
    /\ Becomes(r, IF past[r] = "whole" /\ Compactable(st[r]) # {} THEN "compacted" ELSE past[r])
    /\ UNCHANGED <<has, clock, log>>

Next ==
    \E r \in Writers :
        \/ \E n \in 1..MaxAdds[r] : \E xs \in [1..n -> Elements] : Add(r, xs)
        \/ \E x \in Elements, cascade \in BOOLEAN : RemoveNode(r, x, cascade)
        \/ \E x \in Elements : SetProperty(r, x)
        \/ \E p \in log, raises \in BOOLEAN : Deliver(r, p, raises)
        \/ \E t \in Writers : Join(r, t)
        \/ RunGC(r)

Spec == Init /\ [][Next]_vars

-----------------------------------------------------------------------------
(* What a set of patches means, in no order. *)

Added(P) == UNION {p.adds : p \in P}
Removed(P) == UNION {p.observed : p \in P}

Newest(E) == CHOOSE e \in E : \A f \in E : ~EventBefore(e, f)

Meaning(P) ==
    [entries |-> Added(P),
     tombstones |-> Removed(P),
     prop |-> [x \in Elements |-> Newest({NoEvent} \cup {p.event : p \in {q \in P : x \in q.sets}})],
     birth |-> [e \in Edges |->
                  Newest({NoEvent} \cup {p.event : p \in {q \in P : \E y \in q.adds : y[1] = e}})],
     seen |-> [w \in Writers |->
                  Max({0} \cup {p.context[w] : p \in P}
                          \cup {p.event.lamport : p \in {q \in P : q.event.writer = w}})]]

-----------------------------------------------------------------------------
TypeOK ==
    /\ st \in [Writers -> States]
    /\ has \in [Writers -> SUBSET log]
    /\ clock \in [Writers -> Nat]
    /\ log \subseteq Patches
    /\ past \in [Writers -> {"whole", "compacted", "mixed"}]

(* The state of a replica is what the set of its patches means: it does    *)
(* not depend on the order in which they were applied, on how often, or on *)
(* which of them came inside a joined state.  Replicas with the same       *)
(* patches therefore have the same state and the same state hash.  It      *)
(* holds where nothing was compacted, neither here nor in what was joined. *)
StateIsMeaning == \A r \in Writers : past[r] = "whole" => st[r] = Meaning(has[r])

(* A reader of a replica sees what the set of its patches means, although  *)
(* compaction has dropped entries and tombstones: a removed element does   *)
(* not come back and a concurrent add survives.  Nothing is said once a    *)
(* compacted state was joined with another or given a patch again.         *)
ViewIsMeaning == \A r \in Writers : past[r] # "mixed" => View(st[r]) = View(Meaning(has[r]))

(* The observed frontier covers every dot in the state, added or removed:  *)
(* the next dot of the replica is new.                                     *)
SeenCoversDots ==
    \A r \in Writers :
        \A d \in {y[2] : y \in st[r].entries} \cup st[r].tombstones : d[2] <= st[r].seen[d[1]]

(* Two adds never share a dot, over all replicas.                          *)
DotsUnique ==
    \A p, q \in log : \A y \in p.adds, z \in q.adds : y[2] = z[2] => p = q /\ y = z

=============================================================================
