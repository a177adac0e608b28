-------------------------- MODULE WarpStateProofs --------------------------
(***************************************************************************)
(* Proofs about WarpState and TrieSession.                                 *)
(*                                                                         *)
(* Every step of a replica other than a compaction replaces its state by   *)
(* Apply or JoinStates and adds the same patches to has; the invariants    *)
(* say how the two stay together, and what a compaction may drop.          *)
(*                                                                         *)
(* A trie of a session is pages, and its set is what its leaves hold.  The *)
(* second half of the module shows that the two agree: the pages hang from *)
(* the root, the dirty ones upward closed, the clean ones as they were     *)
(* loaded, and every id is in the one leaf that lies along its route.      *)
(***************************************************************************)
EXTENDS WarpState, TrieSession, FiniteSetTheorems, SequenceTheorems, WellFoundedInduction, TLAPS

LEMMA LargerIsMax ==
    ASSUME NEW i \in Nat, NEW j \in Nat
    PROVE  Larger(i, j) \in {i, j} /\ Larger(i, j) \in Nat /\ i <= Larger(i, j) /\ j <= Larger(i, j)
BY DEF Larger

AllEvents == Events \cup {NoEvent}

LEMMA EventFields ==
    ASSUME NEW e \in AllEvents
    PROVE  /\ e.lamport \in Nat /\ e.writer \in Nat
           /\ e = [lamport |-> e.lamport, writer |-> e.writer]
<1>1. CASE e \in Events
  BY <1>1, WarpStateAssumption DEF Events
<1>2. CASE e = NoEvent
  BY <1>2 DEF NoEvent
<1> QED BY <1>1, <1>2 DEF AllEvents

(* compareEventIds is a total order of the events: none is lost to a tie.  *)
LEMMA EventOrder ==
    ASSUME NEW a \in AllEvents, NEW b \in AllEvents, NEW c \in AllEvents
    PROVE  /\ ~EventBefore(a, b) /\ ~EventBefore(b, a) => a = b
           /\ EventBefore(a, b) => ~EventBefore(b, a)
           /\ ~EventBefore(a, b) /\ ~EventBefore(b, c) => ~EventBefore(a, c)
<1>1. /\ a.lamport \in Nat /\ a.writer \in Nat /\ b.lamport \in Nat /\ b.writer \in Nat
      /\ c.lamport \in Nat /\ c.writer \in Nat
  BY EventFields
<1>2. a.lamport = b.lamport /\ a.writer = b.writer => a = b
  BY EventFields
<1> QED BY <1>1, <1>2 DEF EventBefore

LEMMA NewestIs ==
    ASSUME NEW E, E \subseteq AllEvents, NEW e \in E, \A f \in E : ~EventBefore(e, f)
    PROVE  Newest(E) = e
<1>1. PICK n \in E : n = Newest(E) /\ \A f \in E : ~EventBefore(n, f)
  BY DEF Newest
<1>2. n \in AllEvents /\ e \in AllEvents
  OBVIOUS
<1> QED BY <1>1, <1>2, EventOrder

LEMMA MaxIs ==
    ASSUME NEW S, S \subseteq Nat, NEW n \in S, \A i \in S : i <= n
    PROVE  Max(S) = n
<1>1. PICK k \in S : k = Max(S) /\ \A i \in S : k >= i
  BY DEF Max
<1> QED BY <1>1

-----------------------------------------------------------------------------
(* Registers and frontiers: the newest of what the patches wrote. *)

PropEvents(P, x) == {NoEvent} \cup {p.event : p \in {q \in P : x \in q.sets}}
BirthEvents(P, e) == {NoEvent} \cup {p.event : p \in {q \in P : \E y \in q.adds : y[1] = e}}
SeenCounts(P, w) ==
    {0} \cup {p.context[w] : p \in P} \cup {p.event.lamport : p \in {q \in P : q.event.writer = w}}

IsNewest(e, E) == e \in E /\ \A f \in E : ~EventBefore(e, f)
IsLargest(n, S) == n \in S /\ \A i \in S : i <= n

PropsOK(s, P) == \A x \in Elements : IsNewest(s.prop[x], PropEvents(P, x))
BirthsOK(s, P) == \A e \in Edges : IsNewest(s.birth[e], BirthEvents(P, e))
SeenOK(s, P) == \A w \in Writers : IsLargest(s.seen[w], SeenCounts(P, w))

LEMMA EventSets ==
    ASSUME NEW P, P \subseteq Patches, NEW x
    PROVE  PropEvents(P, x) \subseteq AllEvents /\ BirthEvents(P, x) \subseteq AllEvents
BY DEF PropEvents, BirthEvents, AllEvents, Patches

LEMMA CountSets ==
    ASSUME NEW P, P \subseteq Patches, NEW w \in Writers
    PROVE  SeenCounts(P, w) \subseteq Nat
BY DEF SeenCounts, Patches, Events, VersionVectors

(* LWWRegister.max of the newest of two sets is the newest of both.        *)
LEMMA NewestJoins ==
    ASSUME NEW E, NEW F, E \subseteq AllEvents, F \subseteq AllEvents,
           NEW e, IsNewest(e, E), NEW f, IsNewest(f, F)
    PROVE  IsNewest(LwwMax(e, f), E \cup F)
<1>1. e \in AllEvents /\ f \in AllEvents
  BY DEF IsNewest
<1>2. CASE EventBefore(e, f)
  <2>1. ~EventBefore(f, e)
    BY <1>1, <1>2, EventOrder
  <2>2. ASSUME NEW g \in E PROVE ~EventBefore(f, g)
    BY <1>1, <2>1, EventOrder DEF IsNewest
  <2> QED BY <1>2, <2>2 DEF IsNewest, LwwMax
<1>3. CASE ~EventBefore(e, f)
  <2>1. ASSUME NEW g \in F PROVE ~EventBefore(e, g)
    BY <1>1, <1>3, EventOrder DEF IsNewest
  <2> QED BY <1>3, <2>1 DEF IsNewest, LwwMax
<1> QED BY <1>2, <1>3

LEMMA LargestJoins ==
    ASSUME NEW S, NEW T, S \subseteq Nat, T \subseteq Nat,
           NEW i, IsLargest(i, S), NEW j, IsLargest(j, T)
    PROVE  IsLargest(Larger(i, j), S \cup T)
BY DEF IsLargest, Larger

LEMMA JoinRegisters ==
    ASSUME NEW s \in States, NEW t \in States, NEW P, NEW Q, P \subseteq Patches, Q \subseteq Patches,
           PropsOK(s, P), PropsOK(t, Q), BirthsOK(s, P), BirthsOK(t, Q), SeenOK(s, P), SeenOK(t, Q)
    PROVE  /\ PropsOK(JoinStates(s, t), P \cup Q)
           /\ BirthsOK(JoinStates(s, t), P \cup Q)
           /\ SeenOK(JoinStates(s, t), P \cup Q)
<1>1. ASSUME NEW x \in Elements
      PROVE  IsNewest(JoinStates(s, t).prop[x], PropEvents(P \cup Q, x))
  <2>1. PropEvents(P \cup Q, x) = PropEvents(P, x) \cup PropEvents(Q, x)
    BY DEF PropEvents
  <2>2. JoinStates(s, t).prop[x] = LwwMax(s.prop[x], t.prop[x])
    BY DEF JoinStates
  <2>3. IsNewest(LwwMax(s.prop[x], t.prop[x]), PropEvents(P, x) \cup PropEvents(Q, x))
    BY NewestJoins, EventSets DEF PropsOK
  <2> QED BY <2>1, <2>2, <2>3
<1>2. ASSUME NEW e \in Edges
      PROVE  IsNewest(JoinStates(s, t).birth[e], BirthEvents(P \cup Q, e))
  <2>1. BirthEvents(P \cup Q, e) = BirthEvents(P, e) \cup BirthEvents(Q, e)
    BY DEF BirthEvents
  <2>2. JoinStates(s, t).birth[e] = LwwMax(s.birth[e], t.birth[e])
    BY DEF JoinStates
  <2>3. IsNewest(LwwMax(s.birth[e], t.birth[e]), BirthEvents(P, e) \cup BirthEvents(Q, e))
    BY NewestJoins, EventSets DEF BirthsOK
  <2> QED BY <2>1, <2>2, <2>3
<1>3. ASSUME NEW w \in Writers
      PROVE  IsLargest(JoinStates(s, t).seen[w], SeenCounts(P \cup Q, w))
  <2>1. SeenCounts(P \cup Q, w) = SeenCounts(P, w) \cup SeenCounts(Q, w)
    BY DEF SeenCounts
  <2>2. JoinStates(s, t).seen[w] = Larger(s.seen[w], t.seen[w])
    BY DEF JoinStates, Merge
  <2>3. IsLargest(Larger(s.seen[w], t.seen[w]), SeenCounts(P, w) \cup SeenCounts(Q, w))
    BY LargestJoins, CountSets DEF SeenOK
  <2> QED BY <2>1, <2>2, <2>3
<1> QED BY <1>1, <1>2, <1>3 DEF PropsOK, BirthsOK, SeenOK

-----------------------------------------------------------------------------
(* A patch is a small state: applying it is joining that state. *)

Alone(p) == Apply(Empty, p)

LEMMA NoEventIsLeast ==
    ASSUME NEW e \in AllEvents
    PROVE  LwwMax(e, NoEvent) = e /\ LwwMax(NoEvent, e) = e
<1>1. CASE e \in Events
  <2>1. e.lamport \in Nat \ {0} /\ NoEvent.lamport = 0
    BY <1>1 DEF Events, NoEvent
  <2> QED BY <2>1 DEF LwwMax, EventBefore
<1>2. CASE e = NoEvent
  BY <1>2 DEF LwwMax
<1> QED BY <1>1, <1>2 DEF AllEvents

LEMMA ApplyTypes ==
    ASSUME NEW s \in States, NEW p \in Patches
    PROVE  Apply(s, p) \in States
<1>1. s.entries \cup p.adds \subseteq Elements \X Dots /\ s.tombstones \cup p.observed \subseteq Dots
  BY DEF States, Patches
<1>2. p.event \in Events /\ p.event.writer \in Writers /\ p.event.lamport \in Nat /\ p.context \in VersionVectors
      /\ s.prop \in [Elements -> Events \cup {NoEvent}] /\ s.birth \in [Edges -> Events \cup {NoEvent}]
      /\ s.seen \in VersionVectors
  BY DEF States, Patches, Events
<1>3. FoldPatch(s, p) \in VersionVectors
  BY <1>2 DEF FoldPatch, Merge, VersionVectors, Larger
<1>4. \A e \in AllEvents : LwwMax(e, p.event) \in AllEvents
  BY <1>2 DEF LwwMax, AllEvents
<1>5. [x \in Elements |-> IF x \in p.sets THEN LwwMax(s.prop[x], p.event) ELSE s.prop[x]]
        \in [Elements -> Events \cup {NoEvent}]
  BY <1>2, <1>4 DEF AllEvents
<1>6. [e \in Edges |-> IF \E y \in p.adds : y[1] = e THEN LwwMax(s.birth[e], p.event) ELSE s.birth[e]]
        \in [Edges -> Events \cup {NoEvent}]
  BY <1>2, <1>4 DEF AllEvents
<1> QED BY <1>1, <1>3, <1>5, <1>6 DEF Apply, WithProps, WithBirths, States

LEMMA EmptyTypes == Empty \in States
BY DEF Empty, States, VersionVectors

(* applyFast of a patch is WarpState.join with the state that the patch    *)
(* alone produces.                                                         *)
LEMMA ApplyIsJoin ==
    ASSUME NEW s \in States, NEW p \in Patches
    PROVE  Apply(s, p) = JoinStates(s, Alone(p))
<1>1. p.event \in AllEvents /\ p.event.writer \in Writers /\ p.event.lamport \in Nat /\ p.context \in VersionVectors
      /\ s.prop \in [Elements -> AllEvents] /\ s.birth \in [Edges -> AllEvents]
      /\ s.seen \in VersionVectors
  BY DEF States, Patches, Events, AllEvents
<1>2. ASSUME NEW x \in Elements
      PROVE  LwwMax(s.prop[x], Alone(p).prop[x]) = Apply(s, p).prop[x]
  <2>1. Alone(p).prop[x] = IF x \in p.sets THEN p.event ELSE NoEvent
    BY <1>1, NoEventIsLeast DEF Alone, Apply, WithProps, Empty
  <2>2. Apply(s, p).prop[x] = IF x \in p.sets THEN LwwMax(s.prop[x], p.event) ELSE s.prop[x]
    BY DEF Apply, WithProps
  <2> QED BY <1>1, <2>1, <2>2, NoEventIsLeast
<1>3. ASSUME NEW e \in Edges
      PROVE  LwwMax(s.birth[e], Alone(p).birth[e]) = Apply(s, p).birth[e]
  <2>1. Alone(p).birth[e] = IF \E y \in p.adds : y[1] = e THEN p.event ELSE NoEvent
    BY <1>1, NoEventIsLeast DEF Alone, Apply, WithBirths, Empty
  <2>2. Apply(s, p).birth[e] = IF \E y \in p.adds : y[1] = e THEN LwwMax(s.birth[e], p.event) ELSE s.birth[e]
    BY DEF Apply, WithBirths
  <2> QED BY <1>1, <2>1, <2>2, NoEventIsLeast
<1>4. ASSUME NEW w \in Writers
      PROVE  Larger(s.seen[w], Alone(p).seen[w]) = Apply(s, p).seen[w]
  <2>1. Alone(p).seen[w] = IF w = p.event.writer THEN Larger(p.context[w], p.event.lamport) ELSE p.context[w]
    BY <1>1 DEF Alone, Apply, FoldPatch, Merge, Empty, VersionVectors, Larger
  <2>2. Apply(s, p).seen[w] = IF w = p.event.writer THEN Larger(Larger(s.seen[w], p.context[w]), p.event.lamport)
                              ELSE Larger(s.seen[w], p.context[w])
    BY <1>1 DEF Apply, FoldPatch, Merge
  <2> QED BY <1>1, <2>1, <2>2 DEF VersionVectors, Larger
<1>5. JoinStates(s, Alone(p)).prop = Apply(s, p).prop
  <2>1. JoinStates(s, Alone(p)).prop = [x \in Elements |-> LwwMax(s.prop[x], Alone(p).prop[x])]
    BY DEF JoinStates
  <2>2. Apply(s, p).prop = [x \in Elements |-> Apply(s, p).prop[x]]
    BY DEF Apply, WithProps
  <2> QED BY <1>2, <2>1, <2>2
<1>6. JoinStates(s, Alone(p)).birth = Apply(s, p).birth
  <2>1. JoinStates(s, Alone(p)).birth = [e \in Edges |-> LwwMax(s.birth[e], Alone(p).birth[e])]
    BY DEF JoinStates
  <2>2. Apply(s, p).birth = [e \in Edges |-> Apply(s, p).birth[e]]
    BY DEF Apply, WithBirths
  <2> QED BY <1>3, <2>1, <2>2
<1>7. JoinStates(s, Alone(p)).seen = Apply(s, p).seen
  <2>1. JoinStates(s, Alone(p)).seen = [w \in Writers |-> Larger(s.seen[w], Alone(p).seen[w])]
    BY DEF JoinStates, Merge
  <2>2. Apply(s, p).seen = [w \in Writers |-> Apply(s, p).seen[w]]
    BY DEF Apply, FoldPatch, Merge
  <2> QED BY <1>4, <2>1, <2>2
<1>8. Alone(p).entries = p.adds /\ Alone(p).tombstones = p.observed
  BY DEF Alone, Apply, Empty
<1> QED BY <1>5, <1>6, <1>7, <1>8 DEF Apply, JoinStates

LEMMA AloneRegisters ==
    ASSUME NEW p \in Patches
    PROVE  PropsOK(Alone(p), {p}) /\ BirthsOK(Alone(p), {p}) /\ SeenOK(Alone(p), {p})
<1>1. p.event \in AllEvents /\ NoEvent \in AllEvents /\ p.event.writer \in Writers
      /\ p.event.lamport \in Nat /\ p.context \in VersionVectors
  BY DEF Patches, Events, AllEvents
<1>2. LwwMax(NoEvent, p.event) = p.event /\ ~EventBefore(p.event, NoEvent)
      /\ ~EventBefore(p.event, p.event) /\ ~EventBefore(NoEvent, NoEvent)
  <2>1. p.event.lamport # 0 /\ NoEvent.lamport = 0
    BY DEF Patches, Events, NoEvent
  <2> QED BY <1>1, <2>1, NoEventIsLeast, EventFields DEF EventBefore
<1>3. PropsOK(Alone(p), {p})
  BY <1>2 DEF PropsOK, IsNewest, PropEvents, Alone, Apply, WithProps, Empty
<1>4. BirthsOK(Alone(p), {p})
  BY <1>2 DEF BirthsOK, IsNewest, BirthEvents, Alone, Apply, WithBirths, Empty
<1>5. SeenOK(Alone(p), {p})
  BY <1>1 DEF SeenOK, IsLargest, SeenCounts, Alone, Apply, FoldPatch, Merge, Empty, VersionVectors, Larger
<1> QED BY <1>3, <1>4, <1>5

LEMMA ApplyRegisters ==
    ASSUME NEW s \in States, NEW p \in Patches, NEW P, P \subseteq Patches,
           PropsOK(s, P), BirthsOK(s, P), SeenOK(s, P)
    PROVE  /\ PropsOK(Apply(s, p), P \cup {p})
           /\ BirthsOK(Apply(s, p), P \cup {p})
           /\ SeenOK(Apply(s, p), P \cup {p})
<1>1. Alone(p) \in States
  BY ApplyTypes, EmptyTypes DEF Alone
<1>2. {p} \subseteq Patches
  OBVIOUS
<1>3. PropsOK(Alone(p), {p}) /\ BirthsOK(Alone(p), {p}) /\ SeenOK(Alone(p), {p})
  BY AloneRegisters
<1>4. /\ PropsOK(JoinStates(s, Alone(p)), P \cup {p})
      /\ BirthsOK(JoinStates(s, Alone(p)), P \cup {p})
      /\ SeenOK(JoinStates(s, Alone(p)), P \cup {p})
  BY <1>1, <1>2, <1>3, JoinRegisters
<1> QED BY <1>4, ApplyIsJoin

LEMMA JoinTypes ==
    ASSUME NEW s \in States, NEW t \in States
    PROVE  JoinStates(s, t) \in States
<1>1. /\ s.entries \cup t.entries \subseteq Elements \X Dots /\ s.tombstones \cup t.tombstones \subseteq Dots
      /\ Merge(s.seen, t.seen) \in VersionVectors
  BY DEF States, Merge, VersionVectors, Larger
<1>2. \A x \in Elements : LwwMax(s.prop[x], t.prop[x]) \in Events \cup {NoEvent}
  BY DEF States, LwwMax
<1>3. \A e \in Edges : LwwMax(s.birth[e], t.birth[e]) \in Events \cup {NoEvent}
  BY DEF States, LwwMax
<1> QED BY <1>1, <1>2, <1>3 DEF JoinStates, States

LEMMA CompactTypes ==
    ASSUME NEW s \in States, NEW gone
    PROVE  /\ Compact(s, gone) \in States
           /\ Compact(s, gone).entries = {y \in s.entries : y[2] \notin gone}
           /\ Compact(s, gone).tombstones = s.tombstones \ gone
           /\ Compact(s, gone).prop = s.prop /\ Compact(s, gone).birth = s.birth
           /\ Compact(s, gone).seen = s.seen
BY DEF Compact, States

-----------------------------------------------------------------------------
(* What a step does: a patch is written, or applied, or states are joined, *)
(* or a state is compacted. *)

Wrote(r, p) ==
    /\ p.event.writer = r
    /\ \A y \in p.adds : y[2][1] = r /\ st[r].seen[r] < y[2][2] /\ y[2][2] <= p.context[r]
    /\ \A y, z \in p.adds : y[2] = z[2] => y = z
    /\ p.observed \subseteq {y[2] : y \in st[r].entries}
    /\ \A w \in Writers : st[r].seen[w] <= p.context[w]
    /\ log' = log \cup {p}
    /\ has' = [has EXCEPT ![r] = @ \cup {p}]
    /\ st' = [st EXCEPT ![r] = Apply(@, p)]
    /\ past' = past

Applied(r, p) ==
    /\ p \in log
    /\ log' = log
    /\ has' = [has EXCEPT ![r] = @ \cup {p}]
    /\ st' = [st EXCEPT ![r] = Apply(@, p)]
    /\ past' = [past EXCEPT ![r] = IF p \in has[r] /\ past[r] = "compacted" THEN "mixed" ELSE past[r]]

LEMMA CommitWrites ==
    ASSUME TypeOK, NEW r \in Writers, NEW adds \in SUBSET (Elements \X Dots), NEW observed \in SUBSET Dots,
           NEW sets \in SUBSET Elements, NEW context \in VersionVectors,
           Commit(r, adds, observed, sets, context),
           \A y \in adds : y[2][1] = r /\ st[r].seen[r] < y[2][2] /\ y[2][2] <= context[r],
           \A y, z \in adds : y[2] = z[2] => y = z,
           observed \subseteq {y[2] : y \in st[r].entries},
           \A w \in Writers : st[r].seen[w] <= context[w]
    PROVE  (\E p \in Patches : Wrote(r, p)) /\ clock' \in [Writers -> Nat]
<1> DEFINE p == [event |-> [lamport |-> NextLamport(r), writer |-> r], adds |-> adds,
                 observed |-> observed, sets |-> sets, context |-> context]
<1>1. NextLamport(r) \in Nat \ {0}
  BY DEF TypeOK, NextLamport
<1>2. p \in Patches
  BY <1>1 DEF Patches, Events
<1>3. clock' \in [Writers -> Nat]
  BY <1>1 DEF Commit, TypeOK
<1>4. p.event.writer = r /\ p.adds = adds /\ p.observed = observed /\ p.context = context
  OBVIOUS
<1>5. /\ log' = log \cup {p} /\ has' = [has EXCEPT ![r] = @ \cup {p}] /\ st' = [st EXCEPT ![r] = Apply(@, p)]
      /\ past' = past
  BY DEF Commit
<1>6. Wrote(r, p)
  <2> HIDE DEF p
  <2> QED BY <1>4, <1>5 DEF Wrote
<1> QED BY <1>2, <1>3, <1>6

LEMMA AddWrites ==
    ASSUME TypeOK, NEW r \in Writers, NEW n \in 1..MaxAdds[r], NEW xs \in [1..n -> Elements], Add(r, xs)
    PROVE  (\E p \in Patches : Wrote(r, p)) /\ clock' \in [Writers -> Nat]
<1> DEFINE seen == st[r].seen
           adds == {<<xs[i], NextDot(r, i)>> : i \in DOMAIN xs}
           context == [seen EXCEPT ![r] = @ + Cardinality(DOMAIN xs)]
<1>1. seen \in [Writers -> Nat]
  BY DEF TypeOK, States, VersionVectors
<1>2. DOMAIN xs = 1..n /\ n \in Nat /\ Cardinality(1..n) = n
  <2>1. n \in Nat
    BY WarpStateAssumption
  <2>2. Cardinality(1..n) = n
    BY <2>1, FS_Interval
  <2> QED BY <2>1, <2>2
<1>3. context \in VersionVectors /\ context[r] = seen[r] + n
      /\ \A w \in Writers : seen[w] <= context[w]
  BY <1>1, <1>2 DEF VersionVectors
<1>4. \A i \in 1..n : NextDot(r, i) = <<r, seen[r] + i>> /\ seen[r] + i \in Nat
  BY <1>1 DEF NextDot
<1>5. adds \in SUBSET (Elements \X Dots)
  BY <1>2, <1>4 DEF Dots
<1>6. \A y \in adds : \E i \in 1..n : y = <<xs[i], <<r, seen[r] + i>>>>
  BY <1>2, <1>4
<1>7. \A y \in adds : y[2][1] = r /\ seen[r] < y[2][2] /\ y[2][2] <= context[r]
  BY <1>1, <1>3, <1>6
<1>8. \A y, z \in adds : y[2] = z[2] => y = z
  <2> SUFFICES ASSUME NEW y \in adds, NEW z \in adds, y[2] = z[2] PROVE y = z
    OBVIOUS
  <2>1. PICK i \in 1..n : y = <<xs[i], <<r, seen[r] + i>>>>
    BY <1>6
  <2>2. PICK j \in 1..n : z = <<xs[j], <<r, seen[r] + j>>>>
    BY <1>6
  <2>3. y[2][2] = seen[r] + i /\ z[2][2] = seen[r] + j
    BY <2>1, <2>2
  <2>4. i = j
    BY <1>1, <2>3
  <2> QED BY <2>1, <2>2, <2>4
<1>9. Commit(r, adds, {}, {}, context)
  BY DEF Add
<1> HIDE DEF adds, context
<1> QED BY <1>3, <1>5, <1>7, <1>8, <1>9, CommitWrites

LEMMA RemoveWrites ==
    ASSUME TypeOK, NEW r \in Writers, NEW x \in Elements, NEW cascade \in BOOLEAN, RemoveNode(r, x, cascade)
    PROVE  (\E p \in Patches : Wrote(r, p)) /\ clock' \in [Writers -> Nat]
<1> DEFINE observed == UNION {GetDots(st[r], y) : y \in {x} \cup (IF cascade THEN AttachedEdges(x) ELSE {})}
<1>1. observed \subseteq {y[2] : y \in st[r].entries}
  BY DEF GetDots
<1>2. observed \in SUBSET Dots
  BY <1>1 DEF TypeOK, States
<1>3. st[r].seen \in VersionVectors /\ \A w \in Writers : st[r].seen[w] <= st[r].seen[w]
  BY DEF TypeOK, States, VersionVectors
<1>4. Commit(r, {}, observed, {}, st[r].seen)
  BY DEF RemoveNode
<1> HIDE DEF observed
<1> QED BY <1>1, <1>2, <1>3, <1>4, CommitWrites

LEMMA SetWrites ==
    ASSUME TypeOK, NEW r \in Writers, NEW x \in Elements, SetProperty(r, x)
    PROVE  (\E p \in Patches : Wrote(r, p)) /\ clock' \in [Writers -> Nat]
<1>1. st[r].seen \in VersionVectors /\ \A w \in Writers : st[r].seen[w] <= st[r].seen[w]
  BY DEF TypeOK, States, VersionVectors
<1>2. Commit(r, {}, {}, {x}, st[r].seen)
  BY DEF SetProperty
<1> QED BY <1>1, <1>2, CommitWrites

LEMMA DeliverApplies ==
    ASSUME TypeOK, NEW r \in Writers, NEW p \in log, NEW raises \in BOOLEAN, Deliver(r, p, raises)
    PROVE  Applied(r, p) /\ clock' \in [Writers -> Nat]
<1>1. p.event.lamport \in Nat
  BY DEF TypeOK, Patches, Events
<1> QED BY <1>1 DEF Deliver, Becomes, Applied, TypeOK, Larger

(* Every step is one of four, and keeps the clocks natural numbers.        *)
LEMMA StepKinds ==
    ASSUME TypeOK, Next
    PROVE  /\ clock' \in [Writers -> Nat]
           /\ \E r \in Writers :
                \/ \E p \in Patches : Wrote(r, p)
                \/ \E p \in log : Applied(r, p)
                \/ \E t \in Writers : Join(r, t)
                \/ RunGC(r)
<1> PICK r \in Writers :
        \/ \E n \in 1..MaxAdds[r] : \E xs \in [1..n -> Elements] : Add(r, xs)
        \/ \E x \in Elements, cascade \in BOOLEAN : RemoveNode(r, x, cascade)
        \/ \E x \in Elements : SetProperty(r, x)
        \/ \E p \in log, raises \in BOOLEAN : Deliver(r, p, raises)
        \/ \E t \in Writers : Join(r, t)
        \/ RunGC(r)
  BY DEF Next
<1>1. CASE \E n \in 1..MaxAdds[r] : \E xs \in [1..n -> Elements] : Add(r, xs)
  BY <1>1, AddWrites
<1>2. CASE \E x \in Elements, cascade \in BOOLEAN : RemoveNode(r, x, cascade)
  BY <1>2, RemoveWrites
<1>3. CASE \E x \in Elements : SetProperty(r, x)
  BY <1>3, SetWrites
<1>4. CASE \E p \in log, raises \in BOOLEAN : Deliver(r, p, raises)
  BY <1>4, DeliverApplies
<1>5. CASE \E t \in Writers : Join(r, t)
  BY <1>5 DEF Join, TypeOK
<1>6. CASE RunGC(r)
  BY <1>6 DEF RunGC, TypeOK
<1> QED BY <1>1, <1>2, <1>3, <1>4, <1>5, <1>6

-----------------------------------------------------------------------------
(* The invariants of every replica. *)

RegistersOK ==
    \A r \in Writers : PropsOK(st[r], has[r]) /\ BirthsOK(st[r], has[r]) /\ SeenOK(st[r], has[r])

(* A replica holds its own patches; a patch's context covers its dots.     *)
OwnPatches == \A p \in log : p \in has[p.event.writer]
ContextCovers ==
    \A p \in log :
        /\ \A y \in p.adds : y[2][1] = p.event.writer /\ y[2][2] <= p.context[y[2][1]]
        /\ \A d \in p.observed : d[2] <= p.context[d[1]]

(* Nothing is in a state that no patch put there. *)
NothingElse ==
    \A r \in Writers : st[r].entries \subseteq Added(has[r]) /\ st[r].tombstones \subseteq Removed(has[r])

StateInv == TypeOK /\ RegistersOK /\ OwnPatches /\ ContextCovers /\ NothingElse /\ DotsUnique

LEMMA InitEstablishes == Init => StateInv
<1> SUFFICES ASSUME Init PROVE StateInv
  OBVIOUS
<1>1. TypeOK
  BY EmptyTypes DEF Init, TypeOK
<1>2. \A r \in Writers : st[r] = Empty /\ has[r] = {}
  BY DEF Init
<1>3. ~EventBefore(NoEvent, NoEvent)
  BY DEF EventBefore, NoEvent
<1>4. PropsOK(Empty, {}) /\ BirthsOK(Empty, {})
  BY <1>3 DEF PropsOK, BirthsOK, IsNewest, PropEvents, BirthEvents, Empty
<1>5. SeenOK(Empty, {})
  BY DEF SeenOK, IsLargest, SeenCounts, Empty
<1>6. NothingElse
  BY <1>2 DEF NothingElse, Empty
<1> QED BY <1>1, <1>2, <1>4, <1>5, <1>6 DEF Init, StateInv, RegistersOK, OwnPatches, ContextCovers, DotsUnique

(* The frontier covers the contexts of the patches and the dots. *)
LEMMA FrontierCovers ==
    ASSUME StateInv, NEW r \in Writers
    PROVE  /\ \A p \in has[r], w \in Writers : p.context[w] <= st[r].seen[w]
           /\ \A p \in has[r] : \A y \in p.adds : y[2][2] <= st[r].seen[y[2][1]]
           /\ \A p \in has[r] : \A d \in p.observed : d[2] <= st[r].seen[d[1]]
           /\ \A y \in st[r].entries : y[2][2] <= st[r].seen[y[2][1]]
           /\ \A d \in st[r].tombstones : d[2] <= st[r].seen[d[1]]
<1>1. \A p \in has[r], w \in Writers : p.context[w] <= st[r].seen[w]
  BY DEF StateInv, RegistersOK, SeenOK, IsLargest, SeenCounts
<1>2. has[r] \subseteq log /\ log \subseteq Patches /\ st[r].seen \in [Writers -> Nat]
  BY DEF StateInv, TypeOK, States, VersionVectors
<1>3. \A p \in has[r] : \A y \in p.adds : y[2][2] <= st[r].seen[y[2][1]]
  <2> SUFFICES ASSUME NEW p \in has[r], NEW y \in p.adds PROVE y[2][2] <= st[r].seen[y[2][1]]
    OBVIOUS
  <2>1. y[2][1] \in Writers /\ y[2][2] \in Nat /\ p.context \in [Writers -> Nat]
    BY <1>2 DEF Patches, Dots, VersionVectors
  <2>2. y[2][2] <= p.context[y[2][1]]
    BY <1>2 DEF StateInv, ContextCovers
  <2> QED BY <1>1, <1>2, <2>1, <2>2
<1>4. \A p \in has[r] : \A d \in p.observed : d[2] <= st[r].seen[d[1]]
  <2> SUFFICES ASSUME NEW p \in has[r], NEW d \in p.observed PROVE d[2] <= st[r].seen[d[1]]
    OBVIOUS
  <2>1. d[1] \in Writers /\ d[2] \in Nat /\ p.context \in [Writers -> Nat]
    BY <1>2 DEF Patches, Dots, VersionVectors
  <2>2. d[2] <= p.context[d[1]]
    BY <1>2 DEF StateInv, ContextCovers
  <2> QED BY <1>1, <1>2, <2>1, <2>2
<1>5. \A y \in st[r].entries : y[2][2] <= st[r].seen[y[2][1]]
  BY <1>3 DEF StateInv, NothingElse, Added
<1>6. \A d \in st[r].tombstones : d[2] <= st[r].seen[d[1]]
  BY <1>4 DEF StateInv, NothingElse, Removed
<1> QED BY <1>1, <1>3, <1>4, <1>5, <1>6

LEMMA SetsOfApply ==
    ASSUME NEW s, NEW p
    PROVE  /\ Apply(s, p).entries = s.entries \cup p.adds
           /\ Apply(s, p).tombstones = s.tombstones \cup p.observed
BY DEF Apply

LEMMA SetsOfUnion ==
    ASSUME NEW P, NEW p
    PROVE  Added(P \cup {p}) = Added(P) \cup p.adds /\ Removed(P \cup {p}) = Removed(P) \cup p.observed
BY DEF Added, Removed

LEMMA ApplyAddsNothingElse ==
    ASSUME NEW s, NEW p, NEW P, s.entries \subseteq Added(P), s.tombstones \subseteq Removed(P)
    PROVE  /\ Apply(s, p).entries \subseteq Added(P \cup {p})
           /\ Apply(s, p).tombstones \subseteq Removed(P \cup {p})
<1>1. Apply(s, p).entries = s.entries \cup p.adds /\ Apply(s, p).tombstones = s.tombstones \cup p.observed
  BY SetsOfApply
<1>2. Added(P \cup {p}) = Added(P) \cup p.adds /\ Removed(P \cup {p}) = Removed(P) \cup p.observed
  BY SetsOfUnion
<1> QED BY <1>1, <1>2

(* The dots of a new patch are new to its writer and to the log. *)
LEMMA NewDots ==
    ASSUME StateInv, NEW r \in Writers, NEW p \in Patches, Wrote(r, p), NEW y \in p.adds
    PROVE  /\ \A q \in log : \A z \in q.adds : z[2] # y[2]
           /\ y[2] \notin Removed(has[r])
           /\ \A z \in Added(has[r]) : z[2] # y[2]
<1>1. y[2][1] = r /\ st[r].seen[r] < y[2][2] /\ y[2][2] \in Nat
  BY DEF Wrote, Patches, Dots
<1>2. st[r].seen[r] \in Nat
  BY DEF StateInv, TypeOK, States, VersionVectors
<1>3. ASSUME NEW q \in log, NEW z \in q.adds, z[2] = y[2] PROVE FALSE
  <2>1. q \in Patches /\ q.event.writer = r
    BY <1>1, <1>3 DEF StateInv, ContextCovers, TypeOK
  <2>2. q \in has[r]
    BY <2>1 DEF StateInv, OwnPatches
  <2>3. z[2][2] <= st[r].seen[r]
    BY <1>1, <1>3, <2>2, FrontierCovers
  <2> QED BY <1>1, <1>2, <1>3, <2>3
<1>4. y[2] \notin Removed(has[r])
  <2> SUFFICES ASSUME NEW q \in has[r], y[2] \in q.observed PROVE FALSE
    BY DEF Removed
  <2>1. y[2][2] <= st[r].seen[y[2][1]]
    BY FrontierCovers
  <2> QED BY <1>1, <1>2, <2>1
<1>5. has[r] \subseteq log
  BY DEF StateInv, TypeOK
<1> QED BY <1>3, <1>4, <1>5 DEF Added

-----------------------------------------------------------------------------
(* The four kinds of step preserve the invariant. *)

LEMMA WritePreserves ==
    ASSUME StateInv, clock' \in [Writers -> Nat], NEW r \in Writers, NEW p \in Patches, Wrote(r, p)
    PROVE  StateInv'
<1>1. \A q \in Writers : st[q] \in States /\ has[q] \subseteq log /\ has[q] \subseteq Patches
  BY DEF StateInv, TypeOK
<1>2. /\ st'[r] = Apply(st[r], p) /\ has'[r] = has[r] \cup {p} /\ log' = log \cup {p}
      /\ \A q \in Writers \ {r} : st'[q] = st[q] /\ has'[q] = has[q]
  BY DEF Wrote, StateInv, TypeOK
<1>3. TypeOK'
  BY <1>1, <1>2, ApplyTypes DEF StateInv, TypeOK, Wrote
<1>4. RegistersOK'
  <2>1. PropsOK(st[r], has[r]) /\ BirthsOK(st[r], has[r]) /\ SeenOK(st[r], has[r])
    BY DEF StateInv, RegistersOK
  <2>2. /\ PropsOK(Apply(st[r], p), has[r] \cup {p}) /\ BirthsOK(Apply(st[r], p), has[r] \cup {p})
        /\ SeenOK(Apply(st[r], p), has[r] \cup {p})
    BY <1>1, <2>1, ApplyRegisters
  <2> QED BY <1>2, <2>2 DEF StateInv, RegistersOK
<1>5. OwnPatches'
  <2> SUFFICES ASSUME NEW q \in log' PROVE q \in has'[q.event.writer]
    BY DEF OwnPatches
  <2>1. CASE q = p
    BY <1>2, <2>1 DEF Wrote
  <2>2. CASE q \in log
    <3>1. q.event.writer \in Writers /\ q \in has[q.event.writer]
      BY <2>2 DEF StateInv, OwnPatches, TypeOK, Patches, Events
    <3> QED BY <1>2, <3>1
  <2> QED BY <1>2, <2>1, <2>2
<1>6. ContextCovers'
  <2>1. \A y \in p.adds : y[2][1] = p.event.writer /\ y[2][2] <= p.context[y[2][1]]
    BY DEF Wrote
  <2>2. ASSUME NEW d \in p.observed PROVE d[2] <= p.context[d[1]]
    <3>1. PICK y \in st[r].entries : d = y[2]
      BY DEF Wrote
    <3>2. d[2] <= st[r].seen[d[1]] /\ d[1] \in Writers /\ d[2] \in Nat
      BY <3>1, FrontierCovers DEF Patches, Dots
    <3>3. st[r].seen[d[1]] <= p.context[d[1]] /\ st[r].seen[d[1]] \in Nat /\ p.context[d[1]] \in Nat
      BY <1>1, <3>2 DEF Wrote, States, Patches, VersionVectors
    <3> QED BY <3>2, <3>3
  <2> QED BY <1>2, <2>1, <2>2 DEF StateInv, ContextCovers
<1>7. NothingElse'
  <2>1. st[r].entries \subseteq Added(has[r]) /\ st[r].tombstones \subseteq Removed(has[r])
    BY DEF StateInv, NothingElse
  <2>2. /\ Apply(st[r], p).entries \subseteq Added(has[r] \cup {p})
        /\ Apply(st[r], p).tombstones \subseteq Removed(has[r] \cup {p})
    BY <2>1, ApplyAddsNothingElse
  <2> QED BY <1>2, <2>2 DEF StateInv, NothingElse
<1>8. DotsUnique'
  <2> SUFFICES ASSUME NEW q1 \in log', NEW q2 \in log', NEW y \in q1.adds, NEW z \in q2.adds, y[2] = z[2]
               PROVE  q1 = q2 /\ y = z
    BY DEF DotsUnique
  <2>1. CASE q1 \in log /\ q2 \in log
    BY <2>1 DEF StateInv, DotsUnique
  <2>2. CASE q1 = p /\ q2 = p
    BY <2>2 DEF Wrote
  <2>3. CASE q1 = p /\ q2 \in log
    BY <2>3, NewDots
  <2>4. CASE q1 \in log /\ q2 = p
    BY <2>4, NewDots
  <2> QED BY <1>2, <2>1, <2>2, <2>3, <2>4
<1> QED BY <1>3, <1>4, <1>5, <1>6, <1>7, <1>8 DEF StateInv

LEMMA ApplyPreserves ==
    ASSUME StateInv, clock' \in [Writers -> Nat], NEW r \in Writers, NEW p \in log, Applied(r, p)
    PROVE  StateInv'
<1>1. p \in Patches /\ \A q \in Writers : st[q] \in States /\ has[q] \subseteq log /\ has[q] \subseteq Patches
  BY DEF StateInv, TypeOK
<1>2. /\ st'[r] = Apply(st[r], p) /\ has'[r] = has[r] \cup {p} /\ log' = log
      /\ \A q \in Writers \ {r} : st'[q] = st[q] /\ has'[q] = has[q]
  BY DEF Applied, StateInv, TypeOK
<1>3. TypeOK'
  BY <1>1, <1>2, ApplyTypes DEF StateInv, TypeOK, Applied
<1>4. RegistersOK'
  <2>1. PropsOK(st[r], has[r]) /\ BirthsOK(st[r], has[r]) /\ SeenOK(st[r], has[r])
    BY DEF StateInv, RegistersOK
  <2>2. /\ PropsOK(Apply(st[r], p), has[r] \cup {p}) /\ BirthsOK(Apply(st[r], p), has[r] \cup {p})
        /\ SeenOK(Apply(st[r], p), has[r] \cup {p})
    BY <1>1, <2>1, ApplyRegisters
  <2> QED BY <1>2, <2>2 DEF StateInv, RegistersOK
<1>5. OwnPatches'
  <2> SUFFICES ASSUME NEW q \in log PROVE q \in has'[q.event.writer]
    BY <1>2 DEF OwnPatches
  <2>1. q.event.writer \in Writers /\ q \in has[q.event.writer]
    BY DEF StateInv, OwnPatches, TypeOK, Patches, Events
  <2> QED BY <1>2, <2>1
<1>6. ContextCovers' /\ DotsUnique'
  BY <1>2 DEF StateInv, ContextCovers, DotsUnique
<1>7. NothingElse'
  <2>1. st[r].entries \subseteq Added(has[r]) /\ st[r].tombstones \subseteq Removed(has[r])
    BY DEF StateInv, NothingElse
  <2>2. /\ Apply(st[r], p).entries \subseteq Added(has[r] \cup {p})
        /\ Apply(st[r], p).tombstones \subseteq Removed(has[r] \cup {p})
    BY <2>1, ApplyAddsNothingElse
  <2> QED BY <1>2, <2>2 DEF StateInv, NothingElse
<1> QED BY <1>3, <1>4, <1>5, <1>6, <1>7 DEF StateInv

LEMMA JoinPreserves ==
    ASSUME StateInv, NEW r \in Writers, NEW t \in Writers, Join(r, t)
    PROVE  StateInv'
<1>1. \A q \in Writers : st[q] \in States /\ has[q] \subseteq log /\ has[q] \subseteq Patches
  BY DEF StateInv, TypeOK
<1>2. /\ st'[r] = JoinStates(st[r], st[t]) /\ has'[r] = has[r] \cup has[t] /\ log' = log
      /\ \A q \in Writers \ {r} : st'[q] = st[q] /\ has'[q] = has[q]
  BY DEF Join, StateInv, TypeOK
<1>3. TypeOK'
  BY <1>1, <1>2, JoinTypes DEF StateInv, TypeOK, Join, Becomes
<1>4. RegistersOK'
  <2>1. \A q \in Writers : PropsOK(st[q], has[q]) /\ BirthsOK(st[q], has[q]) /\ SeenOK(st[q], has[q])
    BY DEF StateInv, RegistersOK
  <2>2. /\ PropsOK(JoinStates(st[r], st[t]), has[r] \cup has[t])
        /\ BirthsOK(JoinStates(st[r], st[t]), has[r] \cup has[t])
        /\ SeenOK(JoinStates(st[r], st[t]), has[r] \cup has[t])
    BY <1>1, <2>1, JoinRegisters
  <2> QED BY <1>2, <2>1, <2>2 DEF RegistersOK
<1>5. OwnPatches'
  <2> SUFFICES ASSUME NEW q \in log PROVE q \in has'[q.event.writer]
    BY <1>2 DEF OwnPatches
  <2>1. q.event.writer \in Writers /\ q \in has[q.event.writer]
    BY DEF StateInv, OwnPatches, TypeOK, Patches, Events
  <2> QED BY <1>2, <2>1
<1>6. ContextCovers' /\ DotsUnique'
  BY <1>2 DEF StateInv, ContextCovers, DotsUnique
<1>7. NothingElse'
  <2>1. /\ Added(has[r] \cup has[t]) = Added(has[r]) \cup Added(has[t])
        /\ Removed(has[r] \cup has[t]) = Removed(has[r]) \cup Removed(has[t])
    BY DEF Added, Removed
  <2>2. /\ JoinStates(st[r], st[t]).entries = st[r].entries \cup st[t].entries
        /\ JoinStates(st[r], st[t]).tombstones = st[r].tombstones \cup st[t].tombstones
    BY DEF JoinStates
  <2>3. /\ st'[r].entries \subseteq Added(has'[r])
        /\ st'[r].tombstones \subseteq Removed(has'[r])
    BY <1>2, <2>1, <2>2 DEF StateInv, NothingElse
  <2> QED BY <1>2, <2>3 DEF StateInv, NothingElse
<1> QED BY <1>3, <1>4, <1>5, <1>6, <1>7 DEF StateInv

LEMMA GCPreserves ==
    ASSUME StateInv, NEW r \in Writers, RunGC(r)
    PROVE  StateInv'
<1>1. st[r] \in States
  BY DEF StateInv, TypeOK
<1>2. /\ st'[r] = Compact(st[r], Compactable(st[r])) /\ has' = has /\ log' = log /\ clock' = clock
      /\ \A q \in Writers \ {r} : st'[q] = st[q]
  BY DEF RunGC, StateInv, TypeOK
<1>3. TypeOK'
  BY <1>1, <1>2, CompactTypes DEF StateInv, TypeOK, RunGC, Becomes
<1>4. RegistersOK'
  <2>1. st'[r].prop = st[r].prop /\ st'[r].birth = st[r].birth /\ st'[r].seen = st[r].seen
    BY <1>1, <1>2, CompactTypes
  <2> QED BY <1>2, <2>1 DEF StateInv, RegistersOK, PropsOK, BirthsOK, SeenOK
<1>5. NothingElse'
  <2>1. st'[r].entries \subseteq st[r].entries /\ st'[r].tombstones \subseteq st[r].tombstones
    BY <1>1, <1>2, CompactTypes
  <2> QED BY <1>2, <2>1 DEF StateInv, NothingElse
<1>6. OwnPatches' /\ ContextCovers' /\ DotsUnique'
  BY <1>2 DEF StateInv, OwnPatches, ContextCovers, DotsUnique
<1> QED BY <1>3, <1>4, <1>5, <1>6 DEF StateInv

LEMMA NextPreserves == StateInv /\ [Next]_vars => StateInv'
<1> SUFFICES ASSUME StateInv, [Next]_vars PROVE StateInv'
  OBVIOUS
<1>1. CASE Next
  <2>1. TypeOK
    BY DEF StateInv
  <2> QED BY <1>1, <2>1, StepKinds, WritePreserves, ApplyPreserves, JoinPreserves, GCPreserves
<1>2. CASE UNCHANGED vars
  BY <1>2 DEF vars, StateInv, TypeOK, RegistersOK, OwnPatches, ContextCovers, NothingElse, DotsUnique
<1> QED BY <1>1, <1>2

(* Replicas, logs and clocks keep their types, for any writers, elements   *)
(* and bounds.                                                             *)
THEOREM StateTypes == Spec => []TypeOK
<1>1. StateInv => TypeOK
  BY DEF StateInv
<1> QED BY <1>1, InitEstablishes, NextPreserves, PTL DEF Spec

(* No two adds share a dot: a writer that goes by the frontier of its      *)
(* state (VersionVector.increment) never repeats one, whatever it receives *)
(* or joins and however it compacts.                                       *)
THEOREM DotsAreUnique == Spec => []DotsUnique
<1>1. StateInv => DotsUnique
  BY DEF StateInv
<1> QED BY <1>1, InitEstablishes, NextPreserves, PTL DEF Spec

(* The observed frontier covers every dot of the state: foldPatch takes    *)
(* the context, and removes name only dots their writer had seen.          *)
THEOREM FrontiersCover == Spec => []SeenCoversDots
<1>1. StateInv => SeenCoversDots
  BY FrontierCovers DEF SeenCoversDots
<1> QED BY <1>1, InitEstablishes, NextPreserves, PTL DEF Spec

-----------------------------------------------------------------------------
(* Registers and frontiers are what the patches mean, always. *)

LEMMA RegistersAreMeaning ==
    ASSUME StateInv, NEW r \in Writers
    PROVE  /\ st[r].prop = Meaning(has[r]).prop
           /\ st[r].birth = Meaning(has[r]).birth
           /\ st[r].seen = Meaning(has[r]).seen
<1>1. st[r] \in States /\ has[r] \subseteq Patches
  BY DEF StateInv, TypeOK
<1>2. PropsOK(st[r], has[r]) /\ BirthsOK(st[r], has[r]) /\ SeenOK(st[r], has[r])
  BY DEF StateInv, RegistersOK
<1>3. ASSUME NEW x \in Elements PROVE st[r].prop[x] = Newest(PropEvents(has[r], x))
  BY <1>1, <1>2, EventSets, NewestIs DEF PropsOK, IsNewest
<1>4. ASSUME NEW e \in Edges PROVE st[r].birth[e] = Newest(BirthEvents(has[r], e))
  BY <1>1, <1>2, EventSets, NewestIs DEF BirthsOK, IsNewest
<1>5. ASSUME NEW w \in Writers PROVE st[r].seen[w] = Max(SeenCounts(has[r], w))
  BY <1>1, <1>2, CountSets, MaxIs DEF SeenOK, IsLargest
<1>6. st[r].prop = [x \in Elements |-> Newest(PropEvents(has[r], x))]
  BY <1>1, <1>3 DEF States
<1>7. st[r].birth = [e \in Edges |-> Newest(BirthEvents(has[r], e))]
  BY <1>1, <1>4 DEF States
<1>8. st[r].seen = [w \in Writers |-> Max(SeenCounts(has[r], w))]
  BY <1>1, <1>5 DEF States, VersionVectors
<1> QED BY <1>6, <1>7, <1>8 DEF Meaning, PropEvents, BirthEvents, SeenCounts

-----------------------------------------------------------------------------
(* Where nothing was compacted the sets are what the patches mean, too. *)

SetsOK(s, P) == s.entries = Added(P) /\ s.tombstones = Removed(P)

SetsAreMeaning == \A r \in Writers : past[r] = "whole" => SetsOK(st[r], has[r])

LEMMA ApplySetsAreMeaning ==
    ASSUME NEW s, NEW p, NEW P, SetsOK(s, P)
    PROVE  SetsOK(Apply(s, p), P \cup {p})
<1>1. Apply(s, p).entries = s.entries \cup p.adds /\ Apply(s, p).tombstones = s.tombstones \cup p.observed
  BY SetsOfApply
<1>2. Added(P \cup {p}) = Added(P) \cup p.adds /\ Removed(P \cup {p}) = Removed(P) \cup p.observed
  BY SetsOfUnion
<1> QED BY <1>1, <1>2 DEF SetsOK

LEMMA JoinSetsAreMeaning ==
    ASSUME NEW s, NEW t, NEW P, NEW Q, SetsOK(s, P), SetsOK(t, Q)
    PROVE  SetsOK(JoinStates(s, t), P \cup Q)
<1>1. Added(P \cup Q) = Added(P) \cup Added(Q) /\ Removed(P \cup Q) = Removed(P) \cup Removed(Q)
  BY DEF Added, Removed
<1>2. /\ JoinStates(s, t).entries = s.entries \cup t.entries
      /\ JoinStates(s, t).tombstones = s.tombstones \cup t.tombstones
  BY DEF JoinStates
<1> QED BY <1>1, <1>2 DEF SetsOK

(* runGC that finds nothing to compact changes nothing. *)
LEMMA IdleSetsAreMeaning ==
    ASSUME NEW s \in States, NEW P, SetsOK(s, P), Compactable(s) = {}
    PROVE  SetsOK(Compact(s, Compactable(s)), P)
<1>1. /\ Compact(s, {}).entries = {y \in s.entries : y[2] \notin {}}
      /\ Compact(s, {}).tombstones = s.tombstones \ {}
  BY CompactTypes
<1>2. Compact(s, {}).entries = s.entries /\ Compact(s, {}).tombstones = s.tombstones
  BY <1>1
<1> QED BY <1>2 DEF SetsOK

(* What a step of r does to the history of a replica. *)
MovesHistory(r) ==
    /\ \A q \in Writers \ {r} : st'[q] = st[q] /\ has'[q] = has[q] /\ past'[q] = past[q]
    /\ \/ \E p \in Patches : Wrote(r, p) /\ past'[r] = past[r]
       \/ \E p \in log : Applied(r, p) /\ past'[r] = (IF p \in has[r] /\ past[r] = "compacted"
                                                     THEN "mixed" ELSE past[r])
       \/ \E t \in Writers : Join(r, t) /\ past'[r] = (IF past[r] = "whole" /\ past[t] = "whole"
                                                     THEN "whole" ELSE "mixed")
       \/ RunGC(r) /\ past'[r] = (IF past[r] = "whole" /\ Compactable(st[r]) # {}
                                   THEN "compacted" ELSE past[r])

LEMMA HistoryStep ==
    ASSUME StateInv, Next
    PROVE  \E r \in Writers : MovesHistory(r)
<1>1. PICK r \in Writers : \/ \E p \in Patches : Wrote(r, p)
                           \/ \E p \in log : Applied(r, p)
                           \/ \E t \in Writers : Join(r, t)
                           \/ RunGC(r)
  BY StepKinds DEF StateInv
<1>2. DOMAIN st = Writers /\ DOMAIN has = Writers /\ DOMAIN past = Writers
  BY DEF StateInv, TypeOK
<1>3. ASSUME NEW p \in Patches, Wrote(r, p)
      PROVE  /\ \A q \in Writers \ {r} : st'[q] = st[q] /\ has'[q] = has[q] /\ past'[q] = past[q]
             /\ past'[r] = past[r]
  BY <1>2, <1>3 DEF Wrote
<1>4. ASSUME NEW p \in log, Applied(r, p)
      PROVE  /\ \A q \in Writers \ {r} : st'[q] = st[q] /\ has'[q] = has[q] /\ past'[q] = past[q]
             /\ past'[r] = IF p \in has[r] /\ past[r] = "compacted" THEN "mixed" ELSE past[r]
  BY <1>2, <1>4 DEF Applied
<1>5. ASSUME NEW t \in Writers, Join(r, t)
      PROVE  /\ \A q \in Writers \ {r} : st'[q] = st[q] /\ has'[q] = has[q] /\ past'[q] = past[q]
             /\ past'[r] = IF past[r] = "whole" /\ past[t] = "whole" THEN "whole" ELSE "mixed"
  BY <1>2, <1>5 DEF Join, Becomes
<1>6. ASSUME RunGC(r)
      PROVE  /\ \A q \in Writers \ {r} : st'[q] = st[q] /\ has'[q] = has[q] /\ past'[q] = past[q]
             /\ past'[r] = IF past[r] = "whole" /\ Compactable(st[r]) # {} THEN "compacted" ELSE past[r]
  BY <1>2, <1>6 DEF RunGC, Becomes
<1> QED BY <1>1, <1>3, <1>4, <1>5, <1>6 DEF MovesHistory

LEMMA SetsStep ==
    ASSUME StateInv, SetsAreMeaning, [Next]_vars
    PROVE  SetsAreMeaning'
<1>1. CASE UNCHANGED vars
  BY <1>1 DEF vars, SetsAreMeaning
<1>2. CASE Next
  <2>1. PICK r \in Writers : MovesHistory(r)
    BY <1>2, HistoryStep
  <2> SUFFICES ASSUME past'[r] = "whole" PROVE SetsOK(st'[r], has'[r])
    BY <2>1 DEF SetsAreMeaning, MovesHistory
  <2>2. ASSUME NEW p, st' = [st EXCEPT ![r] = Apply(@, p)], has' = [has EXCEPT ![r] = @ \cup {p}], past[r] = "whole"
        PROVE  SetsOK(st'[r], has'[r])
    <3>1. st'[r] = Apply(st[r], p) /\ has'[r] = has[r] \cup {p}
      BY <2>2 DEF StateInv, TypeOK
    <3> QED BY <2>2, <3>1, ApplySetsAreMeaning DEF SetsAreMeaning
  <2>3. CASE \E p \in Patches : Wrote(r, p) /\ past'[r] = past[r]
    BY <2>2, <2>3 DEF Wrote
  <2>4. CASE \E p \in log : Applied(r, p) /\ past'[r] = (IF p \in has[r] /\ past[r] = "compacted"
                                                       THEN "mixed" ELSE past[r])
    BY <2>2, <2>4 DEF Applied
  <2>5. ASSUME NEW t \in Writers, Join(r, t),
               past'[r] = IF past[r] = "whole" /\ past[t] = "whole" THEN "whole" ELSE "mixed"
        PROVE  SetsOK(st'[r], has'[r])
    <3>1. st'[r] = JoinStates(st[r], st[t]) /\ has'[r] = has[r] \cup has[t]
      BY <2>5 DEF Join, StateInv, TypeOK
    <3>2. past[r] = "whole" /\ past[t] = "whole"
      BY <2>5
    <3> QED BY <3>1, <3>2, JoinSetsAreMeaning DEF SetsAreMeaning
  <2>6. CASE RunGC(r) /\ past'[r] = (IF past[r] = "whole" /\ Compactable(st[r]) # {}
                                     THEN "compacted" ELSE past[r])
    <3>1. st'[r] = Compact(st[r], Compactable(st[r])) /\ has'[r] = has[r] /\ st[r] \in States
      BY <2>6 DEF RunGC, StateInv, TypeOK
    <3>2. past[r] = "whole" /\ Compactable(st[r]) = {}
      BY <2>6
    <3> QED BY <3>1, <3>2, IdleSetsAreMeaning DEF SetsAreMeaning
  <2> QED BY <2>1, <2>3, <2>4, <2>5, <2>6 DEF MovesHistory
<1> QED BY <1>1, <1>2

LEMMA InitSetsAreMeaning == Init => SetsAreMeaning
<1>1. SetsOK(Empty, {})
  BY DEF SetsOK, Empty, Added, Removed
<1> QED BY <1>1 DEF Init, SetsAreMeaning

(* Replicas converge: with any interleaving of writes, deliveries, repeats *)
(* and joins, the state of a replica is determined by the set of patches   *)
(* in it (reducePatches, applyFast and WarpState.join agree), whatever     *)
(* other replicas have compacted.                                          *)
THEOREM ReplicasConverge == Spec => []StateIsMeaning
<1>1. Init => StateInv /\ SetsAreMeaning
  BY InitSetsAreMeaning, InitEstablishes
<1>2. (StateInv /\ SetsAreMeaning) /\ [Next]_vars => (StateInv /\ SetsAreMeaning)'
  BY NextPreserves, SetsStep
<1>3. StateInv /\ SetsAreMeaning => StateIsMeaning
  <2> SUFFICES ASSUME StateInv, SetsAreMeaning, NEW r \in Writers, past[r] = "whole"
               PROVE  st[r] = Meaning(has[r])
    BY DEF StateIsMeaning
  <2>1. /\ st[r].prop = Meaning(has[r]).prop /\ st[r].birth = Meaning(has[r]).birth
        /\ st[r].seen = Meaning(has[r]).seen
    BY RegistersAreMeaning
  <2>2. st[r].entries = Meaning(has[r]).entries /\ st[r].tombstones = Meaning(has[r]).tombstones
    BY DEF SetsAreMeaning, SetsOK, Meaning
  <2>3. st[r] = [entries |-> st[r].entries, tombstones |-> st[r].tombstones, prop |-> st[r].prop,
                 birth |-> st[r].birth, seen |-> st[r].seen]
    BY DEF StateInv, TypeOK, States
  <2>4. Meaning(has[r]) = [entries |-> Meaning(has[r]).entries, tombstones |-> Meaning(has[r]).tombstones,
                           prop |-> Meaning(has[r]).prop, birth |-> Meaning(has[r]).birth,
                           seen |-> Meaning(has[r]).seen]
    BY DEF Meaning
  <2> QED BY <2>1, <2>2, <2>3, <2>4
<1> QED BY <1>1, <1>2, <1>3, PTL DEF Spec

-----------------------------------------------------------------------------
(* Where something was compacted: what may be missing is dead. *)

(* An add that was not removed has its entry. *)
LiveKept(s, P) == \A y \in Added(P) : y[2] \notin Removed(P) => y \in s.entries

(* An entry that was removed has its tombstone. *)
DeadMarked(s, P) == \A y \in s.entries : y[2] \in Removed(P) => y[2] \in s.tombstones

(* The remove of an add that has not arrived is remembered. *)
EarlyRemovesKept(s, P) ==
    \A d \in Removed(P) : (\A y \in Added(P) : y[2] # d) => d \in s.tombstones

DeadDropped(s, P) == LiveKept(s, P) /\ DeadMarked(s, P) /\ EarlyRemovesKept(s, P)

CompactInv == \A r \in Writers : past[r] # "mixed" => DeadDropped(st[r], has[r])

LEMMA SetsDropNothing ==
    ASSUME NEW s, NEW P, SetsOK(s, P)
    PROVE  DeadDropped(s, P)
BY DEF SetsOK, DeadDropped, LiveKept, DeadMarked, EarlyRemovesKept

(* A patch that is new to the replica, with dots that are new to it. *)
LEMMA ApplyKeepsCompact ==
    ASSUME NEW s, NEW p, NEW P,
           DeadDropped(s, P),
           \A y \in p.adds : \A z \in Added(P) : z[2] # y[2]
    PROVE  DeadDropped(Apply(s, p), P \cup {p})
<1>0. LiveKept(s, P) /\ DeadMarked(s, P) /\ EarlyRemovesKept(s, P)
  BY DEF DeadDropped
<1>1. Apply(s, p).entries = s.entries \cup p.adds /\ Apply(s, p).tombstones = s.tombstones \cup p.observed
  BY SetsOfApply
<1>2. Added(P \cup {p}) = Added(P) \cup p.adds /\ Removed(P \cup {p}) = Removed(P) \cup p.observed
  BY SetsOfUnion
<1>3. LiveKept(Apply(s, p), P \cup {p})
  BY <1>0, <1>1, <1>2 DEF LiveKept
<1>4. DeadMarked(Apply(s, p), P \cup {p})
  <2> SUFFICES ASSUME NEW y \in s.entries \cup p.adds, y[2] \in Removed(P)
               PROVE  y[2] \in s.tombstones
    BY <1>1, <1>2 DEF DeadMarked
  <2>1. CASE y \in s.entries
    BY <1>0, <2>1 DEF DeadMarked
  <2>2. CASE y \in p.adds
    BY <1>0, <2>2 DEF EarlyRemovesKept
  <2> QED BY <2>1, <2>2
<1>5. EarlyRemovesKept(Apply(s, p), P \cup {p})
  BY <1>0, <1>1, <1>2 DEF EarlyRemovesKept
<1> QED BY <1>3, <1>4, <1>5 DEF DeadDropped

LEMMA CompactKeepsCompact ==
    ASSUME NEW s \in States, NEW P, s.entries \subseteq Added(P), s.tombstones \subseteq Removed(P),
           DeadDropped(s, P)
    PROVE  DeadDropped(Compact(s, Compactable(s)), P)
<1>0. LiveKept(s, P) /\ DeadMarked(s, P) /\ EarlyRemovesKept(s, P)
  BY DEF DeadDropped
<1> DEFINE gone == Compactable(s)
<1>1. \A d \in gone : d \in s.tombstones /\ \E y \in s.entries : y[2] = d
  BY DEF Compactable
<1> HIDE DEF gone
<1>2. /\ Compact(s, gone).entries = {y \in s.entries : y[2] \notin gone}
      /\ Compact(s, gone).tombstones = s.tombstones \ gone
  BY CompactTypes
<1>3. LiveKept(Compact(s, gone), P)
  BY <1>0, <1>1, <1>2 DEF LiveKept
<1>4. DeadMarked(Compact(s, gone), P)
  BY <1>0, <1>2 DEF DeadMarked
<1>5. EarlyRemovesKept(Compact(s, gone), P)
  BY <1>0, <1>1, <1>2 DEF EarlyRemovesKept
<1> QED BY <1>3, <1>4, <1>5 DEF gone, DeadDropped

LEMMA CompactStep ==
    ASSUME StateInv, SetsAreMeaning, CompactInv, [Next]_vars
    PROVE  CompactInv'
<1>1. CASE UNCHANGED vars
  BY <1>1 DEF vars, CompactInv
<1>2. CASE Next
  <2>1. PICK r \in Writers : MovesHistory(r)
    BY <1>2, HistoryStep
  <2> SUFFICES ASSUME past'[r] # "mixed" PROVE DeadDropped(st'[r], has'[r])
    BY <2>1 DEF CompactInv, MovesHistory
  <2>2. CASE past'[r] = "whole"
    <3>1. SetsAreMeaning'
      BY SetsStep
    <3> QED BY <2>2, <3>1, SetsDropNothing DEF SetsAreMeaning
  <2>3. ASSUME NEW p, st' = [st EXCEPT ![r] = Apply(@, p)], has' = [has EXCEPT ![r] = @ \cup {p}],
               past[r] # "mixed", \A y \in p.adds : \A z \in Added(has[r]) : z[2] # y[2]
        PROVE  DeadDropped(st'[r], has'[r])
    <3>1. st'[r] = Apply(st[r], p) /\ has'[r] = has[r] \cup {p}
      BY <2>3 DEF StateInv, TypeOK
    <3>2. DeadDropped(st[r], has[r])
      BY <2>3 DEF CompactInv
    <3> QED BY <2>3, <3>1, <3>2, ApplyKeepsCompact
  <2>4. ASSUME NEW p \in Patches, Wrote(r, p), past'[r] = past[r]
        PROVE  DeadDropped(st'[r], has'[r])
    <3>1. \A y \in p.adds : \A z \in Added(has[r]) : z[2] # y[2]
      BY <2>4, NewDots
    <3> QED BY <2>3, <2>4, <3>1 DEF Wrote
  <2>5. ASSUME NEW p \in log, Applied(r, p), past'[r] # "whole",
               past'[r] = IF p \in has[r] /\ past[r] = "compacted" THEN "mixed" ELSE past[r]
        PROVE  DeadDropped(st'[r], has'[r])
    <3>1. past[r] = "compacted" /\ p \notin has[r] /\ has[r] \subseteq log
      BY <2>5 DEF StateInv, TypeOK
    <3>2. \A y \in p.adds : \A z \in Added(has[r]) : z[2] # y[2]
      <4> SUFFICES ASSUME NEW y \in p.adds, NEW q \in has[r], NEW z \in q.adds, z[2] = y[2] PROVE FALSE
        BY DEF Added
      <4>1. q = p
        BY <3>1 DEF StateInv, DotsUnique
      <4> QED BY <3>1, <4>1
    <3> QED BY <2>3, <2>5, <3>1, <3>2 DEF Applied
  <2>6. ASSUME RunGC(r), past[r] # "mixed"
        PROVE  DeadDropped(st'[r], has'[r])
    <3>1. st'[r] = Compact(st[r], Compactable(st[r])) /\ has'[r] = has[r]
      BY <2>6 DEF RunGC, StateInv, TypeOK
    <3>2. /\ st[r] \in States /\ st[r].entries \subseteq Added(has[r]) /\ st[r].tombstones \subseteq Removed(has[r])
          /\ DeadDropped(st[r], has[r])
      BY <2>6 DEF StateInv, TypeOK, NothingElse, CompactInv
    <3> QED BY <3>1, <3>2, CompactKeepsCompact
  <2> QED BY <2>1, <2>2, <2>4, <2>5, <2>6 DEF MovesHistory
<1> QED BY <1>1, <1>2

(* The dots that keep an element alive are those of the meaning. *)
LEMMA DotsAreMeaning ==
    ASSUME StateInv, CompactInv, NEW r \in Writers, past[r] # "mixed", NEW x
    PROVE  GetDots(st[r], x) = GetDots(Meaning(has[r]), x)
<1>1. Meaning(has[r]).entries = Added(has[r]) /\ Meaning(has[r]).tombstones = Removed(has[r])
  BY DEF Meaning
<1>2. /\ st[r].entries \subseteq Added(has[r]) /\ st[r].tombstones \subseteq Removed(has[r])
      /\ LiveKept(st[r], has[r]) /\ DeadMarked(st[r], has[r])
  BY DEF StateInv, NothingElse, CompactInv, DeadDropped
<1>3. ASSUME NEW d \in GetDots(st[r], x) PROVE d \in GetDots(Meaning(has[r]), x)
  <2>1. PICK y \in st[r].entries : y[1] = x /\ y[2] = d /\ d \notin st[r].tombstones
    BY DEF GetDots
  <2>2. y \in Added(has[r]) /\ d \notin Removed(has[r])
    BY <1>2, <2>1 DEF DeadMarked
  <2> QED BY <1>1, <2>1, <2>2 DEF GetDots
<1>4. ASSUME NEW d \in GetDots(Meaning(has[r]), x) PROVE d \in GetDots(st[r], x)
  <2>1. PICK y \in Added(has[r]) : y[1] = x /\ y[2] = d /\ d \notin Removed(has[r])
    BY <1>1 DEF GetDots
  <2>2. y \in st[r].entries /\ d \notin st[r].tombstones
    BY <1>2, <2>1 DEF LiveKept
  <2> QED BY <2>1, <2>2 DEF GetDots
<1> QED BY <1>3, <1>4

(* Compaction is invisible: a reader sees exactly what the patches mean,   *)
(* although runGC forgets tombstones that other replicas have yet to       *)
(* receive, as long as the compacted state is not joined with another and  *)
(* is given no patch a second time.                                        *)
THEOREM CompactionIsInvisible == Spec => []ViewIsMeaning
<1> DEFINE Inv == StateInv /\ SetsAreMeaning /\ CompactInv
<1>1. Init => Inv
  <2>1. SetsAreMeaning => CompactInv \/ ~(\A r \in Writers : past[r] = "whole")
    BY SetsDropNothing DEF SetsAreMeaning, CompactInv
  <2> QED BY <2>1, InitSetsAreMeaning, InitEstablishes DEF Init
<1>2. Inv /\ [Next]_vars => Inv'
  BY NextPreserves, SetsStep, CompactStep
<1>3. StateInv /\ CompactInv => ViewIsMeaning
  <2> SUFFICES ASSUME StateInv, CompactInv, NEW r \in Writers, past[r] # "mixed"
               PROVE  View(st[r]) = View(Meaning(has[r]))
    BY DEF ViewIsMeaning
  <2>1. st[r].prop = Meaning(has[r]).prop /\ st[r].birth = Meaning(has[r]).birth
    BY RegistersAreMeaning
  <2>2. ASSUME NEW x PROVE Alive(st[r], x) <=> Alive(Meaning(has[r]), x)
    BY DotsAreMeaning DEF Alive
  <2>3. ASSUME NEW x \in Elements PROVE Visible(st[r], x) <=> Visible(Meaning(has[r]), x)
    BY <2>2 DEF Visible
  <2>4. ASSUME NEW x \in Elements PROVE Shown(st[r], x) = Shown(Meaning(has[r]), x)
    BY <2>1, <2>3 DEF Shown
  <2> QED BY <2>3, <2>4 DEF View
<1> QED BY <1>1, <1>2, <1>3, PTL DEF Spec

-----------------------------------------------------------------------------
(* Paths: the prefixes of the routes *)

LEMMA LeastNumber ==
  ASSUME NEW T \in SUBSET Nat, T # {}
  PROVE  \E i \in T : \A j \in T : i <= j
<1> DEFINE R == OpToRel(<, Nat)
<1>1. IsWellFoundedOn(R, Nat)  BY NatLessThanWellFounded
<1>2. \A i, j \in Nat : <<i, j>> \in R <=> i < j  BY DEF OpToRel
<1> HIDE DEF R
<1>3. PICK i \in T : \A j \in T : ~(<<j, i>> \in R)  BY <1>1, WFMin
<1>4. i \in Nat /\ \A j \in T : j \in Nat  OBVIOUS
<1>5. \A j \in T : ~(j < i)  BY <1>2, <1>3, <1>4, Zenon
<1> QED BY <1>4, <1>5

LEMMA UpTo ==
  ASSUME NEW S, 0 \in S, \A n \in Nat : n \in S => n + 1 \in S
  PROVE  \A n \in Nat : n \in S
<1> SUFFICES ASSUME Nat \ S # {} PROVE FALSE  OBVIOUS
<1>1. PICK i \in Nat \ S : \A j \in Nat \ S : i <= j  BY LeastNumber
<1>2. i # 0 /\ i - 1 \in Nat  BY <1>1
<1>3. i - 1 \in S  BY <1>1, <1>2
<1> QED BY <1>1, <1>2, <1>3

(* The first d nibbles of the route of x. *)
Start(x, d) == SubSeq(Route[x], 1, d)

LEMMA RouteOf ==
  ASSUME NEW x \in PagedIds
  PROVE  Route[x] \in Seq(Nat) /\ Len(Route[x]) = Depth /\ Depth \in Nat /\ Depth > 0
BY TrieSessionAssumption

LEMMA StartOf ==
  ASSUME NEW x \in PagedIds, NEW d \in 0..Depth
  PROVE  /\ Start(x, d) \in Paths /\ Start(x, d) \in Seq(Nat) /\ Len(Start(x, d)) = d
         /\ \A i \in 1..d : Start(x, d)[i] = Route[x][i]
<1>1. Route[x] \in Seq(Nat) /\ Len(Route[x]) = Depth /\ Depth \in Nat  BY RouteOf
<1>2. Start(x, d) \in Seq(Nat) /\ Len(Start(x, d)) = d
      /\ \A i \in 1..d : Start(x, d)[i] = Route[x][i]
    BY <1>1 DEF Start
<1> QED BY <1>2 DEF Start, Paths

LEMMA PathIsStart ==
  ASSUME NEW p \in Paths
  PROVE  /\ p \in Seq(Nat) /\ Len(p) \in 0..Depth /\ Depth \in Nat
         /\ \E x \in PagedIds : p = Start(x, Len(p))
<1>1. PICK x \in PagedIds, d \in 0..Depth : p = Start(x, d)  BY DEF Paths, Start
<1>2. Len(p) = d /\ p \in Seq(Nat)  BY <1>1, StartOf
<1> QED BY <1>1, <1>2, RouteOf

LEMMA SameSequence ==
  ASSUME NEW s \in Seq(Nat), NEW t \in Seq(Nat), Len(s) = Len(t),
         \A i \in 1..Len(s) : s[i] = t[i]
  PROVE  s = t
BY SeqEqual

LEMMA PrefixIs ==
  ASSUME NEW s \in Seq(Nat), NEW t \in Seq(Nat)
  PROVE  IsPrefix(s, t) <=> Len(s) <= Len(t) /\ \A i \in 1..Len(s) : s[i] = t[i]
<1>1. ASSUME Len(s) <= Len(t)
      PROVE  /\ SubSeq(s, 1, Len(s)) \in Seq(Nat) /\ SubSeq(t, 1, Len(s)) \in Seq(Nat)
             /\ Len(SubSeq(s, 1, Len(s))) = Len(s) /\ Len(SubSeq(t, 1, Len(s))) = Len(s)
             /\ \A i \in 1..Len(s) : SubSeq(s, 1, Len(s))[i] = s[i] /\ SubSeq(t, 1, Len(s))[i] = t[i]
    BY <1>1
<1>2. CASE Len(s) <= Len(t)
  <2>1. ASSUME \A i \in 1..Len(s) : s[i] = t[i]
        PROVE  SubSeq(s, 1, Len(s)) = SubSeq(t, 1, Len(s))
      BY <1>1, <1>2, <2>1, SameSequence
  <2>2. ASSUME SubSeq(s, 1, Len(s)) = SubSeq(t, 1, Len(s)), NEW i \in 1..Len(s)
        PROVE  s[i] = t[i]
      BY <1>1, <1>2, <2>2
  <2> QED BY <1>2, <2>1, <2>2 DEF IsPrefix
<1> QED BY <1>2 DEF IsPrefix

(* The paths along a route: one of each length. *)
LEMMA AlongIs ==
  ASSUME NEW x \in PagedIds
  PROVE  /\ \A p : p \in Along(x) <=> p \in Paths /\ IsPrefix(p, Route[x])
         /\ \A d \in 0..Depth : Start(x, d) \in Along(x)
         /\ \A p \in Along(x) : p \in Paths /\ Len(p) \in 0..Depth /\ p = Start(x, Len(p))
<1>0. Route[x] \in Seq(Nat) /\ Len(Route[x]) = Depth /\ Depth \in Nat  BY RouteOf
<1>1. ASSUME NEW d \in 0..Depth PROVE Start(x, d) \in Along(x)
  <2>1. Start(x, d) \in Paths /\ Start(x, d) \in Seq(Nat) /\ Len(Start(x, d)) = d
        /\ \A i \in 1..d : Start(x, d)[i] = Route[x][i]
      BY StartOf
  <2>2. IsPrefix(Start(x, d), Route[x])  BY <1>0, <2>1, PrefixIs
  <2> QED BY <2>1, <2>2 DEF Along
<1>2. ASSUME NEW p \in Along(x)
      PROVE  p \in Paths /\ Len(p) \in 0..Depth /\ p = Start(x, Len(p))
  <2>1. p \in Paths /\ IsPrefix(p, Route[x])  BY DEF Along
  <2>2. p \in Seq(Nat) /\ Len(p) \in 0..Depth  BY <2>1, PathIsStart
  <2>3. \A i \in 1..Len(p) : p[i] = Route[x][i]  BY <1>0, <2>1, <2>2, PrefixIs
  <2>4. Start(x, Len(p)) \in Seq(Nat) /\ Len(Start(x, Len(p))) = Len(p)
        /\ \A i \in 1..Len(p) : Start(x, Len(p))[i] = Route[x][i]
      BY <2>2, StartOf
  <2> QED BY <2>1, <2>2, <2>3, <2>4, SameSequence
<1> QED BY <1>1, <1>2 DEF Along

LEMMA RootPath ==
  ASSUME NEW x \in PagedIds
  PROVE  << >> \in Along(x) /\ << >> \in Paths /\ Start(x, 0) = << >>
<1>1. 0 \in 0..Depth  BY RouteOf
<1>2. Start(x, 0) \in Seq(Nat) /\ Len(Start(x, 0)) = 0  BY <1>1, StartOf
<1>3. Start(x, 0) = << >>  BY <1>2
<1> QED BY <1>1, <1>3, AlongIs

LEMMA EmptyPath ==
  ASSUME NEW p \in Paths
  PROVE  (p = << >> <=> Len(p) = 0) /\ << >> \in Paths
<1>1. p \in Seq(Nat) /\ \E x \in PagedIds : TRUE  BY PathIsStart
<1> QED BY <1>1, RootPath

LEMMA FrontOf ==
  ASSUME NEW s \in Seq(Nat), Len(s) > 0
  PROVE  /\ Front(s) \in Seq(Nat) /\ Len(Front(s)) = Len(s) - 1
         /\ \A i \in 1..(Len(s) - 1) : Front(s)[i] = s[i]
<1>1. Len(s) \in Nat /\ Len(s) - 1 \in Nat /\ 1 \in Int /\ Len(s) - 1 \in Int  OBVIOUS
<1>2. \A i \in 1..(Len(s) - 1) : s[i] \in Nat  OBVIOUS
<1>3. /\ SubSeq(s, 1, Len(s) - 1) \in Seq(Nat)
      /\ Len(SubSeq(s, 1, Len(s) - 1)) = IF 1 <= Len(s) - 1 THEN (Len(s) - 1) - 1 + 1 ELSE 0
      /\ \A i \in 1..((Len(s) - 1) - 1 + 1) : SubSeq(s, 1, Len(s) - 1)[i] = s[1 + i - 1]
    BY <1>1, <1>2, SubSeqProperties
<1>4. \A i \in 1..(Len(s) - 1) : i \in 1..((Len(s) - 1) - 1 + 1) /\ 1 + i - 1 = i  BY <1>1
<1>5. \A i \in 1..(Len(s) - 1) : SubSeq(s, 1, Len(s) - 1)[i] = s[i]  BY <1>3, <1>4
<1>6. Len(SubSeq(s, 1, Len(s) - 1)) = Len(s) - 1
  <2> DEFINE k == Len(s) - 1
             l == Len(SubSeq(s, 1, k))
  <2>1. k \in Nat /\ l = IF 1 <= k THEN k - 1 + 1 ELSE 0  BY <1>1, <1>3
  <2> HIDE DEF k, l
  <2>2. l = k  BY <2>1
  <2> QED BY <2>2 DEF k, l
<1> QED BY <1>3, <1>5, <1>6 DEF Front

(* The parent of a path, and the nibble under which it has the path. *)
LEMMA ParentOf ==
  ASSUME NEW p \in Paths, p # << >>
  PROVE  /\ Front(p) \in Paths /\ Len(Front(p)) = Len(p) - 1 /\ Len(p) \in 1..Depth
         /\ Append(Front(p), Last(p)) = p
         /\ \A x \in PagedIds : p \in Along(x) => Front(p) \in Along(x) /\ Last(p) = Route[x][Len(p)]
<1>0. Len(p) \in 1..Depth /\ Depth \in Nat /\ p \in Seq(Nat)  BY PathIsStart, EmptyPath
<1>1. PICK x \in PagedIds : p = Start(x, Len(p))  BY PathIsStart
<1>2. ASSUME NEW y \in PagedIds, p = Start(y, Len(p))
      PROVE  Front(p) = Start(y, Len(p) - 1) /\ Last(p) = Route[y][Len(p)]
  <2>0. Len(p) - 1 \in 0..Depth /\ Len(p) \in 0..Depth  BY <1>0
  <2>1. Start(y, Len(p) - 1) \in Seq(Nat) /\ Len(Start(y, Len(p) - 1)) = Len(p) - 1
        /\ \A i \in 1..(Len(p) - 1) : Start(y, Len(p) - 1)[i] = Route[y][i]
      BY <2>0, StartOf
  <2>2. \A i \in 1..Len(p) : p[i] = Route[y][i]
      BY <1>0, <1>2, <2>0, StartOf
  <2>3. Front(p) \in Seq(Nat) /\ Len(Front(p)) = Len(p) - 1
        /\ \A i \in 1..(Len(p) - 1) : Front(p)[i] = p[i]
      BY <1>0, FrontOf
  <2>4. \A i \in 1..(Len(p) - 1) : i \in 1..Len(p)  BY <1>0
  <2>5. Front(p) = Start(y, Len(p) - 1)  BY <2>1, <2>2, <2>3, <2>4, SameSequence
  <2> QED BY <1>0, <2>2, <2>5 DEF Last
<1>3. Front(p) \in Paths /\ Len(Front(p)) = Len(p) - 1
    BY <1>0, <1>1, <1>2, StartOf
<1>4. Append(Front(p), Last(p)) = p
  <2>1. Front(p) \in Seq(Nat) /\ \A i \in 1..(Len(p) - 1) : Front(p)[i] = p[i]
      BY <1>0, FrontOf
  <2>2. Last(p) = p[Len(p)] /\ Last(p) \in Nat  BY <1>0 DEF Last
  <2>3. Append(Front(p), Last(p)) \in Seq(Nat) /\ Len(Append(Front(p), Last(p))) = Len(p)
        /\ \A i \in 1..Len(p) : Append(Front(p), Last(p))[i] = p[i]
      BY <1>0, <1>3, <2>1, <2>2
  <2> QED BY <1>0, <2>3, SameSequence
<1>5. ASSUME NEW y \in PagedIds, p \in Along(y)
      PROVE  Front(p) \in Along(y) /\ Last(p) = Route[y][Len(p)]
  <2>1. p = Start(y, Len(p))  BY <1>5, AlongIs
  <2>2. Len(p) - 1 \in 0..Depth  BY <1>0
  <2> QED BY <1>2, <1>5, <2>1, <2>2, AlongIs
<1> QED BY <1>0, <1>3, <1>4, <1>5

LEMMA ChildOf ==
  ASSUME NEW p \in Paths, NEW n, Append(p, n) \in Paths
  PROVE  /\ Append(p, n) # << >> /\ Front(Append(p, n)) = p /\ Last(Append(p, n)) = n
         /\ Len(Append(p, n)) = Len(p) + 1
<1>1. p \in Seq(Nat) /\ Append(p, n) \in Seq(Nat)  BY PathIsStart
<1>2. Append(p, n) # << >> /\ Len(Append(p, n)) = Len(p) + 1 /\ Last(Append(p, n)) = n
  <2>1. p \in Seq(Nat \cup {n})  BY <1>1, SeqMonotonic
  <2> QED BY <2>1 DEF Last
<1>3. Front(Append(p, n)) = p
  <2>1. p \in Seq(Nat \cup {n}) /\ Append(p, n) \in Seq(Nat \cup {n})
    <3>1. p \in Seq(Nat \cup {n})  BY <1>1
    <3> QED BY <3>1
  <2>2. \A i \in 1..Len(p) : Append(p, n)[i] = p[i]  BY <2>1
  <2> DEFINE t == Append(p, n)
  <2>3. t \in Seq(Nat) /\ Len(t) = Len(p) + 1 /\ \A i \in 1..Len(p) : t[i] = p[i]
      BY <1>1, <1>2, <2>2
  <2> HIDE DEF t
  <2>4. Len(p) \in Nat /\ Len(t) > 0 /\ Len(t) - 1 = Len(p)  BY <1>1, <2>3
  <2>5. Front(t) \in Seq(Nat) /\ Len(Front(t)) = Len(p) /\ \A i \in 1..Len(p) : Front(t)[i] = t[i]
    <3>1. Front(t) \in Seq(Nat) /\ Len(Front(t)) = Len(t) - 1
          /\ \A i \in 1..(Len(t) - 1) : Front(t)[i] = t[i]
        BY <2>3, <2>4, FrontOf
    <3> QED BY <2>4, <3>1
  <2>6. Front(t) = p  BY <1>1, <2>3, <2>5, SameSequence
  <2> QED BY <2>6 DEF t
<1> QED BY <1>2, <1>3

(* A route goes on below every path that is not the whole of it. *)
LEMMA GoesOn ==
  ASSUME NEW x \in PagedIds, NEW p \in Along(x), Len(p) < Depth
  PROVE  Append(p, Route[x][Len(p) + 1]) \in Along(x)
<1>1. Route[x] \in Seq(Nat) /\ Len(Route[x]) = Depth /\ Depth \in Nat  BY RouteOf
<1>2. p \in Paths /\ p \in Seq(Nat) /\ Len(p) \in 0..Depth /\ p = Start(x, Len(p))
    BY AlongIs, PathIsStart
<1>3. Len(p) + 1 \in 0..Depth /\ Len(p) + 1 \in 1..Depth  BY <1>1, <1>2
<1>4. Start(x, Len(p) + 1) \in Seq(Nat) /\ Len(Start(x, Len(p) + 1)) = Len(p) + 1
      /\ \A i \in 1..(Len(p) + 1) : Start(x, Len(p) + 1)[i] = Route[x][i]
    BY <1>3, StartOf
<1>5. \A i \in 1..Len(p) : p[i] = Route[x][i]  BY <1>2, StartOf
<1>6. Route[x][Len(p) + 1] \in Nat  BY <1>1, <1>3
<1>7. Append(p, Route[x][Len(p) + 1]) \in Seq(Nat)
      /\ Len(Append(p, Route[x][Len(p) + 1])) = Len(p) + 1
      /\ \A i \in 1..(Len(p) + 1) : Append(p, Route[x][Len(p) + 1])[i] = Route[x][i]
    BY <1>2, <1>5, <1>6
<1>8. Append(p, Route[x][Len(p) + 1]) = Start(x, Len(p) + 1)
    BY <1>4, <1>7, SameSequence
<1> QED BY <1>3, <1>8, AlongIs

-----------------------------------------------------------------------------
(* The order of the paths: one above another *)

LEMMA PathSeq == ASSUME NEW p \in Paths PROVE p \in Seq(Nat) /\ Len(p) \in Nat /\ Len(p) <= Depth /\ Depth \in Nat
BY PathIsStart

LEMMA PathLen == ASSUME NEW p \in Paths PROVE Len(p) \in Nat /\ Len(p) <= Depth /\ Depth \in Nat
BY PathIsStart

LEMMA AboveItself == ASSUME NEW p \in Paths PROVE IsPrefix(p, p)
BY PathSeq, PrefixIs

LEMMA RootIsAbove == ASSUME NEW p \in Paths PROVE IsPrefix(<< >>, p)
<1> DEFINE e == << >>
<1>1. p \in Seq(Nat) /\ e \in Seq(Nat) /\ Len(e) = 0 /\ Len(p) \in Nat  BY PathSeq
<1> HIDE DEF e
<1>2. Len(e) <= Len(p) /\ 1..Len(e) = {}  BY <1>1
<1>3. IsPrefix(e, p)  BY <1>1, <1>2, PrefixIs
<1> QED BY <1>3 DEF e

LEMMA AboveIsShorter ==
  ASSUME NEW p \in Paths, NEW q \in Paths, IsPrefix(p, q)
  PROVE  Len(p) <= Len(q) /\ (Len(p) = Len(q) => p = q)
<1>1. p \in Seq(Nat) /\ q \in Seq(Nat)  BY PathSeq
<1>2. Len(p) <= Len(q) /\ \A i \in 1..Len(p) : p[i] = q[i]  BY <1>1, PrefixIs
<1> QED BY <1>1, <1>2, SameSequence

LEMMA StrictlyAbove ==
  ASSUME NEW p \in Paths, NEW q \in Paths, IsStrictPrefix(p, q)
  PROVE  Len(p) < Len(q) /\ q # << >> /\ IsPrefix(p, q) /\ p # q
<1>1. IsPrefix(p, q) /\ p # q  BY DEF IsStrictPrefix
<1>2. Len(p) \in Nat /\ Len(q) \in Nat /\ Len(p) < Len(q)  BY <1>1, AboveIsShorter, PathLen
<1>3. Len(q) # 0  BY <1>2
<1> QED BY <1>1, <1>2, <1>3, EmptyPath

LEMMA AboveAbove ==
  ASSUME NEW p \in Paths, NEW q \in Paths, NEW r \in Paths, IsPrefix(p, q), IsPrefix(q, r)
  PROVE  IsPrefix(p, r)
<1>1. p \in Seq(Nat) /\ q \in Seq(Nat) /\ r \in Seq(Nat)
      /\ Len(p) \in Nat /\ Len(q) \in Nat /\ Len(r) \in Nat  BY PathSeq
<1>2. Len(p) <= Len(q) /\ \A i \in 1..Len(p) : p[i] = q[i]  BY <1>1, PrefixIs
<1>3. Len(q) <= Len(r) /\ \A i \in 1..Len(q) : q[i] = r[i]  BY <1>1, PrefixIs
<1>4. \A i \in 1..Len(p) : i \in 1..Len(q)  BY <1>1, <1>2
<1>5. Len(p) <= Len(r) /\ \A i \in 1..Len(p) : p[i] = r[i]  BY <1>1, <1>2, <1>3, <1>4
<1> QED BY <1>1, <1>5, PrefixIs

LEMMA AboveAlong ==
  ASSUME NEW x \in PagedIds, NEW p \in Paths, NEW q \in Along(x), IsPrefix(p, q)
  PROVE  p \in Along(x)
<1>0. q \in Paths /\ IsPrefix(q, Route[x])  BY AlongIs
<1>1. p \in Seq(Nat) /\ q \in Seq(Nat) /\ Route[x] \in Seq(Nat)
      /\ Len(p) \in Nat /\ Len(q) \in Nat /\ Len(Route[x]) \in Nat  BY <1>0, PathSeq, RouteOf
<1>2. Len(p) <= Len(q) /\ \A i \in 1..Len(p) : p[i] = q[i]  BY <1>1, PrefixIs
<1>3. Len(q) <= Len(Route[x]) /\ \A i \in 1..Len(q) : q[i] = Route[x][i]  BY <1>0, <1>1, PrefixIs
<1>4. \A i \in 1..Len(p) : i \in 1..Len(q)  BY <1>1, <1>2
<1>5. Len(p) <= Len(Route[x]) /\ \A i \in 1..Len(p) : p[i] = Route[x][i]  BY <1>1, <1>2, <1>3, <1>4
<1>6. IsPrefix(p, Route[x])  BY <1>1, <1>5, PrefixIs
<1> QED BY <1>6, AlongIs

(* Two paths above a third are one above the other. *)
LEMMA BothAbove ==
  ASSUME NEW p \in Paths, NEW q \in Paths, NEW r \in Paths, IsPrefix(p, r), IsPrefix(q, r),
         Len(p) <= Len(q)
  PROVE  IsPrefix(p, q)
<1>1. p \in Seq(Nat) /\ q \in Seq(Nat) /\ r \in Seq(Nat)
      /\ Len(p) \in Nat /\ Len(q) \in Nat /\ Len(r) \in Nat  BY PathSeq
<1>2. \A i \in 1..Len(p) : p[i] = r[i]  BY <1>1, PrefixIs
<1>3. \A i \in 1..Len(q) : q[i] = r[i]  BY <1>1, PrefixIs
<1>4. \A i \in 1..Len(p) : i \in 1..Len(q)  BY <1>1
<1>5. \A i \in 1..Len(p) : p[i] = q[i]  BY <1>1, <1>2, <1>3, <1>4
<1> QED BY <1>1, <1>5, PrefixIs

LEMMA BothAlong ==
  ASSUME NEW x \in PagedIds, NEW p \in Along(x), NEW q \in Along(x), Len(p) <= Len(q)
  PROVE  IsPrefix(p, q)
<1>0. p \in Paths /\ IsPrefix(p, Route[x]) /\ q \in Paths /\ IsPrefix(q, Route[x])  BY AlongIs
<1>1. p \in Seq(Nat) /\ q \in Seq(Nat) /\ Route[x] \in Seq(Nat)
      /\ Len(p) \in Nat /\ Len(q) \in Nat  BY <1>0, PathSeq, RouteOf
<1>2. \A i \in 1..Len(p) : p[i] = Route[x][i]  BY <1>0, <1>1, PrefixIs
<1>3. \A i \in 1..Len(q) : q[i] = Route[x][i]  BY <1>0, <1>1, PrefixIs
<1>4. \A i \in 1..Len(p) : i \in 1..Len(q)  BY <1>1
<1>5. \A i \in 1..Len(p) : p[i] = q[i]  BY <1>1, <1>2, <1>3, <1>4
<1> QED BY <1>1, <1>5, PrefixIs

LEMMA ParentAbove ==
  ASSUME NEW p \in Paths, NEW q \in Paths, q # << >>
  PROVE  /\ IsStrictPrefix(Front(q), q)
         /\ IsPrefix(p, Front(q)) <=> IsStrictPrefix(p, q)
<1>1. Front(q) \in Paths /\ Len(Front(q)) = Len(q) - 1 /\ Len(q) \in Nat /\ Len(p) \in Nat
    BY ParentOf, PathLen
<1>2. q \in Seq(Nat) /\ Front(q) \in Seq(Nat) /\ Len(q) > 0
    BY <1>1, PathSeq, EmptyPath
<1>3. \A i \in 1..(Len(q) - 1) : Front(q)[i] = q[i]  BY <1>2, FrontOf
<1>4. IsPrefix(Front(q), q)
  <2>1. Len(Front(q)) <= Len(q) /\ \A i \in 1..Len(Front(q)) : Front(q)[i] = q[i]  BY <1>1, <1>3
  <2> QED BY <1>2, <2>1, PrefixIs
<1>5. Front(q) # q  BY <1>1
<1>6. ASSUME IsPrefix(p, Front(q)) PROVE IsStrictPrefix(p, q)
  <2>1. IsPrefix(p, q)  BY <1>1, <1>4, <1>6, AboveAbove
  <2>2. Len(p) <= Len(q) - 1  BY <1>1, <1>6, AboveIsShorter
  <2>3. p # q  BY <1>1, <2>2
  <2> QED BY <2>1, <2>3 DEF IsStrictPrefix
<1>7. ASSUME IsStrictPrefix(p, q) PROVE IsPrefix(p, Front(q))
  <2>1. Len(p) < Len(q) /\ IsPrefix(p, q)  BY <1>7, StrictlyAbove
  <2>2. Len(p) <= Len(Front(q))  BY <1>1, <2>1
  <2> QED BY <1>1, <1>4, <2>1, <2>2, BothAbove
<1> QED BY <1>4, <1>5, <1>6, <1>7 DEF IsStrictPrefix

(* The next path on the way from one to another below it. *)
LEMMA NextOnTheWay ==
  ASSUME NEW p \in Paths, NEW q \in Paths, IsStrictPrefix(p, q)
  PROVE  /\ Append(p, q[Len(p) + 1]) \in Paths /\ IsPrefix(Append(p, q[Len(p) + 1]), q)
         /\ \A n : Append(p, n) \in Paths /\ IsPrefix(Append(p, n), q) => n = q[Len(p) + 1]
<1>1. p \in Seq(Nat) /\ q \in Seq(Nat) /\ Len(p) \in Nat /\ Len(q) \in Nat /\ Len(q) <= Depth /\ Depth \in Nat
    BY PathSeq
<1>2. Len(p) < Len(q) /\ IsPrefix(p, q)  BY StrictlyAbove
<1>3. PICK x \in PagedIds : q = Start(x, Len(q))  BY PathIsStart
<1>4. q \in Along(x)  BY <1>1, <1>3, AlongIs
<1>5. p \in Along(x)  BY <1>2, <1>4, AboveAlong
<1>6. Append(p, Route[x][Len(p) + 1]) \in Along(x)  BY <1>1, <1>2, <1>5, GoesOn
<1>7. Len(q) \in 0..Depth /\ Len(p) + 1 \in 1..Len(q)  BY <1>1, <1>2
<1>8. q[Len(p) + 1] = Route[x][Len(p) + 1]
  <2>1. \A i \in 1..Len(q) : Start(x, Len(q))[i] = Route[x][i]  BY <1>7, StartOf
  <2> QED BY <1>3, <1>7, <2>1
<1> DEFINE t == Append(p, q[Len(p) + 1])
<1>9. t \in Along(x)  BY <1>6, <1>8
<1>10. t \in Paths  BY <1>9, AlongIs
<1>11. Len(t) = Len(p) + 1 /\ Last(t) = q[Len(p) + 1]  BY <1>10, ChildOf
<1> HIDE DEF t
<1>12. IsPrefix(t, q)
  <2>1. Len(t) <= Len(q)  BY <1>1, <1>2, <1>11
  <2> QED BY <1>4, <1>9, <2>1, BothAlong
<1>13. ASSUME NEW n, Append(p, n) \in Paths, IsPrefix(Append(p, n), q) PROVE n = q[Len(p) + 1]
  <2> DEFINE u == Append(p, n)
  <2>1. u \in Paths /\ IsPrefix(u, q) /\ Len(u) = Len(p) + 1 /\ Last(u) = n  BY <1>13, ChildOf
  <2> HIDE DEF u
  <2>2. IsPrefix(u, t)
      BY <1>1, <1>10, <1>11, <1>12, <2>1, BothAbove
  <2>3. u = t
      BY <1>10, <1>11, <2>1, <2>2, AboveIsShorter
  <2> QED BY <1>11, <2>1, <2>3
<1> QED BY <1>10, <1>12, <1>13 DEF t

-----------------------------------------------------------------------------
(* The pages of a cursor, and the pages of a flush, path by path *)

PageStep(c, f) ==
    [p \in Paths |->
          IF p \in DOMAIN c.page /\ p = << >> THEN c.page[p]
          ELSE IF p = << >> THEN (IF c.loaded THEN NoPage ELSE c.root)
          ELSE LET parent == f[Front(p)] IN
               IF parent.kind # "branch" \/ ~(Last(p) \in DOMAIN parent.children) THEN NoPage
               ELSE IF p \in DOMAIN c.page THEN c.page[p] ELSE parent.children[Last(p)]]

(* The page at the root, and the page at a path below the page of its parent. *)
TopPage(c) ==
    IF << >> \in DOMAIN c.page THEN c.page[<< >>] ELSE IF c.loaded THEN NoPage ELSE c.root

Below(c, p, parent) ==
    IF parent.kind # "branch" \/ ~(Last(p) \in DOMAIN parent.children) THEN NoPage
    ELSE IF p \in DOMAIN c.page THEN c.page[p] ELSE parent.children[Last(p)]

LEMMA PageStepIs ==
  ASSUME NEW c, NEW f, NEW p \in Paths
  PROVE  PageStep(c, f)[p] = IF p = << >> THEN TopPage(c) ELSE Below(c, p, f[Front(p)])
BY Zenon DEF PageStep, TopPage, Below

LEMMA PageStepGrows ==
  ASSUME NEW c, NEW n \in Nat, NEW g,
         \A p \in Paths : Len(p) < n => g[p] = PageStep(c, g)[p],
         NEW p \in Paths, Len(p) < n + 1
  PROVE  PageStep(c, g)[p] = PageStep(c, PageStep(c, g))[p]
<1>1. CASE p = << >>  BY <1>1, PageStepIs
<1>2. CASE p # << >>
  <2>1. Front(p) \in Paths /\ Len(Front(p)) = Len(p) - 1 /\ Len(p) \in Nat  BY <1>2, ParentOf, PathLen
  <2>2. Len(Front(p)) < n  BY <2>1
  <2>3. g[Front(p)] = PageStep(c, g)[Front(p)]  BY <2>1, <2>2
  <2>4. PageStep(c, g)[p] = Below(c, p, g[Front(p)])  BY <1>2, PageStepIs
  <2>5. PageStep(c, PageStep(c, g))[p] = Below(c, p, PageStep(c, g)[Front(p)])  BY <1>2, PageStepIs
  <2> QED BY <2>3, <2>4, <2>5, Zenon
<1> QED BY <1>1, <1>2

LEMMA PagesExist ==
  ASSUME NEW c
  PROVE  \E f : f = PageStep(c, f)
<1> DEFINE S == {n \in Nat : \E g : \A p \in Paths : Len(p) < n => g[p] = PageStep(c, g)[p]}
<1>1. 0 \in S
  <2>1. \A p \in Paths : ~(Len(p) < 0)  BY PathLen
  <2> QED BY <2>1
<1>2. ASSUME NEW n \in Nat, n \in S PROVE n + 1 \in S
  <2>1. PICK g : \A p \in Paths : Len(p) < n => g[p] = PageStep(c, g)[p]  BY <1>2
  <2>2. \A p \in Paths : Len(p) < n + 1 => PageStep(c, g)[p] = PageStep(c, PageStep(c, g))[p]
      BY <2>1, PageStepGrows
  <2>3. n + 1 \in Nat  OBVIOUS
  <2> QED BY <2>2, <2>3, Zenon
<1>3. \A n \in Nat : n \in S
  <2> HIDE DEF S
  <2> QED BY <1>1, <1>2, UpTo
<1>4. CASE Paths = {}
  <2>1. \A f : PageStep(c, f) = [p \in {} |-> NoPage]  BY <1>4 DEF PageStep
  <2> QED BY <2>1
<1>5. CASE Paths # {}
  <2>1. Depth + 1 \in Nat  BY <1>5, PathLen
  <2>2. PICK g : \A p \in Paths : Len(p) < Depth + 1 => g[p] = PageStep(c, g)[p]  BY <1>3, <2>1
  <2>3. \A p \in Paths : Len(p) < Depth + 1  BY PathLen
  <2>4. \A p \in Paths : PageStep(c, g)[p] = PageStep(c, PageStep(c, g))[p]
    <3> SUFFICES ASSUME NEW p \in Paths PROVE PageStep(c, g)[p] = PageStep(c, PageStep(c, g))[p]  OBVIOUS
    <3>1. Depth + 1 \in Nat /\ Len(p) \in Nat /\ Len(p) < (Depth + 1) + 1  BY <2>1, <2>3, PathLen
    <3> QED BY <2>2, <3>1, PageStepGrows
  <2>5. PageStep(c, g) = PageStep(c, PageStep(c, g))
    <3>1. \A f : PageStep(c, f) = [p \in Paths |-> PageStep(c, f)[p]]  BY Zenon DEF PageStep
    <3> DEFINE a == PageStep(c, g)
               b == PageStep(c, a)
    <3>2. a = [p \in Paths |-> a[p]] /\ b = [p \in Paths |-> b[p]]  BY <3>1, Zenon
    <3>3. \A p \in Paths : a[p] = b[p]  BY <2>4
    <3> HIDE DEF a, b
    <3>4. a = b  BY <3>2, <3>3
    <3> QED BY <3>4 DEF a, b
  <2> QED BY <2>5
<1> QED BY <1>4, <1>5

(* A page is the working copy, or what the parent names. *)
LEMMA PagesUnfold ==
  ASSUME NEW c
  PROVE  /\ PagesOf(c) = [p \in Paths |-> PagesOf(c)[p]]
         /\ \A p \in Paths : PagesOf(c)[p] =
                IF p = << >> THEN TopPage(c) ELSE Below(c, p, PagesOf(c)[Front(p)])
<1> DEFINE f == CHOOSE f : f = PageStep(c, f)
<1>1. PagesOf(c) = [p \in Paths |-> f[p]]  BY DEF PagesOf, PageStep
<1>2. f = PageStep(c, f)  BY PagesExist
<1> HIDE DEF f
<1>3. \A p \in Paths : PagesOf(c)[p] = f[p]  BY <1>1
<1>4. ASSUME NEW p \in Paths
      PROVE  PagesOf(c)[p] = IF p = << >> THEN TopPage(c) ELSE Below(c, p, PagesOf(c)[Front(p)])
  <2>1. f[p] = IF p = << >> THEN TopPage(c) ELSE Below(c, p, f[Front(p)])
    <3>1. PageStep(c, f)[p] = IF p = << >> THEN TopPage(c) ELSE Below(c, p, f[Front(p)])  BY PageStepIs
    <3> QED BY <1>2, <3>1, Zenon
  <2>2. CASE p = << >>  BY <1>3, <2>1, <2>2, Zenon
  <2>3. CASE p # << >>
    <3>1. Front(p) \in Paths  BY <2>3, ParentOf
    <3>2. PagesOf(c)[Front(p)] = f[Front(p)] /\ PagesOf(c)[p] = f[p]  BY <1>3, <3>1, Zenon
    <3> QED BY <2>1, <2>3, <3>2, Zenon
  <2> QED BY <2>2, <2>3
<1>5. PagesOf(c) = [p \in Paths |-> PagesOf(c)[p]]  BY <1>1
<1> QED BY <1>4, <1>5, Zenon

(* The handle a flush finds for the child n of the page at p, from the pages f it wrote. *)
Handle(c, f, p, n) ==
    IF Append(p, n) \in c.dirty THEN f[Append(p, n)]
    ELSE IF Append(p, n) \in DOMAIN c.clean THEN c.clean[Append(p, n)] ELSE c.page[p].children[n]

Resolved(c, f, p) ==
    IF c.page[p].kind = "leaf" THEN c.page[p]
    ELSE Branch([n \in DOMAIN c.page[p].children |-> Handle(c, f, p, n)])

WriteStep(c, f) == [p \in Paths |-> Resolved(c, f, p)]

LEMMA WriteStepGrows ==
  ASSUME NEW c, c.dirty \subseteq Paths, NEW n \in Nat, NEW g,
         \A p \in Paths : Len(p) + n > Depth => g[p] = WriteStep(c, g)[p],
         NEW p \in Paths, Len(p) + n + 1 > Depth
  PROVE  WriteStep(c, g)[p] = WriteStep(c, WriteStep(c, g))[p]
<1> DEFINE h == WriteStep(c, g)
<1>1. ASSUME NEW m PROVE Handle(c, g, p, m) = Handle(c, h, p, m)
  <2>1. CASE Append(p, m) \in c.dirty
    <3>1. Append(p, m) \in Paths  BY <2>1
    <3>2. Len(Append(p, m)) = Len(p) + 1 /\ Len(p) \in Nat /\ Depth \in Nat  BY <3>1, ChildOf, PathLen
    <3>3. Len(Append(p, m)) + n > Depth  BY <3>2
    <3>4. g[Append(p, m)] = h[Append(p, m)]  BY <3>1, <3>3
    <3> QED BY <2>1, <3>4, Zenon DEF Handle
  <2>2. CASE Append(p, m) \notin c.dirty  BY <2>2, Zenon DEF Handle
  <2> QED BY <2>1, <2>2
<1>2. [m \in DOMAIN c.page[p].children |-> Handle(c, g, p, m)] =
      [m \in DOMAIN c.page[p].children |-> Handle(c, h, p, m)]
    BY <1>1
<1>3. Resolved(c, g, p) = Resolved(c, h, p)  BY <1>2, Zenon DEF Resolved
<1>4. \A f : WriteStep(c, f)[p] = Resolved(c, f, p)  BY Zenon DEF WriteStep
<1> QED BY <1>3, <1>4, Zenon

LEMMA WritesExist ==
  ASSUME NEW c, c.dirty \subseteq Paths
  PROVE  \E f : f = WriteStep(c, f)
<1> DEFINE S == {n \in Nat : \E g : \A p \in Paths : Len(p) + n > Depth => g[p] = WriteStep(c, g)[p]}
<1>1. 0 \in S
  <2>1. \A p \in Paths : ~(Len(p) + 0 > Depth)  BY PathLen
  <2> QED BY <2>1
<1>2. ASSUME NEW n \in Nat, n \in S PROVE n + 1 \in S
  <2>1. PICK g : \A p \in Paths : Len(p) + n > Depth => g[p] = WriteStep(c, g)[p]  BY <1>2
  <2>2. ASSUME NEW p \in Paths, Len(p) + (n + 1) > Depth
        PROVE  WriteStep(c, g)[p] = WriteStep(c, WriteStep(c, g))[p]
    <3>1. Len(p) + n + 1 > Depth  BY <2>2, PathLen
    <3> QED BY <2>1, <3>1, WriteStepGrows
  <2>3. n + 1 \in Nat  OBVIOUS
  <2> QED BY <2>2, <2>3, Zenon
<1>3. \A n \in Nat : n \in S
  <2> HIDE DEF S
  <2> QED BY <1>1, <1>2, UpTo
<1>4. CASE Paths = {}
  <2>1. \A f : WriteStep(c, f) = [p \in {} |-> NoPage]  BY <1>4 DEF WriteStep
  <2> QED BY <2>1
<1>5. CASE Paths # {}
  <2>1. Depth + 1 \in Nat  BY <1>5, PathLen
  <2>2. PICK g : \A p \in Paths : Len(p) + (Depth + 1) > Depth => g[p] = WriteStep(c, g)[p]  BY <1>3, <2>1
  <2>3. \A p \in Paths : Len(p) + (Depth + 1) > Depth /\ Len(p) + (Depth + 1) + 1 > Depth  BY PathLen
  <2>4. \A p \in Paths : WriteStep(c, g)[p] = WriteStep(c, WriteStep(c, g))[p]
      BY <2>1, <2>2, <2>3, WriteStepGrows
  <2>5. WriteStep(c, g) = WriteStep(c, WriteStep(c, g))
    <3>1. \A f : WriteStep(c, f) = [p \in Paths |-> WriteStep(c, f)[p]]  BY Zenon DEF WriteStep
    <3> DEFINE a == WriteStep(c, g)
               b == WriteStep(c, a)
    <3>2. a = [p \in Paths |-> a[p]] /\ b = [p \in Paths |-> b[p]]  BY <3>1, Zenon
    <3>3. \A p \in Paths : a[p] = b[p]  BY <2>4
    <3> HIDE DEF a, b
    <3>4. a = b  BY <3>2, <3>3
    <3> QED BY <3>4 DEF a, b
  <2> QED BY <2>5
<1> QED BY <1>4, <1>5

LEMMA WrittenUnfold ==
  ASSUME NEW c, c.dirty \subseteq Paths
  PROVE  \A p \in c.dirty : Written(c)[p] = Resolved(c, Written(c), p)
<1> DEFINE f == CHOOSE f : f = WriteStep(c, f)
<1>1. Written(c) = [p \in c.dirty |-> f[p]]  BY DEF Written, WriteStep, Resolved, Handle
<1>2. f = WriteStep(c, f)  BY WritesExist
<1> HIDE DEF f
<1>3. \A p \in c.dirty : Written(c)[p] = f[p]  BY <1>1
<1>4. ASSUME NEW p \in c.dirty PROVE Written(c)[p] = Resolved(c, Written(c), p)
  <2>1. f[p] = Resolved(c, f, p)
    <3>1. p \in Paths  OBVIOUS
    <3>2. WriteStep(c, f)[p] = Resolved(c, f, p)  BY <3>1, Zenon DEF WriteStep
    <3> QED BY <1>2, <3>2, Zenon
  <2>2. \A m : Handle(c, f, p, m) = Handle(c, Written(c), p, m)  BY <1>3, Zenon DEF Handle
  <2>3. [m \in DOMAIN c.page[p].children |-> Handle(c, f, p, m)] =
        [m \in DOMAIN c.page[p].children |-> Handle(c, Written(c), p, m)]
      BY <2>2
  <2>4. Resolved(c, f, p) = Resolved(c, Written(c), p)  BY <2>3, Zenon DEF Resolved
  <2> QED BY <1>3, <2>1, <2>4, Zenon
<1> QED BY <1>4

-----------------------------------------------------------------------------
(* What is true of a cursor: its working pages, the tree they make with    *)
(* the store, and the set the tree holds                                   *)

IsCursor(c) ==
    /\ c = [root |-> c.root, loaded |-> c.loaded, page |-> c.page, dirty |-> c.dirty, clean |-> c.clean]
    /\ c.loaded \in BOOLEAN

(* Working pages hang together from the root; a dirty page has dirty pages *)
(* above it; a page that is not dirty is what its parent names, and what   *)
(* it was loaded as.                                                       *)
Hangs(c) ==
    /\ DOMAIN c.page \subseteq Paths
    /\ \A p \in DOMAIN c.page : c.page[p].kind \in {"leaf", "branch"}
    /\ \A p \in DOMAIN c.page : p # << >> =>
          /\ Front(p) \in DOMAIN c.page /\ c.page[Front(p)].kind = "branch"
          /\ Last(p) \in DOMAIN c.page[Front(p)].children

DirtyAbove(c) ==
    /\ c.dirty \subseteq DOMAIN c.page
    /\ \A p \in c.dirty : p # << >> => Front(p) \in c.dirty

CleanAsLoaded(c) ==
    /\ DOMAIN c.clean \subseteq DOMAIN c.page
    /\ \A p \in DOMAIN c.page \ c.dirty : p # << >> =>
          /\ p \in DOMAIN c.clean /\ c.clean[p] = c.page[p]
          /\ c.page[Front(p)].children[Last(p)] = c.page[p]
    /\ << >> \in Paths \ c.dirty => TopPage(c) = c.root

Working(c) == IsCursor(c) /\ Hangs(c) /\ DirtyAbove(c) /\ CleanAsLoaded(c)

(* No page of the tree is pending; a leaf is not the root and its entries  *)
(* are of ids whose routes pass through it; a branch has nibbles of routes.*)
SoundPage(p, page) ==
    /\ page = NoPage \/ page.kind = "leaf" \/ page.kind = "branch"
    /\ page.kind = "leaf" => p # << >> /\ \A x \in DOMAIN page.entries : x \in PagedIds /\ p \in Along(x)
    /\ page.kind = "branch" => Len(p) < Depth /\ \A n \in DOMAIN page.children : Append(p, n) \in Paths

SoundTree(at) == \A p \in Paths : SoundPage(p, at[p])

(* The leaves hold the entries of the set, and all of them. *)
HoldsOf(at, x, entry) ==
    /\ \A p \in Holders(at, x) : at[p].entries[x] = entry /\ entry # NoEntry
    /\ entry # NoEntry => Holders(at, x) # {}

Sound(c, k, set) ==
    /\ Working(c)
    /\ SoundTree(PagesOf(c))
    /\ \A x \in Held[k] : HoldsOf(PagesOf(c), x, set[x])

IsEntry(e) == e = [dots |-> e.dots, tombstoned |-> e.tombstoned]
IsSet(set) == DOMAIN set = PagedIds /\ set = [x \in PagedIds |-> set[x]] /\ \A x \in PagedIds : IsEntry(set[x])

(* The cursors of the two tries and the set they hold. *)
Tries(cs, set) ==
    cs = [k \in Kinds |-> cs[k]] /\ IsSet(set) /\ \A k \in Kinds : Sound(cs[k], k, set)

SessionInv == Tries(cursor, elements) /\ Tries([k \in Kinds |-> CursorOn(retained[k])], kept)

LEMMA PathInduction ==
  ASSUME NEW S, << >> \in Paths => << >> \in S,
         \A p \in Paths : p # << >> /\ Front(p) \in S => p \in S
  PROVE  \A p \in Paths : p \in S
<1> DEFINE N == {n \in Nat : \A p \in Paths : Len(p) = n => p \in S}
<1>1. 0 \in N
  <2>1. \A p \in Paths : Len(p) = 0 => p = << >>  BY EmptyPath
  <2> QED BY <2>1
<1>2. ASSUME NEW n \in Nat, n \in N PROVE n + 1 \in N
  <2>1. ASSUME NEW p \in Paths, Len(p) = n + 1 PROVE p \in S
    <3>1. p # << >>  BY <2>1, EmptyPath
    <3>2. Front(p) \in Paths /\ Len(Front(p)) = n  BY <2>1, <3>1, ParentOf
    <3>3. Front(p) \in S  BY <1>2, <3>2
    <3> QED BY <3>1, <3>3
  <2>2. n + 1 \in Nat  OBVIOUS
  <2> QED BY <2>1, <2>2
<1>3. \A n \in Nat : n \in N
  <2> HIDE DEF N
  <2> QED BY <1>1, <1>2, UpTo
<1>4. ASSUME NEW p \in Paths PROVE p \in S
  <2>1. Len(p) \in Nat  BY PathLen
  <2> QED BY <1>3, <2>1
<1> QED BY <1>4

(* A page has branches all the way above it. *)
LEMMA BranchesAbove ==
  ASSUME NEW c, NEW p \in Paths, PagesOf(c)[p] # NoPage
  PROVE  /\ p # << >> => /\ PagesOf(c)[Front(p)].kind = "branch"
                         /\ Last(p) \in DOMAIN PagesOf(c)[Front(p)].children
                         /\ PagesOf(c)[p] = IF p \in DOMAIN c.page THEN c.page[p]
                                            ELSE PagesOf(c)[Front(p)].children[Last(p)]
         /\ \A q \in Paths : IsStrictPrefix(q, p) => PagesOf(c)[q].kind = "branch"
<1> DEFINE at == PagesOf(c)
           S == {r \in Paths : at[r] # NoPage =>
                     \A q \in Paths : IsStrictPrefix(q, r) => at[q].kind = "branch"}
<1>1. ASSUME NEW r \in Paths, r # << >>, at[r] # NoPage
      PROVE  /\ at[Front(r)].kind = "branch" /\ Last(r) \in DOMAIN at[Front(r)].children
             /\ at[r] = IF r \in DOMAIN c.page THEN c.page[r] ELSE at[Front(r)].children[Last(r)]
  <2>1. at[r] = Below(c, r, at[Front(r)])  BY <1>1, PagesUnfold
  <2> HIDE DEF at
  <2> QED BY <1>1, <2>1 DEF Below
<1>2. << >> \in Paths => << >> \in S
  <2>1. << >> \in Paths => \A q \in Paths : ~IsStrictPrefix(q, << >>)  BY StrictlyAbove
  <2> QED BY <2>1, Zenon
<1>3. ASSUME NEW r \in Paths, r # << >>, Front(r) \in S PROVE r \in S
  <2> SUFFICES ASSUME at[r] # NoPage, NEW q \in Paths, IsStrictPrefix(q, r) PROVE at[q].kind = "branch"
      OBVIOUS
  <2>1. Front(r) \in Paths /\ IsPrefix(q, Front(r))  BY <1>3, ParentOf, ParentAbove
  <2>2. at[Front(r)].kind = "branch"  BY <1>1, <1>3
  <2>3. CASE q = Front(r)  BY <2>2, <2>3
  <2>4. CASE q # Front(r)
    <3>1. IsStrictPrefix(q, Front(r))  BY <2>1, <2>4 DEF IsStrictPrefix
    <3>2. at[Front(r)] # NoPage
      <4> HIDE DEF at
      <4> QED BY <2>2 DEF NoPage
    <3> QED BY <1>3, <3>1, <3>2
  <2> QED BY <2>3, <2>4
<1>4. \A r \in Paths : r \in S
  <2> HIDE DEF S
  <2> QED BY <1>2, <1>3, PathInduction
<1> QED BY <1>1, <1>4

(* A working page is the page at its path. *)
LEMMA WorkingPage ==
  ASSUME NEW c, Hangs(c)
  PROVE  \A p \in DOMAIN c.page : p \in Paths /\ PagesOf(c)[p] = c.page[p] /\ c.page[p] # NoPage
<1> DEFINE at == PagesOf(c)
           S == {p \in Paths : p \in DOMAIN c.page => at[p] = c.page[p]}
<1>1. << >> \in Paths => << >> \in S
  <2>1. << >> \in Paths => at[<< >>] = TopPage(c)  BY PagesUnfold
  <2> HIDE DEF at
  <2> QED BY <2>1 DEF TopPage
<1>2. ASSUME NEW p \in Paths, p # << >>, Front(p) \in S PROVE p \in S
  <2> SUFFICES ASSUME p \in DOMAIN c.page PROVE at[p] = c.page[p]  OBVIOUS
  <2>1. at[p] = Below(c, p, at[Front(p)])  BY <1>2, PagesUnfold
  <2>2. /\ Front(p) \in DOMAIN c.page /\ c.page[Front(p)].kind = "branch"
        /\ Last(p) \in DOMAIN c.page[Front(p)].children
      BY <1>2 DEF Hangs
  <2>3. at[Front(p)] = c.page[Front(p)]  BY <1>2, <2>2
  <2> HIDE DEF at
  <2> QED BY <2>1, <2>2, <2>3 DEF Below
<1>3. \A p \in Paths : p \in S
  <2> HIDE DEF S
  <2> QED BY <1>1, <1>2, PathInduction
<1>4. \A p \in DOMAIN c.page : p \in Paths /\ c.page[p] # NoPage  BY DEF Hangs, NoPage
<1> QED BY <1>3, <1>4

-----------------------------------------------------------------------------
(* A sound cursor reads as its set *)

LEMMA HolderAlong ==
  ASSUME NEW c, SoundTree(PagesOf(c)), NEW x, NEW p \in Holders(PagesOf(c), x)
  PROVE  p \in Paths /\ PagesOf(c)[p].kind = "leaf" /\ x \in PagedIds /\ p \in Along(x) /\ p # << >>
<1>1. p \in Paths /\ PagesOf(c)[p].kind = "leaf" /\ x \in DOMAIN PagesOf(c)[p].entries  BY DEF Holders
<1>2. SoundPage(p, PagesOf(c)[p])  BY <1>1 DEF SoundTree
<1> QED BY <1>1, <1>2 DEF SoundPage

LEMMA OneHolder ==
  ASSUME NEW c, SoundTree(PagesOf(c)), NEW x,
         NEW p \in Holders(PagesOf(c), x), NEW q \in Holders(PagesOf(c), x)
  PROVE  p = q
<1>1. ASSUME NEW s \in Holders(PagesOf(c), x), NEW t \in Holders(PagesOf(c), x), Len(s) <= Len(t)
      PROVE  s = t
  <2>1. /\ s \in Paths /\ PagesOf(c)[s].kind = "leaf" /\ x \in PagedIds /\ s \in Along(x)
        /\ t \in Paths /\ PagesOf(c)[t].kind = "leaf" /\ t \in Along(x)
      BY HolderAlong
  <2>2. IsPrefix(s, t)  BY <1>1, <2>1, BothAlong
  <2>3. ASSUME s # t PROVE FALSE
    <3>1. IsStrictPrefix(s, t)  BY <2>2, <2>3 DEF IsStrictPrefix
    <3>2. PagesOf(c)[t] # NoPage  BY <2>1 DEF NoPage
    <3>3. PagesOf(c)[s].kind = "branch"  BY <2>1, <3>1, <3>2, BranchesAbove
    <3> QED BY <2>1, <3>3
  <2> QED BY <2>3
<1>2. p \in Paths /\ q \in Paths  BY HolderAlong
<1>3. Len(p) <= Len(q) \/ Len(q) <= Len(p)  BY <1>2, PathLen
<1> QED BY <1>1, <1>3

LEMMA SoundLookup ==
  ASSUME NEW c, NEW k \in Kinds, NEW set, Sound(c, k, set), NEW x \in Held[k]
  PROVE  /\ LookupEntry(PagesOf(c), x) = set[x]
         /\ Cardinality(Holders(PagesOf(c), x)) = IF set[x] = NoEntry THEN 0 ELSE 1
<1> DEFINE at == PagesOf(c)
           found == {p \in Holders(at, x) : IsPrefix(p, Route[x])}
<1>1. SoundTree(at) /\ HoldsOf(at, x, set[x])  BY DEF Sound
<1>2. found = Holders(at, x)
  <2>1. \A p \in Holders(at, x) : p \in Along(x)  BY <1>1, HolderAlong
  <2> QED BY <2>1 DEF Along
<1>3. LookupEntry(at, x) = IF found = {} THEN NoEntry ELSE at[CHOOSE p \in found : TRUE].entries[x]
    BY DEF LookupEntry
<1> HIDE DEF found
<1>4. CASE Holders(at, x) = {}
  <2>1. set[x] = NoEntry  BY <1>1, <1>4 DEF HoldsOf
  <2>2. Cardinality(Holders(at, x)) = 0  BY <1>4, FS_EmptySet
  <2>3. LookupEntry(at, x) = NoEntry  BY <1>2, <1>3, <1>4
  <2> QED BY <2>1, <2>2, <2>3
<1>5. CASE Holders(at, x) # {}
  <2>1. PICK p \in Holders(at, x) : TRUE  BY <1>5
  <2>2. Holders(at, x) = {p}  BY <1>1, <2>1, OneHolder
  <2>3. at[p].entries[x] = set[x] /\ set[x] # NoEntry  BY <1>1, <2>1 DEF HoldsOf
  <2>4. (CHOOSE q \in found : TRUE) = p  BY <1>2, <2>2
  <2>5. LookupEntry(at, x) = at[p].entries[x]
    <3>1. found # {}  BY <1>2, <1>5
    <3> HIDE DEF at
    <3> QED BY <1>3, <2>4, <3>1
  <2>6. Cardinality(Holders(at, x)) = 1  BY <2>2, FS_Singleton
  <2> QED BY <2>3, <2>5, <2>6
<1> QED BY <1>4, <1>5

LEMMA SoundReads ==
  ASSUME NEW c, NEW k \in Kinds, NEW set, Sound(c, k, set)
  PROVE  ReadsAs(c, k, set)
<1>1. \A x \in Held[k] : /\ LookupEntry(PagesOf(c), x) = set[x]
                         /\ Cardinality(Holders(PagesOf(c), x)) = IF set[x] = NoEntry THEN 0 ELSE 1
    BY SoundLookup
<1> QED BY <1>1, Zenon DEF ReadsAs

-----------------------------------------------------------------------------
(* Loading *)

LEMMA OverIs ==
  ASSUME NEW f, NEW g
  PROVE  /\ DOMAIN Over(f, g) = DOMAIN f \cup DOMAIN g
         /\ \A i \in DOMAIN f : Over(f, g)[i] = f[i]
         /\ \A i \in DOMAIN g : i \notin DOMAIN f => Over(f, g)[i] = g[i]
BY DEF Over

LEMMA SingleIs ==
  ASSUME NEW i, NEW v
  PROVE  DOMAIN Single(i, v) = {i} /\ Single(i, v)[i] = v
BY DEF Single

New(c, walk) == {p \in walk \ DOMAIN c.page : PagesOf(c)[p].kind \in {"leaf", "branch"}}

LEMMA LoadIs ==
  ASSUME NEW c, IsCursor(c), NEW walk
  PROVE  /\ IsCursor(Load(c, walk))
         /\ Load(c, walk).root = c.root /\ Load(c, walk).dirty = c.dirty /\ Load(c, walk).loaded = TRUE
         /\ Load(c, walk).page = Over(c.page, [p \in New(c, walk) |-> PagesOf(c)[p]])
         /\ Load(c, walk).clean = Over(c.clean, [p \in New(c, walk) \ {<< >>} |-> PagesOf(c)[p]])
<1> DEFINE pg == Over(c.page, [p \in New(c, walk) |-> PagesOf(c)[p]])
           cl == Over(c.clean, [p \in New(c, walk) \ {<< >>} |-> PagesOf(c)[p]])
<1>1. Load(c, walk) = [c EXCEPT !.loaded = TRUE, !.page = pg, !.clean = cl]
    BY DEF Load, New
<1> HIDE DEF pg, cl
<1>2. Load(c, walk) = [root |-> c.root, loaded |-> TRUE, page |-> pg, dirty |-> c.dirty, clean |-> cl]
    BY <1>1 DEF IsCursor
<1>3. /\ IsCursor(Load(c, walk))
      /\ Load(c, walk).root = c.root /\ Load(c, walk).dirty = c.dirty /\ Load(c, walk).loaded = TRUE
      /\ Load(c, walk).page = pg /\ Load(c, walk).clean = cl
    BY <1>2 DEF IsCursor
<1> QED BY <1>3 DEF pg, cl

LEMMA LoadedPages ==
  ASSUME NEW c, Working(c), NEW walk \in SUBSET Paths
  PROVE  /\ DOMAIN Load(c, walk).page = DOMAIN c.page \cup New(c, walk)
         /\ \A p \in DOMAIN c.page : Load(c, walk).page[p] = c.page[p]
         /\ \A p \in DOMAIN c.page \cup New(c, walk) :
               p \in Paths /\ Load(c, walk).page[p] = PagesOf(c)[p]
         /\ \A p \in New(c, walk) : p \in walk /\ p \notin DOMAIN c.page
                                    /\ PagesOf(c)[p].kind \in {"leaf", "branch"} /\ PagesOf(c)[p] # NoPage
         /\ \A p \in walk : PagesOf(c)[p].kind \in {"leaf", "branch"} =>
               p \in DOMAIN Load(c, walk).page
<1> DEFINE at == PagesOf(c)
           new == [p \in New(c, walk) |-> at[p]]
<1>0. IsCursor(c) /\ Hangs(c)  BY DEF Working
<1>1. Load(c, walk).page = Over(c.page, new)  BY <1>0, LoadIs
<1>2. DOMAIN new = New(c, walk) /\ \A p \in New(c, walk) : new[p] = at[p]  OBVIOUS
<1>3. \A p \in New(c, walk) : p \in walk /\ p \notin DOMAIN c.page
                              /\ at[p].kind \in {"leaf", "branch"} /\ at[p] # NoPage
  <2>1. \A p \in New(c, walk) : p \in walk /\ p \notin DOMAIN c.page /\ at[p].kind \in {"leaf", "branch"}
      BY DEF New
  <2> HIDE DEF at, new
  <2> QED BY <2>1 DEF NoPage
<1>4. \A p \in walk : at[p].kind \in {"leaf", "branch"} => p \in DOMAIN c.page \cup New(c, walk)  BY DEF New
<1>5. \A p \in DOMAIN c.page : p \in Paths /\ at[p] = c.page[p]  BY <1>0, WorkingPage
<1> HIDE DEF new, at
<1>6. /\ DOMAIN Over(c.page, new) = DOMAIN c.page \cup New(c, walk)
      /\ \A p \in DOMAIN c.page : Over(c.page, new)[p] = c.page[p]
      /\ \A p \in New(c, walk) : p \notin DOMAIN c.page => Over(c.page, new)[p] = at[p]
  <2>1. /\ DOMAIN Over(c.page, new) = DOMAIN c.page \cup DOMAIN new
        /\ \A p \in DOMAIN c.page : Over(c.page, new)[p] = c.page[p]
        /\ \A p \in DOMAIN new : p \notin DOMAIN c.page => Over(c.page, new)[p] = new[p]
      BY OverIs, Zenon
  <2> QED BY <1>2, <2>1, Zenon
<1>7. /\ DOMAIN Load(c, walk).page = DOMAIN c.page \cup New(c, walk)
      /\ \A p \in DOMAIN c.page : Load(c, walk).page[p] = c.page[p]
      /\ \A p \in New(c, walk) : Load(c, walk).page[p] = at[p]
    BY <1>1, <1>3, <1>6
<1> QED BY <1>3, <1>4, <1>5, <1>7 DEF at

IsWalk(walk) ==
    /\ walk \in SUBSET Paths
    /\ << >> \in Paths => << >> \in walk
    /\ \A p \in walk : p # << >> => Front(p) \in walk

LEMMA LoadKeepsTop ==
  ASSUME NEW c, Working(c), SoundTree(PagesOf(c)), NEW walk, IsWalk(walk), << >> \in Paths
  PROVE  TopPage(Load(c, walk)) = TopPage(c)
<1> DEFINE d == Load(c, walk)
           at == PagesOf(c)
<1>0. walk \in SUBSET Paths /\ << >> \in walk /\ IsCursor(c)  BY DEF IsWalk, Working
<1>1. at[<< >>] = TopPage(c)  BY PagesUnfold
<1>2. d.loaded = TRUE  BY <1>0, LoadIs
<1>3. << >> \in DOMAIN d.page => d.page[<< >>] = at[<< >>]  BY <1>0, LoadedPages
<1>4. << >> \notin DOMAIN d.page => at[<< >>].kind \notin {"leaf", "branch"}  BY <1>0, LoadedPages
<1>5. at[<< >>] = NoPage \/ at[<< >>].kind = "leaf" \/ at[<< >>].kind = "branch"
    BY DEF SoundTree, SoundPage
<1> HIDE DEF d, at
<1>6. TopPage(d) = at[<< >>]  BY <1>2, <1>3, <1>4, <1>5 DEF TopPage
<1> QED BY <1>1, <1>6 DEF d

LEMMA LoadKeepsPages ==
  ASSUME NEW c, Working(c), SoundTree(PagesOf(c)), NEW walk, IsWalk(walk)
  PROVE  PagesOf(Load(c, walk)) = PagesOf(c)
<1> DEFINE d == Load(c, walk)
           at == PagesOf(c)
           as == PagesOf(d)
           S == {p \in Paths : as[p] = at[p]}
<1>0. walk \in SUBSET Paths  BY DEF IsWalk
<1>1. << >> \in Paths => << >> \in S
  <2>1. << >> \in Paths => as[<< >>] = TopPage(d) /\ at[<< >>] = TopPage(c)  BY PagesUnfold
  <2> QED BY <2>1, LoadKeepsTop
<1>2. ASSUME NEW p \in Paths, p # << >>, Front(p) \in S PROVE p \in S
  <2>1. as[p] = Below(d, p, as[Front(p)]) /\ at[p] = Below(c, p, at[Front(p)])  BY <1>2, PagesUnfold
  <2>2. as[Front(p)] = at[Front(p)]  BY <1>2
  <2>3. DOMAIN d.page = DOMAIN c.page \cup New(c, walk)
        /\ (p \in DOMAIN c.page => d.page[p] = c.page[p])
        /\ (p \in New(c, walk) => d.page[p] = at[p] /\ at[p] # NoPage)
      BY <1>0, LoadedPages
  <2> HIDE DEF d, at, as
  <2>4. as[p] = at[p]  BY <2>1, <2>2, <2>3 DEF Below
  <2> QED BY <2>4
<1>3. \A p \in Paths : as[p] = at[p]
  <2>1. \A p \in Paths : p \in S
    <3> HIDE DEF S
    <3> QED BY <1>1, <1>2, PathInduction
  <2> QED BY <2>1
<1>4. as = [p \in Paths |-> as[p]] /\ at = [p \in Paths |-> at[p]]  BY PagesUnfold, Zenon
<1> HIDE DEF as, at
<1>5. as = at  BY <1>3, <1>4
<1> QED BY <1>5 DEF as, at

LEMMA LoadKeepsWorking ==
  ASSUME NEW c, Working(c), SoundTree(PagesOf(c)), NEW walk, IsWalk(walk)
  PROVE  Working(Load(c, walk))
<1> DEFINE d == Load(c, walk)
           at == PagesOf(c)
<1>0. walk \in SUBSET Paths /\ IsCursor(c) /\ Hangs(c) /\ DirtyAbove(c) /\ CleanAsLoaded(c)
    BY DEF IsWalk, Working
<1>1. IsCursor(d) /\ d.root = c.root /\ d.dirty = c.dirty /\ d.loaded = TRUE  BY <1>0, LoadIs
<1>2. /\ DOMAIN d.page = DOMAIN c.page \cup New(c, walk)
      /\ \A p \in DOMAIN c.page : d.page[p] = c.page[p]
      /\ \A p \in DOMAIN d.page : p \in Paths /\ d.page[p] = at[p]
      /\ \A p \in New(c, walk) : p \in walk /\ p \notin DOMAIN c.page
                                 /\ at[p].kind \in {"leaf", "branch"} /\ at[p] # NoPage
      /\ \A p \in walk : at[p].kind \in {"leaf", "branch"} => p \in DOMAIN d.page
    BY <1>0, LoadedPages
<1>3. ASSUME NEW p \in New(c, walk), p # << >>
      PROVE  /\ Front(p) \in DOMAIN d.page /\ d.page[Front(p)] = at[Front(p)]
             /\ at[Front(p)].kind = "branch" /\ Last(p) \in DOMAIN at[Front(p)].children
             /\ at[p] = at[Front(p)].children[Last(p)]
  <2>1. p \in Paths /\ p \in walk /\ p \notin DOMAIN c.page /\ at[p] # NoPage  BY <1>0, <1>2
  <2>2. /\ at[Front(p)].kind = "branch" /\ Last(p) \in DOMAIN at[Front(p)].children
        /\ at[p] = at[Front(p)].children[Last(p)]
      BY <1>3, <2>1, BranchesAbove
  <2>3. Front(p) \in walk  BY <1>3, <2>1 DEF IsWalk
  <2> QED BY <1>2, <2>2, <2>3
<1>4. Hangs(d)
  <2>1. DOMAIN d.page \subseteq Paths  BY <1>2
  <2>2. ASSUME NEW p \in DOMAIN d.page PROVE d.page[p].kind \in {"leaf", "branch"}
    <3>1. CASE p \in DOMAIN c.page  BY <1>0, <1>2, <3>1 DEF Hangs
    <3>2. CASE p \in New(c, walk)  BY <1>2, <3>2
    <3> QED BY <1>2, <3>1, <3>2
  <2>3. ASSUME NEW p \in DOMAIN d.page, p # << >>
        PROVE  /\ Front(p) \in DOMAIN d.page /\ d.page[Front(p)].kind = "branch"
               /\ Last(p) \in DOMAIN d.page[Front(p)].children
    <3>1. CASE p \in DOMAIN c.page
      <4>1. /\ Front(p) \in DOMAIN c.page /\ c.page[Front(p)].kind = "branch"
            /\ Last(p) \in DOMAIN c.page[Front(p)].children
          BY <1>0, <2>3, <3>1 DEF Hangs
      <4>2. Front(p) \in DOMAIN d.page /\ d.page[Front(p)] = c.page[Front(p)]  BY <1>2, <4>1
      <4> HIDE DEF d
      <4> QED BY <4>1, <4>2
    <3>2. CASE p \in New(c, walk)
      <4>1. /\ Front(p) \in DOMAIN d.page /\ d.page[Front(p)] = at[Front(p)]
            /\ at[Front(p)].kind = "branch" /\ Last(p) \in DOMAIN at[Front(p)].children
          BY <1>3, <2>3, <3>2
      <4> HIDE DEF d, at
      <4> QED BY <4>1
    <3> QED BY <1>2, <3>1, <3>2
  <2> HIDE DEF d
  <2> QED BY <2>1, <2>2, <2>3 DEF Hangs
<1>5. DirtyAbove(d)
  <2> HIDE DEF d
  <2> QED BY <1>0, <1>1, <1>2 DEF DirtyAbove
<1>6. CleanAsLoaded(d)
  <2> DEFINE g == [p \in New(c, walk) \ {<< >>} |-> at[p]]
  <2>1. d.clean = Over(c.clean, g)  BY <1>0, LoadIs
  <2>2. DOMAIN g = New(c, walk) \ {<< >>} /\ \A p \in New(c, walk) \ {<< >>} : g[p] = at[p]  OBVIOUS
  <2> HIDE DEF g
  <2>3. /\ DOMAIN d.clean = DOMAIN c.clean \cup DOMAIN g
        /\ \A p \in DOMAIN c.clean : d.clean[p] = c.clean[p]
        /\ \A p \in DOMAIN g : p \notin DOMAIN c.clean => d.clean[p] = g[p]
    <3>1. /\ DOMAIN Over(c.clean, g) = DOMAIN c.clean \cup DOMAIN g
          /\ \A p \in DOMAIN c.clean : Over(c.clean, g)[p] = c.clean[p]
          /\ \A p \in DOMAIN g : p \notin DOMAIN c.clean => Over(c.clean, g)[p] = g[p]
        BY OverIs, Zenon
    <3> HIDE DEF d
    <3> QED BY <2>1, <3>1, Zenon
  <2>4. DOMAIN c.clean \subseteq DOMAIN c.page  BY <1>0 DEF CleanAsLoaded
  <2>5. DOMAIN d.clean \subseteq DOMAIN d.page  BY <1>2, <2>2, <2>3, <2>4
  <2>6. ASSUME NEW p \in DOMAIN d.page \ d.dirty, p # << >>
        PROVE  /\ p \in DOMAIN d.clean /\ d.clean[p] = d.page[p]
               /\ d.page[Front(p)].children[Last(p)] = d.page[p]
    <3>1. CASE p \in DOMAIN c.page
      <4>1. /\ p \in DOMAIN c.clean /\ c.clean[p] = c.page[p]
            /\ c.page[Front(p)].children[Last(p)] = c.page[p]
          BY <1>0, <1>1, <2>6, <3>1 DEF CleanAsLoaded
      <4>2. Front(p) \in DOMAIN c.page  BY <1>0, <2>6, <3>1 DEF Hangs
      <4>3. d.page[p] = c.page[p] /\ d.page[Front(p)] = c.page[Front(p)]  BY <1>2, <3>1, <4>2
      <4> HIDE DEF d
      <4> QED BY <2>3, <4>1, <4>3
    <3>2. CASE p \in New(c, walk)
      <4>1. /\ d.page[Front(p)] = at[Front(p)] /\ at[p] = at[Front(p)].children[Last(p)]
          BY <1>3, <2>6, <3>2
      <4>2. d.page[p] = at[p] /\ p \notin DOMAIN c.clean  BY <1>2, <2>4, <3>2
      <4>3. p \in DOMAIN g /\ g[p] = at[p]  BY <2>2, <2>6, <3>2
      <4> HIDE DEF d, at
      <4> QED BY <2>3, <4>1, <4>2, <4>3
    <3> QED BY <1>2, <2>6, <3>1, <3>2
  <2>7. ASSUME << >> \in Paths \ d.dirty PROVE TopPage(d) = d.root
    <3>1. TopPage(c) = c.root  BY <1>0, <1>1, <2>7 DEF CleanAsLoaded
    <3>2. TopPage(d) = TopPage(c)  BY <2>7, LoadKeepsTop
    <3> QED BY <1>1, <3>1, <3>2
  <2> HIDE DEF d
  <2> QED BY <2>5, <2>6, <2>7 DEF CleanAsLoaded
<1> QED BY <1>1, <1>4, <1>5, <1>6 DEF Working

LEMMA Walks ==
  ASSUME NEW x \in PagedIds
  PROVE  IsWalk(Along(x))
<1>1. \A p \in Along(x) : p \in Paths  BY AlongIs
<1>2. << >> \in Along(x)  BY RootPath
<1>3. \A p \in Along(x) : p # << >> => Front(p) \in Along(x)  BY <1>1, ParentOf
<1> QED BY <1>1, <1>2, <1>3 DEF IsWalk

LEMMA WalkOfAll == IsWalk(Paths)
BY ParentOf DEF IsWalk

LEMMA LoadSound ==
  ASSUME NEW c, NEW k, NEW set, Sound(c, k, set), NEW walk, IsWalk(walk)
  PROVE  Sound(Load(c, walk), k, set) /\ PagesOf(Load(c, walk)) = PagesOf(c)
<1>1. Working(c) /\ SoundTree(PagesOf(c)) /\ \A x \in Held[k] : HoldsOf(PagesOf(c), x, set[x])  BY DEF Sound
<1>2. Working(Load(c, walk)) /\ PagesOf(Load(c, walk)) = PagesOf(c)
    BY <1>1, LoadKeepsWorking, LoadKeepsPages
<1> QED BY <1>1, <1>2, Zenon DEF Sound

-----------------------------------------------------------------------------
(* Flushing *)

LEMMA NoDomain == DOMAIN << >> = {}
OBVIOUS

LEMMA CursorOnIs ==
  ASSUME NEW r
  PROVE  /\ CursorOn(r).root = r /\ CursorOn(r).loaded = FALSE /\ CursorOn(r).dirty = {}
         /\ DOMAIN CursorOn(r).page = {} /\ DOMAIN CursorOn(r).clean = {}
         /\ TopPage(CursorOn(r)) = r /\ Working(CursorOn(r))
<1> DEFINE d == CursorOn(r)
<1>1. /\ IsCursor(d) /\ d.root = r /\ d.loaded = FALSE /\ d.page = << >> /\ d.dirty = {} /\ d.clean = << >>
    BY DEF CursorOn, IsCursor
<1> HIDE DEF d
<1>2. DOMAIN d.page = {} /\ DOMAIN d.clean = {}  BY <1>1, NoDomain, Zenon
<1>3. TopPage(d) = r  BY <1>1, <1>2 DEF TopPage
<1>4. Hangs(d) /\ DirtyAbove(d) /\ CleanAsLoaded(d)
    BY <1>1, <1>2, <1>3 DEF Hangs, DirtyAbove, CleanAsLoaded
<1>5. Working(d)  BY <1>1, <1>4 DEF Working
<1> QED BY <1>1, <1>2, <1>3, <1>5 DEF d

(* The root is dirty when any page is. *)
LEMMA DirtyRoot ==
  ASSUME NEW c, Working(c), c.dirty # {}
  PROVE  << >> \in c.dirty
<1>0. c.dirty \subseteq Paths /\ DirtyAbove(c)  BY DEF Working, Hangs, DirtyAbove
<1> DEFINE S == {p \in Paths : p \in c.dirty => << >> \in c.dirty}
<1>1. << >> \in Paths => << >> \in S  OBVIOUS
<1>2. \A p \in Paths : p # << >> /\ Front(p) \in S => p \in S  BY <1>0 DEF DirtyAbove
<1>3. \A p \in Paths : p \in S
  <2> HIDE DEF S
  <2> QED BY <1>1, <1>2, PathInduction
<1> QED BY <1>0, <1>3

LEMMA BranchIs ==
  ASSUME NEW f
  PROVE  Branch(f).kind = "branch" /\ Branch(f).children = f
BY DEF Branch

LEMMA LeafIs ==
  ASSUME NEW f
  PROVE  Leaf(f).kind = "leaf" /\ Leaf(f).entries = f
BY DEF Leaf

(* A page as it is written: a leaf as it is, a branch with the same nibbles. *)
LEMMA WrittenPage ==
  ASSUME NEW c, Working(c), NEW p \in c.dirty
  PROVE  /\ c.page[p].kind = "leaf" => Written(c)[p] = c.page[p]
         /\ c.page[p].kind # "leaf" =>
               /\ Written(c)[p].kind = "branch"
               /\ DOMAIN Written(c)[p].children = DOMAIN c.page[p].children
               /\ \A n \in DOMAIN c.page[p].children :
                     Written(c)[p].children[n] = Handle(c, Written(c), p, n)
<1>1. c.dirty \subseteq Paths  BY DEF Working, Hangs, DirtyAbove
<1>2. Written(c)[p] = Resolved(c, Written(c), p)  BY <1>1, WrittenUnfold
<1> DEFINE f == [n \in DOMAIN c.page[p].children |-> Handle(c, Written(c), p, n)]
<1>3. DOMAIN f = DOMAIN c.page[p].children
      /\ \A n \in DOMAIN c.page[p].children : f[n] = Handle(c, Written(c), p, n)
    OBVIOUS
<1>4. CASE c.page[p].kind = "leaf"  BY <1>2, <1>4, Zenon DEF Resolved
<1>5. CASE c.page[p].kind # "leaf"
  <2>1. Written(c)[p] = Branch(f)  BY <1>2, <1>5, Zenon DEF Resolved
  <2> HIDE DEF f
  <2>2. Written(c)[p].kind = "branch" /\ Written(c)[p].children = f  BY <2>1, BranchIs, Zenon
  <2> QED BY <1>3, <1>5, <2>2, Zenon
<1> QED BY <1>4, <1>5

LEMMA FlushedPages ==
  ASSUME NEW c, Working(c)
  PROVE  \A p \in Paths : PagesOf(CursorOn(FlushRoot(c)))[p] =
                              IF p \in c.dirty THEN Written(c)[p] ELSE PagesOf(c)[p]
<1> DEFINE d == CursorOn(FlushRoot(c))
           at == PagesOf(c)
           as == PagesOf(d)
           w == Written(c)
           S == {p \in Paths : as[p] = IF p \in c.dirty THEN w[p] ELSE at[p]}
<1>0. IsCursor(c) /\ Hangs(c) /\ DirtyAbove(c) /\ CleanAsLoaded(c)  BY DEF Working
<1>1. << >> \in Paths => << >> \in S
  <2> SUFFICES ASSUME << >> \in Paths PROVE as[<< >>] = IF << >> \in c.dirty THEN w[<< >>] ELSE at[<< >>]
      OBVIOUS
  <2>1. as[<< >>] = FlushRoot(c) /\ at[<< >>] = TopPage(c)  BY PagesUnfold, CursorOnIs
  <2>2. c.dirty = {} => << >> \notin c.dirty /\ TopPage(c) = c.root  BY <1>0 DEF CleanAsLoaded
  <2>3. c.dirty # {} => << >> \in c.dirty  BY DirtyRoot
  <2> HIDE DEF at, as
  <2> QED BY <2>1, <2>2, <2>3 DEF FlushRoot
<1>2. ASSUME NEW p \in Paths, p # << >>, Front(p) \in S PROVE p \in S
  <2> DEFINE q == Front(p)
             n == Last(p)
  <2>1. as[p] = Below(d, p, as[q]) /\ at[p] = Below(c, p, at[q])  BY <1>2, PagesUnfold
  <2>2. DOMAIN d.page = {}  BY CursorOnIs
  <2>3. Append(q, n) = p /\ q \in Paths  BY <1>2, ParentOf
  <2>4. as[q] = IF q \in c.dirty THEN w[q] ELSE at[q]  BY <1>2
  <2>5. p \in DOMAIN c.page => q \in DOMAIN c.page /\ c.page[q].kind = "branch"
                               /\ n \in DOMAIN c.page[q].children
      BY <1>0, <1>2 DEF Hangs
  <2>6. q \in DOMAIN c.page => at[q] = c.page[q]  BY <1>0, WorkingPage
  <2>7. (p \in c.dirty => q \in c.dirty /\ p \in DOMAIN c.page) /\ (q \in c.dirty => q \in DOMAIN c.page)
      BY <1>0, <1>2 DEF DirtyAbove
  <2>8. p \in DOMAIN c.page /\ p \notin c.dirty =>
            p \in DOMAIN c.clean /\ c.clean[p] = c.page[p] /\ c.page[q].children[n] = c.page[p]
      BY <1>0, <1>2 DEF CleanAsLoaded
  <2>9. p \in DOMAIN c.clean => p \in DOMAIN c.page  BY <1>0 DEF CleanAsLoaded
  <2>10. as[p] = IF p \in c.dirty THEN w[p] ELSE at[p]
    <3>1. CASE q \in c.dirty
      <4>1. /\ c.page[q].kind = "leaf" => w[q] = c.page[q]
            /\ c.page[q].kind # "leaf" =>
                  /\ w[q].kind = "branch" /\ DOMAIN w[q].children = DOMAIN c.page[q].children
                  /\ \A m \in DOMAIN c.page[q].children : w[q].children[m] = Handle(c, w, q, m)
          BY <3>1, WrittenPage
      <4>2. Handle(c, w, q, n) = IF p \in c.dirty THEN w[p]
                                 ELSE IF p \in DOMAIN c.clean THEN c.clean[p] ELSE c.page[q].children[n]
          BY <2>3, Zenon DEF Handle
      <4>3. c.page[q].kind \in {"leaf", "branch"}  BY <1>0, <2>7, <3>1 DEF Hangs
      <4>4. at[q] = c.page[q] /\ as[q] = w[q]  BY <2>4, <2>6, <2>7, <3>1
      <4> HIDE DEF at, as, w, d, q, n
      <4>5. CASE c.page[q].kind = "leaf"
          BY <2>1, <2>5, <2>7, <4>1, <4>4, <4>5 DEF Below
      <4>6. CASE c.page[q].kind = "branch" /\ n \notin DOMAIN c.page[q].children
          BY <2>1, <2>5, <2>7, <4>1, <4>4, <4>6 DEF Below, n
      <4>7. CASE c.page[q].kind = "branch" /\ n \in DOMAIN c.page[q].children
        <5>1. w[q].kind = "branch" /\ n \in DOMAIN w[q].children /\ w[q].children[n] = Handle(c, w, q, n)
            BY <4>1, <4>7
        <5>2. as[p] = Handle(c, w, q, n)  BY <2>1, <2>2, <4>4, <5>1 DEF Below, n
        <5>3. at[p] = IF p \in DOMAIN c.page THEN c.page[p] ELSE c.page[q].children[n]
            BY <2>1, <4>4, <4>7 DEF Below, n
        <5> QED BY <2>8, <2>9, <4>2, <5>2, <5>3
      <4> QED BY <4>3, <4>5, <4>6, <4>7
    <3>2. CASE q \notin c.dirty
      <4>1. as[q] = at[q] /\ p \notin c.dirty  BY <2>4, <2>7, <3>2
      <4> HIDE DEF at, as, w, d, q, n
      <4>2. CASE p \in DOMAIN c.page
        <5>1. at[q] = c.page[q] /\ c.page[q].kind = "branch" /\ n \in DOMAIN c.page[q].children
              /\ c.page[q].children[n] = c.page[p]
            BY <2>5, <2>6, <2>8, <4>1, <4>2
        <5>2. as[p] = at[q].children[n]  BY <2>1, <2>2, <4>1, <5>1 DEF Below, n
        <5>3. at[p] = c.page[p]  BY <2>1, <4>2, <5>1 DEF Below, n
        <5> QED BY <4>1, <5>1, <5>2, <5>3
      <4>3. CASE p \notin DOMAIN c.page  BY <2>1, <2>2, <4>1, <4>3 DEF Below
      <4> QED BY <4>2, <4>3
    <3> QED BY <3>1, <3>2
  <2> QED BY <2>10
<1>3. \A p \in Paths : p \in S
  <2> HIDE DEF S
  <2> QED BY <1>1, <1>2, PathInduction
<1> QED BY <1>3

LEMMA FlushAlike ==
  ASSUME NEW c, Working(c), NEW p \in Paths
  PROVE  \/ PagesOf(CursorOn(FlushRoot(c)))[p] = PagesOf(c)[p]
         \/ /\ PagesOf(CursorOn(FlushRoot(c)))[p].kind = "branch" /\ PagesOf(c)[p].kind = "branch"
            /\ DOMAIN PagesOf(CursorOn(FlushRoot(c)))[p].children = DOMAIN PagesOf(c)[p].children
<1> DEFINE at == PagesOf(c)
           as == PagesOf(CursorOn(FlushRoot(c)))
<1>1. as[p] = IF p \in c.dirty THEN Written(c)[p] ELSE at[p]  BY FlushedPages
<1>2. CASE p \notin c.dirty  BY <1>1, <1>2
<1>3. CASE p \in c.dirty
  <2>1. p \in DOMAIN c.page /\ Hangs(c)  BY <1>3 DEF Working, DirtyAbove
  <2>2. at[p] = c.page[p] /\ c.page[p].kind \in {"leaf", "branch"}  BY <2>1, WorkingPage DEF Hangs
  <2>3. /\ c.page[p].kind = "leaf" => Written(c)[p] = c.page[p]
        /\ c.page[p].kind # "leaf" =>
              /\ Written(c)[p].kind = "branch"
              /\ DOMAIN Written(c)[p].children = DOMAIN c.page[p].children
      BY <1>3, WrittenPage
  <2> HIDE DEF at, as
  <2>4. \/ as[p] = at[p]
        \/ as[p].kind = "branch" /\ at[p].kind = "branch" /\ DOMAIN as[p].children = DOMAIN at[p].children
      BY <1>1, <1>3, <2>2, <2>3
  <2> QED BY <2>4 DEF at, as
<1> QED BY <1>2, <1>3

LEMMA FlushSound ==
  ASSUME NEW c, NEW k, NEW set, Sound(c, k, set)
  PROVE  Sound(CursorOn(FlushRoot(c)), k, set)
<1> DEFINE at == PagesOf(c)
           d == CursorOn(FlushRoot(c))
           as == PagesOf(d)
<1>0. Working(c) /\ SoundTree(at) /\ \A x \in Held[k] : HoldsOf(at, x, set[x])  BY DEF Sound
<1>1. ASSUME NEW p \in Paths
      PROVE  \/ as[p] = at[p]
             \/ /\ as[p].kind = "branch" /\ at[p].kind = "branch"
                /\ DOMAIN as[p].children = DOMAIN at[p].children
    BY <1>0, FlushAlike
<1>2. Working(d)  BY CursorOnIs
<1> HIDE DEF at, as, d
<1>3. SoundTree(as)
  <2> SUFFICES ASSUME NEW p \in Paths PROVE SoundPage(p, as[p])  BY DEF SoundTree
  <2>1. SoundPage(p, at[p])  BY <1>0 DEF SoundTree
  <2>2. CASE as[p] = at[p]  BY <2>1, <2>2
  <2>3. CASE /\ as[p].kind = "branch" /\ at[p].kind = "branch"
             /\ DOMAIN as[p].children = DOMAIN at[p].children
      BY <2>1, <2>3 DEF SoundPage
  <2> QED BY <1>1, <2>2, <2>3
<1>4. \A p \in Paths : (as[p].kind = "leaf" \/ at[p].kind = "leaf") => as[p] = at[p]  BY <1>1
<1>5. ASSUME NEW x \in Held[k] PROVE HoldsOf(as, x, set[x])
  <2>1. HoldsOf(at, x, set[x])  BY <1>0
  <2>2. Holders(as, x) = Holders(at, x)  BY <1>4 DEF Holders
  <2>3. \A p \in Holders(at, x) : as[p] = at[p]  BY <1>4 DEF Holders
  <2> QED BY <2>1, <2>2, <2>3 DEF HoldsOf
<1>6. Working(d) /\ SoundTree(as) /\ \A x \in Held[k] : HoldsOf(as, x, set[x])  BY <1>2, <1>3, <1>5
<1> QED BY <1>6, Zenon DEF Sound, as, d

LEMMA SoundResolvable ==
  ASSUME NEW c, NEW k, NEW set, Sound(c, k, set)
  PROVE  Resolvable(c)
<1> DEFINE at == PagesOf(c)
<1>0. /\ Working(c) /\ SoundTree(at) /\ IsCursor(c) /\ Hangs(c) /\ DirtyAbove(c) /\ CleanAsLoaded(c)
    BY DEF Sound, Working
<1> SUFFICES ASSUME NEW p \in c.dirty, c.page[p].kind = "branch", NEW n \in DOMAIN c.page[p].children,
                    Append(p, n) \notin c.dirty \cup DOMAIN c.clean
             PROVE  c.page[p].children[n] # Pending
    BY DEF Resolvable
<1> DEFINE q == Append(p, n)
<1>1. p \in DOMAIN c.page /\ p \in Paths /\ at[p] = c.page[p]  BY <1>0, WorkingPage DEF DirtyAbove
<1>2. q \in Paths
  <2>1. SoundPage(p, c.page[p])  BY <1>0, <1>1 DEF SoundTree
  <2> QED BY <2>1 DEF SoundPage
<1>3. q # << >> /\ Front(q) = p /\ Last(q) = n  BY <1>1, <1>2, ChildOf
<1>4. q \notin DOMAIN c.page  BY <1>0, <1>3 DEF CleanAsLoaded
<1>5. at[q] = Below(c, q, at[p])
  <2>1. at[q] = IF q = << >> THEN TopPage(c) ELSE Below(c, q, at[Front(q)])  BY <1>2, PagesUnfold
  <2> QED BY <1>3, <2>1, Zenon
<1>6. SoundPage(q, at[q])  BY <1>0, <1>2 DEF SoundTree
<1> HIDE DEF at, q
<1>7. at[q] = c.page[p].children[n]  BY <1>1, <1>3, <1>4, <1>5 DEF Below
<1>8. at[q] = NoPage \/ at[q].kind = "leaf" \/ at[q].kind = "branch"  BY <1>6 DEF SoundPage
<1>9. at[q] # Pending  BY <1>8 DEF NoPage, Pending
<1> QED BY <1>7, <1>9

-----------------------------------------------------------------------------
(* Marking *)

Above(path) == {p \in Paths : IsStrictPrefix(p, path)}
ChildrenOf(c, p) == IF p \in DOMAIN c.page THEN c.page[p].children ELSE << >>
Rebound(c, path, p) == Branch(Over(Single(path[Len(p) + 1], Pending), ChildrenOf(c, p)))

MarkedPage(c, path, pages) ==
    Over([p \in Above(path) |-> Rebound(c, path, p)], Over(pages, c.page))

LEMMA MarkIs ==
  ASSUME NEW c, IsCursor(c), NEW path, NEW pages
  PROVE  /\ IsCursor(Mark(c, path, pages)) /\ Mark(c, path, pages).clean = c.clean
         /\ Mark(c, path, pages).dirty = c.dirty \cup Above(path) \cup DOMAIN pages
         /\ Mark(c, path, pages).page = MarkedPage(c, path, pages)
<1> DEFINE pg == MarkedPage(c, path, pages)
           dt == c.dirty \cup Above(path) \cup DOMAIN pages
<1>1. Mark(c, path, pages) = [c EXCEPT !.page = pg, !.dirty = dt]
    BY DEF Mark, MarkedPage, Above, Rebound, ChildrenOf
<1> HIDE DEF pg, dt
<1>2. Mark(c, path, pages) = [root |-> c.root, loaded |-> c.loaded, page |-> pg, dirty |-> dt, clean |-> c.clean]
    BY <1>1 DEF IsCursor
<1>3. /\ IsCursor(Mark(c, path, pages)) /\ Mark(c, path, pages).clean = c.clean
      /\ Mark(c, path, pages).dirty = dt /\ Mark(c, path, pages).page = pg
    BY <1>2 DEF IsCursor
<1> QED BY <1>3 DEF pg, dt

LEMMA ReboundIs ==
  ASSUME NEW c, NEW path, NEW p
  PROVE  /\ Rebound(c, path, p).kind = "branch"
         /\ DOMAIN Rebound(c, path, p).children = {path[Len(p) + 1]} \cup DOMAIN ChildrenOf(c, p)
         /\ \A n \in DOMAIN ChildrenOf(c, p) : n # path[Len(p) + 1] =>
               Rebound(c, path, p).children[n] = ChildrenOf(c, p)[n]
<1> DEFINE i == path[Len(p) + 1]
           s == Single(i, Pending)
           ks == ChildrenOf(c, p)
           r == Over(s, ks)
<1>1. Rebound(c, path, p) = Branch(r)  BY DEF Rebound
<1>2. DOMAIN s = {i}  BY SingleIs
<1>3. DOMAIN r = DOMAIN s \cup DOMAIN ks /\ \A n \in DOMAIN ks : n \notin DOMAIN s => r[n] = ks[n]
  <2> HIDE DEF s, ks
  <2> QED BY OverIs, Zenon
<1> HIDE DEF s, r, ks, i
<1>4. Rebound(c, path, p).kind = "branch" /\ Rebound(c, path, p).children = r  BY <1>1, BranchIs, Zenon
<1>5. /\ DOMAIN r = {i} \cup DOMAIN ks
      /\ \A n \in DOMAIN ks : n # i => r[n] = ks[n]
    BY <1>2, <1>3
<1> QED BY <1>4, <1>5, Zenon DEF i, ks

(* Pages that can be put at and below a path. *)
Fit(path, pages) ==
    /\ path \in DOMAIN pages
    /\ \A p \in DOMAIN pages :
          /\ p \in Paths /\ IsPrefix(path, p) /\ pages[p].kind \in {"leaf", "branch"}
          /\ SoundPage(p, pages[p])
          /\ p # path => /\ Front(p) \in DOMAIN pages /\ pages[Front(p)].kind = "branch"
                         /\ Last(p) \in DOMAIN pages[Front(p)].children
          /\ pages[p].kind = "branch" => \A n \in DOMAIN pages[p].children : Append(p, n) \in DOMAIN pages

(* A path at which pages are put: there is no branch, and what is above it was loaded. *)
Place(c, path) ==
    /\ path \in Paths /\ path # << >> /\ PagesOf(c)[path].kind # "branch"
    /\ \A q \in Above(path) : \/ q \in DOMAIN c.page /\ c.page[q].kind = "branch"
                              \/ q \notin DOMAIN c.page /\ PagesOf(c)[q] = NoPage

LEMMA NothingBelow ==
  ASSUME NEW c, Working(c), NEW path, Place(c, path), NEW p \in Paths, IsStrictPrefix(path, p)
  PROVE  PagesOf(c)[p] = NoPage /\ p \notin DOMAIN c.page
<1>1. path \in Paths /\ PagesOf(c)[path].kind # "branch"  BY DEF Place
<1>2. PagesOf(c)[p] = NoPage  BY <1>1, BranchesAbove
<1> QED BY <1>2, WorkingPage DEF Working

LEMMA MarkedPages ==
  ASSUME NEW c, IsCursor(c), NEW path \in Paths, NEW pages, Fit(path, pages)
  PROVE  /\ DOMAIN Mark(c, path, pages).page = Above(path) \cup DOMAIN pages \cup DOMAIN c.page
         /\ \A p \in Above(path) : Mark(c, path, pages).page[p] = Rebound(c, path, p) /\ p \notin DOMAIN pages
         /\ \A p \in DOMAIN pages : Mark(c, path, pages).page[p] = pages[p] /\ p \notin Above(path)
         /\ \A p \in DOMAIN c.page : p \notin Above(path) \cup DOMAIN pages =>
                Mark(c, path, pages).page[p] = c.page[p]
<1> DEFINE m == Mark(c, path, pages)
           a == [p \in Above(path) |-> Rebound(c, path, p)]
           o == Over(pages, c.page)
<1>1. m.page = Over(a, o)  BY MarkIs DEF MarkedPage
<1>2. DOMAIN a = Above(path) /\ \A p \in Above(path) : a[p] = Rebound(c, path, p)  OBVIOUS
<1>3. \A p \in DOMAIN pages : p \notin Above(path)
  <2> SUFFICES ASSUME NEW p \in DOMAIN pages, p \in Above(path) PROVE FALSE  OBVIOUS
  <2>1. p \in Paths /\ IsPrefix(path, p) /\ IsStrictPrefix(p, path)  BY DEF Fit, Above
  <2>2. Len(p) < Len(path) /\ Len(path) <= Len(p) /\ Len(p) \in Nat /\ Len(path) \in Nat
      BY <2>1, StrictlyAbove, AboveIsShorter, PathLen
  <2> QED BY <2>2
<1>4. /\ DOMAIN o = DOMAIN pages \cup DOMAIN c.page
      /\ \A p \in DOMAIN pages : o[p] = pages[p]
      /\ \A p \in DOMAIN c.page : p \notin DOMAIN pages => o[p] = c.page[p]
    BY OverIs, Zenon
<1> HIDE DEF a, o
<1>5. /\ DOMAIN Over(a, o) = DOMAIN a \cup DOMAIN o
      /\ \A p \in DOMAIN a : Over(a, o)[p] = a[p]
      /\ \A p \in DOMAIN o : p \notin DOMAIN a => Over(a, o)[p] = o[p]
    BY OverIs, Zenon
<1> HIDE DEF m
<1>6. /\ DOMAIN m.page = Above(path) \cup DOMAIN pages \cup DOMAIN c.page
      /\ \A p \in Above(path) : m.page[p] = Rebound(c, path, p)
      /\ \A p \in DOMAIN pages : p \notin Above(path) => m.page[p] = pages[p]
      /\ \A p \in DOMAIN c.page : p \notin Above(path) \cup DOMAIN pages => m.page[p] = c.page[p]
  <2>1. DOMAIN m.page = Above(path) \cup DOMAIN pages \cup DOMAIN c.page  BY <1>1, <1>2, <1>4, <1>5
  <2>2. \A p \in Above(path) : m.page[p] = Rebound(c, path, p)  BY <1>1, <1>2, <1>5
  <2>3. \A p \in DOMAIN o : p \notin Above(path) => m.page[p] = o[p]  BY <1>1, <1>2, <1>5
  <2> QED BY <1>4, <2>1, <2>2, <2>3
<1> QED BY <1>3, <1>6 DEF m

LEMMA AboveSteps ==
  ASSUME NEW path \in Paths, path # << >>
  PROVE  /\ << >> \in Above(path) /\ Above(path) \subseteq Paths /\ path \notin Above(path)
         /\ \A p \in Above(path) \cup {path} : p # << >> => Front(p) \in Above(path)
         /\ \A p \in Paths : p # << >> /\ Front(p) \in Above(path) =>
               (Last(p) = path[Len(Front(p)) + 1] <=> p \in Above(path) \cup {path})
<1>1. << >> \in Above(path) /\ Above(path) \subseteq Paths /\ path \notin Above(path)
    BY EmptyPath, RootIsAbove DEF Above, IsStrictPrefix
<1>2. ASSUME NEW p \in Above(path) \cup {path}, p # << >> PROVE Front(p) \in Above(path)
  <2>1. p \in Paths /\ IsPrefix(p, path)  BY <1>1, AboveItself DEF Above, IsStrictPrefix
  <2>2. Front(p) \in Paths /\ IsStrictPrefix(Front(p), p)  BY <1>2, <2>1, ParentOf, ParentAbove
  <2>3. IsPrefix(Front(p), p) /\ Len(Front(p)) < Len(p)  BY <2>1, <2>2, StrictlyAbove
  <2>4. IsPrefix(Front(p), path)  BY <2>1, <2>2, <2>3, AboveAbove
  <2>5. Len(p) <= Len(path) /\ Len(p) \in Nat /\ Len(path) \in Nat /\ Len(Front(p)) \in Nat
      BY <2>1, <2>2, AboveIsShorter, PathLen
  <2>6. Len(Front(p)) # Len(path)  BY <2>3, <2>5
  <2> QED BY <2>2, <2>4, <2>6 DEF Above, IsStrictPrefix
<1>3. ASSUME NEW p \in Paths, p # << >>, Front(p) \in Above(path)
      PROVE  Last(p) = path[Len(Front(p)) + 1] <=> p \in Above(path) \cup {path}
  <2> DEFINE q == Front(p)
  <2>1. q \in Paths /\ Append(q, Last(p)) = p  BY <1>3, ParentOf
  <2>2. IsStrictPrefix(q, path)  BY <1>3 DEF Above
  <2> HIDE DEF q
  <2>3. /\ IsPrefix(Append(q, path[Len(q) + 1]), path)
        /\ \A n : Append(q, n) \in Paths /\ IsPrefix(Append(q, n), path) => n = path[Len(q) + 1]
      BY <2>1, <2>2, NextOnTheWay
  <2>4. ASSUME Last(p) = path[Len(q) + 1] PROVE p \in Above(path) \cup {path}
    <3>1. IsPrefix(p, path)  BY <2>1, <2>3, <2>4
    <3> QED BY <3>1 DEF Above, IsStrictPrefix
  <2>5. ASSUME p \in Above(path) \cup {path} PROVE Last(p) = path[Len(q) + 1]
    <3>1. IsPrefix(p, path)  BY <2>5, AboveItself DEF Above, IsStrictPrefix
    <3>2. Append(q, Last(p)) \in Paths /\ IsPrefix(Append(q, Last(p)), path)  BY <2>1, <3>1
    <3> QED BY <2>3, <3>2
  <2> QED BY <2>4, <2>5 DEF q
<1> QED BY <1>1, <1>2, <1>3

LEMMA MarkHangs ==
  ASSUME NEW c, Working(c), NEW path, Place(c, path), NEW pages, Fit(path, pages)
  PROVE  Hangs(Mark(c, path, pages))
<1> DEFINE m == Mark(c, path, pages)
<1>0. IsCursor(c) /\ Hangs(c) /\ path \in Paths /\ path # << >>  BY DEF Working, Place
<1>1. /\ DOMAIN m.page = Above(path) \cup DOMAIN pages \cup DOMAIN c.page
      /\ \A p \in Above(path) : m.page[p] = Rebound(c, path, p)
      /\ \A p \in DOMAIN pages : m.page[p] = pages[p] /\ p \notin Above(path)
      /\ \A p \in DOMAIN c.page : p \notin Above(path) \cup DOMAIN pages => m.page[p] = c.page[p]
    BY <1>0, MarkedPages
<1> HIDE DEF m
<1>2. \A p \in Above(path) : /\ m.page[p].kind = "branch"
                             /\ path[Len(p) + 1] \in DOMAIN m.page[p].children
                             /\ DOMAIN ChildrenOf(c, p) \subseteq DOMAIN m.page[p].children
  <2> SUFFICES ASSUME NEW p \in Above(path)
               PROVE  /\ m.page[p].kind = "branch"
                      /\ path[Len(p) + 1] \in DOMAIN m.page[p].children
                      /\ DOMAIN ChildrenOf(c, p) \subseteq DOMAIN m.page[p].children
      OBVIOUS
  <2>1. m.page[p] = Rebound(c, path, p)  BY <1>1
  <2>2. /\ Rebound(c, path, p).kind = "branch"
        /\ DOMAIN Rebound(c, path, p).children = {path[Len(p) + 1]} \cup DOMAIN ChildrenOf(c, p)
      BY ReboundIs
  <2> QED BY <2>1, <2>2
<1>3. DOMAIN m.page \subseteq Paths  BY <1>0, <1>1 DEF Above, Fit, Hangs
<1>4. ASSUME NEW p \in DOMAIN m.page PROVE m.page[p].kind \in {"leaf", "branch"}
  <2>1. CASE p \in Above(path)  BY <1>2, <2>1
  <2>2. CASE p \in DOMAIN pages  BY <1>1, <2>2 DEF Fit
  <2>3. CASE p \in DOMAIN c.page /\ p \notin Above(path) \cup DOMAIN pages  BY <1>0, <1>1, <2>3 DEF Hangs
  <2> QED BY <1>1, <2>1, <2>2, <2>3
<1>5. ASSUME NEW p \in DOMAIN m.page, p # << >>
      PROVE  /\ Front(p) \in DOMAIN m.page /\ m.page[Front(p)].kind = "branch"
             /\ Last(p) \in DOMAIN m.page[Front(p)].children
  <2>0. p \in Paths  BY <1>3
  <2>1. CASE p \in Above(path) \cup {path}
    <3>1. Front(p) \in Above(path)  BY <1>0, <1>5, <2>1, AboveSteps
    <3>2. Last(p) = path[Len(Front(p)) + 1]  BY <1>0, <1>5, <2>0, <2>1, <3>1, AboveSteps
    <3> QED BY <1>1, <1>2, <3>1, <3>2
  <2>2. CASE p \in DOMAIN pages /\ p # path
    <3>1. Front(p) \in DOMAIN pages /\ pages[Front(p)].kind = "branch"
          /\ Last(p) \in DOMAIN pages[Front(p)].children
        BY <2>2 DEF Fit
    <3>2. m.page[Front(p)] = pages[Front(p)]  BY <1>1, <3>1
    <3> QED BY <1>1, <3>1, <3>2
  <2>3. CASE p \in DOMAIN c.page
    <3>1. /\ Front(p) \in DOMAIN c.page /\ c.page[Front(p)].kind = "branch"
          /\ Last(p) \in DOMAIN c.page[Front(p)].children /\ Front(p) \in Paths
        BY <1>0, <1>5, <2>3 DEF Hangs
    <3>2. CASE Front(p) \in Above(path)
      <4>1. ChildrenOf(c, Front(p)) = c.page[Front(p)].children  BY <3>1 DEF ChildrenOf
      <4>2. Last(p) \in DOMAIN ChildrenOf(c, Front(p))  BY <3>1, <4>1
      <4> QED BY <1>1, <1>2, <3>2, <4>2
    <3>3. CASE Front(p) \in DOMAIN pages
      <4>1. IsPrefix(path, Front(p))  BY <3>3 DEF Fit
      <4>2. IsStrictPrefix(path, p)  BY <1>0, <1>5, <2>0, <4>1, ParentAbove
      <4> QED BY <2>0, <2>3, <4>2, NothingBelow
    <3>4. CASE Front(p) \notin Above(path) \cup DOMAIN pages
      <4>1. m.page[Front(p)] = c.page[Front(p)]  BY <1>1, <3>1, <3>4
      <4> QED BY <1>1, <3>1, <4>1
    <3> QED BY <3>2, <3>3, <3>4
  <2> QED BY <1>1, <2>1, <2>2, <2>3
<1>6. Hangs(m)  BY <1>3, <1>4, <1>5 DEF Hangs
<1> QED BY <1>6 DEF m

LEMMA MarkWorking ==
  ASSUME NEW c, Working(c), NEW path, Place(c, path), NEW pages, Fit(path, pages)
  PROVE  Working(Mark(c, path, pages))
<1> DEFINE m == Mark(c, path, pages)
<1>0. IsCursor(c) /\ Hangs(c) /\ DirtyAbove(c) /\ CleanAsLoaded(c) /\ path \in Paths /\ path # << >>
    BY DEF Working, Place
<1>a. IsCursor(c) /\ path \in Paths  BY <1>0
<1>1. /\ DOMAIN m.page = Above(path) \cup DOMAIN pages \cup DOMAIN c.page
      /\ \A p \in Above(path) : m.page[p] = Rebound(c, path, p)
      /\ \A p \in DOMAIN pages : m.page[p] = pages[p] /\ p \notin Above(path)
      /\ \A p \in DOMAIN c.page : p \notin Above(path) \cup DOMAIN pages => m.page[p] = c.page[p]
    BY <1>a, MarkedPages
<1>2. IsCursor(m) /\ m.clean = c.clean /\ m.dirty = c.dirty \cup Above(path) \cup DOMAIN pages
    BY <1>a, MarkIs
<1>3. Hangs(m)  BY MarkHangs
<1> HIDE DEF m
<1>4. DirtyAbove(m)
  <2>1. m.dirty \subseteq DOMAIN m.page  BY <1>0, <1>1, <1>2 DEF DirtyAbove
  <2>2. ASSUME NEW p \in m.dirty, p # << >> PROVE Front(p) \in m.dirty
    <3>1. CASE p \in c.dirty  BY <1>0, <1>2, <2>2, <3>1 DEF DirtyAbove
    <3>2. CASE p \in Above(path) \cup {path}  BY <1>0, <1>2, <2>2, <3>2, AboveSteps
    <3>3. CASE p \in DOMAIN pages /\ p # path  BY <1>2, <3>3 DEF Fit
    <3> QED BY <1>2, <2>2, <3>1, <3>2, <3>3
  <2> QED BY <2>1, <2>2 DEF DirtyAbove
<1>5. CleanAsLoaded(m)
  <2>1. DOMAIN m.clean \subseteq DOMAIN m.page  BY <1>0, <1>1, <1>2 DEF CleanAsLoaded
  <2>2. << >> \in m.dirty  BY <1>0, <1>2, AboveSteps
  <2>3. ASSUME NEW p \in DOMAIN m.page \ m.dirty, p # << >>
        PROVE  /\ p \in DOMAIN m.clean /\ m.clean[p] = m.page[p]
               /\ m.page[Front(p)].children[Last(p)] = m.page[p]
    <3>1. p \in DOMAIN c.page \ c.dirty /\ p \notin Above(path) \cup DOMAIN pages /\ p \in Paths
        BY <1>0, <1>1, <1>2, <2>3 DEF Hangs
    <3>2. m.page[p] = c.page[p]  BY <1>1, <3>1
    <3>3. /\ p \in DOMAIN c.clean /\ c.clean[p] = c.page[p]
          /\ c.page[Front(p)].children[Last(p)] = c.page[p]
        BY <1>0, <2>3, <3>1 DEF CleanAsLoaded
    <3>4. Front(p) \in DOMAIN c.page /\ Last(p) \in DOMAIN c.page[Front(p)].children  BY <1>0, <2>3, <3>1 DEF Hangs
    <3>5. m.page[Front(p)].children[Last(p)] = c.page[Front(p)].children[Last(p)]
      <4>1. CASE Front(p) \in Above(path)
        <5>1. p # path  BY <3>1 DEF Fit
        <5>2. Last(p) # path[Len(Front(p)) + 1]  BY <1>0, <2>3, <3>1, <4>1, <5>1, AboveSteps
        <5>3. ChildrenOf(c, Front(p)) = c.page[Front(p)].children  BY <3>4 DEF ChildrenOf
        <5>4. Rebound(c, path, Front(p)).children[Last(p)] = ChildrenOf(c, Front(p))[Last(p)]
          <6>1. Last(p) \in DOMAIN ChildrenOf(c, Front(p))  BY <3>4, <5>3
          <6> QED BY <5>2, <6>1, ReboundIs
        <5>5. m.page[Front(p)] = Rebound(c, path, Front(p))  BY <1>1, <4>1
        <5> QED BY <5>3, <5>4, <5>5
      <4>2. CASE Front(p) \in DOMAIN pages
        <5>1. IsPrefix(path, Front(p))  BY <4>2 DEF Fit
        <5>2. IsStrictPrefix(path, p)  BY <1>0, <2>3, <3>1, <5>1, ParentAbove
        <5> QED BY <3>1, <5>2, NothingBelow
      <4>3. CASE Front(p) \notin Above(path) \cup DOMAIN pages
        <5>1. m.page[Front(p)] = c.page[Front(p)]  BY <1>1, <3>4, <4>3
        <5> QED BY <5>1
      <4> QED BY <4>1, <4>2, <4>3
    <3> QED BY <1>2, <3>2, <3>3, <3>5
  <2> QED BY <2>1, <2>2, <2>3 DEF CleanAsLoaded
<1>6. Working(m)  BY <1>2, <1>3, <1>4, <1>5 DEF Working
<1> QED BY <1>6 DEF m

(* The tree after pages are put at a path: branches above it, the pages at *)
(* and below it, and everything else as before.                            *)
LEMMA MarkedTree ==
  ASSUME NEW c, Working(c), NEW path, Place(c, path), NEW pages, Fit(path, pages), NEW p \in Paths
  PROVE  PagesOf(Mark(c, path, pages))[p] =
             IF p \in Above(path) THEN Rebound(c, path, p)
             ELSE IF p \in DOMAIN pages THEN pages[p]
             ELSE IF IsPrefix(path, p) THEN NoPage ELSE PagesOf(c)[p]
<1> DEFINE m == Mark(c, path, pages)
           at == PagesOf(c)
           as == PagesOf(m)
           S == {r \in Paths : as[r] = IF r \in Above(path) THEN Rebound(c, path, r)
                                       ELSE IF r \in DOMAIN pages THEN pages[r]
                                       ELSE IF IsPrefix(path, r) THEN NoPage ELSE at[r]}
<1>0. IsCursor(c) /\ Hangs(c) /\ path \in Paths /\ path # << >>  BY DEF Working, Place
<1>1. /\ DOMAIN m.page = Above(path) \cup DOMAIN pages \cup DOMAIN c.page
      /\ \A r \in Above(path) : m.page[r] = Rebound(c, path, r)
      /\ \A r \in DOMAIN pages : m.page[r] = pages[r] /\ r \notin Above(path)
      /\ \A r \in DOMAIN c.page : r \notin Above(path) \cup DOMAIN pages => m.page[r] = c.page[r]
    BY <1>0, MarkedPages
<1>2. \A r \in DOMAIN m.page : as[r] = m.page[r]  BY MarkHangs, WorkingPage
<1>3. ASSUME NEW r \in Paths, r \in Above(path) \cup DOMAIN pages PROVE r \in S
  <2>1. as[r] = m.page[r]  BY <1>1, <1>2, <1>3
  <2> HIDE DEF as, m, at
  <2>2. CASE r \in Above(path)  BY <1>1, <2>1, <2>2
  <2>3. CASE r \in DOMAIN pages  BY <1>1, <2>1, <2>3
  <2> QED BY <1>3, <2>2, <2>3
<1>4. << >> \in Paths => << >> \in S
  <2>1. << >> \in Above(path)  BY <1>0, AboveSteps
  <2> HIDE DEF S
  <2> QED BY <1>3, <2>1
<1>5. ASSUME NEW r \in Paths, r # << >>, Front(r) \in S PROVE r \in S
  <2>1. CASE r \in Above(path) \cup DOMAIN pages
    <3> HIDE DEF S
    <3> QED BY <1>3, <2>1
  <2>2. CASE r \notin Above(path) \cup DOMAIN pages
    <3> DEFINE q == Front(r)
               n == Last(r)
    <3>1. q \in Paths /\ Append(q, n) = r  BY <1>5, ParentOf
    <3>2. as[r] = Below(m, r, as[q]) /\ at[r] = Below(c, r, at[q])  BY <1>5, PagesUnfold
    <3>3. as[q] = IF q \in Above(path) THEN Rebound(c, path, q)
                  ELSE IF q \in DOMAIN pages THEN pages[q]
                  ELSE IF IsPrefix(path, q) THEN NoPage ELSE at[q]
        BY <1>5
    <3>4. r # path /\ path \in DOMAIN pages  BY <2>2 DEF Fit
    <3>5. CASE IsPrefix(path, r)
      <4>1. IsStrictPrefix(path, r)  BY <3>4, <3>5 DEF IsStrictPrefix
      <4>2. IsPrefix(path, q)  BY <1>0, <1>5, <4>1, ParentAbove
      <4>3. q \notin Above(path)
        <5>1. ASSUME IsStrictPrefix(q, path) PROVE FALSE
          <6>1. Len(q) < Len(path) /\ Len(path) <= Len(q) /\ Len(q) \in Nat /\ Len(path) \in Nat
              BY <1>0, <3>1, <4>2, <5>1, StrictlyAbove, AboveIsShorter, PathLen
          <6> QED BY <6>1
        <5> QED BY <5>1 DEF Above
      <4>4. ASSUME q \in DOMAIN pages, pages[q].kind = "branch" PROVE n \notin DOMAIN pages[q].children
          BY <2>2, <3>1, <4>4 DEF Fit
      <4> HIDE DEF as, at, m, q, n
      <4>5. as[r] = NoPage
        <5>1. CASE q \in DOMAIN pages
            BY <3>2, <3>3, <4>3, <4>4, <5>1 DEF Below, n
        <5>2. CASE q \notin DOMAIN pages
          <6>1. as[q] = NoPage  BY <3>3, <4>2, <4>3, <5>2
          <6>2. as[q].kind # "branch"  BY <6>1 DEF NoPage
          <6> QED BY <3>2, <6>2 DEF Below
        <5> QED BY <5>1, <5>2
      <4> QED BY <2>2, <3>5, <4>5
    <3>6. CASE ~IsPrefix(path, r)
      <4>1. ~IsPrefix(path, q)
        <5>1. IsStrictPrefix(q, r)  BY <1>5, ParentAbove
        <5>2. IsPrefix(q, r)  BY <5>1 DEF IsStrictPrefix
        <5> QED BY <1>0, <3>1, <3>6, <5>2, AboveAbove
      <4>2. q \notin DOMAIN pages  BY <4>1 DEF Fit
      <4>3. (r \in DOMAIN m.page <=> r \in DOMAIN c.page) /\ (r \in DOMAIN c.page => m.page[r] = c.page[r])
          BY <1>1, <2>2
      <4>4. as[r] = at[r]
        <5>1. CASE q \notin Above(path)
          <6>1. as[q] = at[q]  BY <3>3, <4>1, <4>2, <5>1
          <6> HIDE DEF as, at, m, q, n, S
          <6> QED BY <3>2, <4>3, <6>1 DEF Below
        <5>2. CASE q \in Above(path)
          <6>1. n # path[Len(q) + 1]  BY <1>0, <1>5, <2>2, <3>4, <5>2, AboveSteps
          <6>2. /\ Rebound(c, path, q).kind = "branch"
                /\ DOMAIN Rebound(c, path, q).children = {path[Len(q) + 1]} \cup DOMAIN ChildrenOf(c, q)
                /\ \A i \in DOMAIN ChildrenOf(c, q) : i # path[Len(q) + 1] =>
                      Rebound(c, path, q).children[i] = ChildrenOf(c, q)[i]
              BY ReboundIs
          <6>3. as[q] = Rebound(c, path, q)  BY <3>3, <5>2
          <6>4. \/ q \in DOMAIN c.page /\ c.page[q].kind = "branch" /\ at[q] = c.page[q]
                \/ q \notin DOMAIN c.page /\ at[q] = NoPage
              BY <1>0, <5>2, WorkingPage DEF Place
          <6> HIDE DEF as, at, m, q, n, S
          <6>5. /\ as[q].kind = "branch"
                /\ n \in DOMAIN as[q].children <=> n \in DOMAIN ChildrenOf(c, q)
                /\ n \in DOMAIN ChildrenOf(c, q) => as[q].children[n] = ChildrenOf(c, q)[n]
              BY <6>1, <6>2, <6>3
          <6>6. CASE q \in DOMAIN c.page /\ c.page[q].kind = "branch" /\ at[q] = c.page[q]
            <7>1. ChildrenOf(c, q) = at[q].children /\ at[q].kind = "branch"  BY <6>6 DEF ChildrenOf
            <7>2. /\ n \in DOMAIN as[q].children <=> n \in DOMAIN at[q].children
                  /\ n \in DOMAIN at[q].children => as[q].children[n] = at[q].children[n]
                BY <6>5, <7>1
            <7>3. as[r] = IF n \notin DOMAIN as[q].children THEN NoPage
                          ELSE IF r \in DOMAIN m.page THEN m.page[r] ELSE as[q].children[n]
                BY <3>2, <6>5 DEF Below, n
            <7>4. at[r] = IF n \notin DOMAIN at[q].children THEN NoPage
                          ELSE IF r \in DOMAIN c.page THEN c.page[r] ELSE at[q].children[n]
                BY <3>2, <7>1 DEF Below, n
            <7>5. CASE n \notin DOMAIN at[q].children  BY <7>2, <7>3, <7>4, <7>5
            <7>6. CASE n \in DOMAIN at[q].children /\ r \in DOMAIN c.page
              <8>1. as[r] = m.page[r] /\ at[r] = c.page[r]  BY <4>3, <7>2, <7>3, <7>4, <7>6
              <8> QED BY <4>3, <7>6, <8>1
            <7>7. CASE n \in DOMAIN at[q].children /\ r \notin DOMAIN c.page
              <8>1. as[r] = as[q].children[n] /\ at[r] = at[q].children[n]  BY <4>3, <7>2, <7>3, <7>4, <7>7
              <8> QED BY <7>2, <7>7, <8>1
            <7> QED BY <7>5, <7>6, <7>7
          <6>7. CASE q \notin DOMAIN c.page /\ at[q] = NoPage
            <7>1. ChildrenOf(c, q) = << >>  BY <6>7 DEF ChildrenOf
            <7>2. n \notin DOMAIN as[q].children  BY <6>5, <7>1, NoDomain
            <7>3. at[q].kind # "branch"  BY <6>7 DEF NoPage
            <7> QED BY <3>2, <7>2, <7>3 DEF Below, n
          <6> QED BY <6>4, <6>6, <6>7
        <5> QED BY <5>1, <5>2
      <4> QED BY <2>2, <3>6, <4>4
    <3> QED BY <3>5, <3>6
  <2> QED BY <2>1, <2>2
<1>6. \A r \in Paths : r \in S
  <2> HIDE DEF S
  <2> QED BY <1>4, <1>5, PathInduction
<1> QED BY <1>6

LEMMA MarkedSoundTree ==
  ASSUME NEW c, Working(c), SoundTree(PagesOf(c)), NEW path, Place(c, path), NEW pages, Fit(path, pages)
  PROVE  SoundTree(PagesOf(Mark(c, path, pages)))
<1> DEFINE at == PagesOf(c)
           as == PagesOf(Mark(c, path, pages))
<1>0. path \in Paths /\ path # << >> /\ Hangs(c)  BY DEF Place, Working
<1> SUFFICES ASSUME NEW p \in Paths PROVE SoundPage(p, as[p])  BY DEF SoundTree
<1>1. as[p] = IF p \in Above(path) THEN Rebound(c, path, p)
              ELSE IF p \in DOMAIN pages THEN pages[p]
              ELSE IF IsPrefix(path, p) THEN NoPage ELSE at[p]
    BY MarkedTree
<1>2. SoundPage(p, at[p])  BY DEF SoundTree
<1>3. SoundPage(p, NoPage)  BY DEF SoundPage, NoPage
<1>4. p \in DOMAIN pages => SoundPage(p, pages[p])  BY DEF Fit
<1>5. ASSUME p \in Above(path) PROVE SoundPage(p, Rebound(c, path, p))
  <2>1. IsStrictPrefix(p, path)  BY <1>5 DEF Above
  <2>2. Append(p, path[Len(p) + 1]) \in Paths  BY <1>0, <2>1, NextOnTheWay
  <2>3. Len(p) < Depth
    <3>1. Len(p) < Len(path) /\ Len(p) \in Nat /\ Len(path) \in Nat /\ Len(path) <= Depth /\ Depth \in Nat
        BY <1>0, <2>1, StrictlyAbove, PathLen
    <3> QED BY <3>1
  <2>4. \A n \in DOMAIN ChildrenOf(c, p) : Append(p, n) \in Paths
    <3>1. CASE p \in DOMAIN c.page
      <4>1. at[p] = c.page[p] /\ c.page[p].kind = "branch"  BY <1>0, <1>5, <3>1, WorkingPage DEF Place
      <4>2. ChildrenOf(c, p) = c.page[p].children  BY <3>1 DEF ChildrenOf
      <4> HIDE DEF at
      <4> QED BY <1>2, <4>1, <4>2 DEF SoundPage
    <3>2. CASE p \notin DOMAIN c.page
      <4>1. ChildrenOf(c, p) = << >>  BY <3>2 DEF ChildrenOf
      <4> QED BY <4>1, NoDomain
    <3> QED BY <3>1, <3>2
  <2>5. /\ Rebound(c, path, p).kind = "branch"
        /\ DOMAIN Rebound(c, path, p).children = {path[Len(p) + 1]} \cup DOMAIN ChildrenOf(c, p)
      BY ReboundIs
  <2>6. \A n \in DOMAIN Rebound(c, path, p).children : Append(p, n) \in Paths  BY <2>2, <2>4, <2>5
  <2> QED BY <2>3, <2>5, <2>6 DEF SoundPage
<1> HIDE DEF at, as
<1> QED BY <1>1, <1>2, <1>3, <1>4, <1>5

(* Which leaf holds an id after pages are put at a path. *)
LEMMA MarkedHolders ==
  ASSUME NEW c, Working(c), NEW path, Place(c, path), NEW pages, Fit(path, pages), NEW x, NEW p \in Paths
  PROVE  /\ p \in Holders(PagesOf(Mark(c, path, pages)), x) =>
               \/ /\ p \in DOMAIN pages /\ pages[p].kind = "leaf" /\ x \in DOMAIN pages[p].entries
                  /\ PagesOf(Mark(c, path, pages))[p] = pages[p]
               \/ /\ p \in Holders(PagesOf(c), x) /\ ~IsPrefix(path, p) /\ p \notin Above(path)
                  /\ PagesOf(Mark(c, path, pages))[p] = PagesOf(c)[p]
         /\ p \in DOMAIN pages /\ pages[p].kind = "leaf" /\ x \in DOMAIN pages[p].entries =>
               p \in Holders(PagesOf(Mark(c, path, pages)), x)
         /\ p \in Holders(PagesOf(c), x) /\ p # path => p \in Holders(PagesOf(Mark(c, path, pages)), x)
<1> DEFINE at == PagesOf(c)
           as == PagesOf(Mark(c, path, pages))
<1>0. path \in Paths /\ Hangs(c) /\ IsCursor(c)  BY DEF Place, Working
<1>1. as[p] = IF p \in Above(path) THEN Rebound(c, path, p)
              ELSE IF p \in DOMAIN pages THEN pages[p]
              ELSE IF IsPrefix(path, p) THEN NoPage ELSE at[p]
    BY MarkedTree
<1>2. Rebound(c, path, p).kind # "leaf" /\ NoPage.kind # "leaf"  BY ReboundIs DEF NoPage
<1>3. p \in DOMAIN pages => p \notin Above(path) /\ IsPrefix(path, p)
  <2>1. \A r \in DOMAIN pages : r \notin Above(path)  BY <1>0, MarkedPages
  <2> QED BY <2>1 DEF Fit
<1>4. ASSUME at[p].kind = "leaf", p # path PROVE p \notin Above(path) /\ ~IsPrefix(path, p)
  <2>1. at[p] # NoPage
    <3> HIDE DEF at
    <3> QED BY <1>4 DEF NoPage
  <2>2. ASSUME p \in Above(path) PROVE FALSE
    <3>1. p \in DOMAIN c.page /\ c.page[p].kind = "branch"  BY <2>1, <2>2 DEF Place
    <3>2. at[p] = c.page[p]  BY <1>0, <3>1, WorkingPage
    <3> HIDE DEF at
    <3> QED BY <1>4, <3>1, <3>2
  <2>3. ASSUME IsPrefix(path, p) PROVE FALSE
    <3>1. IsStrictPrefix(path, p)  BY <1>4, <2>3 DEF IsStrictPrefix
    <3> QED BY <2>1, <3>1, NothingBelow
  <2> QED BY <2>2, <2>3
<1> HIDE DEF at, as
<1>5. p \in Holders(as, x) <=> as[p].kind = "leaf" /\ x \in DOMAIN as[p].entries  BY DEF Holders
<1>6. p \in Holders(at, x) <=> at[p].kind = "leaf" /\ x \in DOMAIN at[p].entries  BY DEF Holders
<1>7. p \in Holders(as, x) =>
         \/ /\ p \in DOMAIN pages /\ pages[p].kind = "leaf" /\ x \in DOMAIN pages[p].entries
            /\ as[p] = pages[p]
         \/ /\ p \in Holders(at, x) /\ ~IsPrefix(path, p) /\ p \notin Above(path)
            /\ as[p] = at[p]
  <2>1. CASE p \in Above(path)  BY <1>1, <1>2, <1>5, <2>1
  <2>2. CASE p \in DOMAIN pages
    <3>1. as[p] = pages[p]  BY <1>1, <1>3, <2>2
    <3> QED BY <1>5, <2>2, <3>1
  <2>3. CASE p \notin Above(path) \cup DOMAIN pages /\ IsPrefix(path, p)
    <3>1. as[p] = NoPage  BY <1>1, <2>3
    <3> QED BY <1>2, <1>5, <3>1
  <2>4. CASE p \notin Above(path) \cup DOMAIN pages /\ ~IsPrefix(path, p)
    <3>1. as[p] = at[p]  BY <1>1, <2>4
    <3> QED BY <1>5, <1>6, <2>4, <3>1
  <2> QED BY <2>1, <2>2, <2>3, <2>4
<1>8. p \in DOMAIN pages /\ pages[p].kind = "leaf" /\ x \in DOMAIN pages[p].entries => p \in Holders(as, x)
  <2>1. p \in DOMAIN pages => as[p] = pages[p]  BY <1>1, <1>3
  <2> QED BY <1>5, <2>1
<1>9. p \in Holders(at, x) /\ p # path => p \in Holders(as, x)
  <2> SUFFICES ASSUME p \in Holders(at, x), p # path PROVE p \in Holders(as, x)  OBVIOUS
  <2>1. p \notin Above(path) /\ ~IsPrefix(path, p) /\ p \notin DOMAIN pages  BY <1>3, <1>4, <1>6
  <2>2. as[p] = at[p]  BY <1>1, <2>1
  <2> QED BY <1>5, <1>6, <2>2
<1> QED BY <1>7, <1>8, <1>9 DEF at, as

(* Pages at a path on the route of x that hold what the leaf there held,   *)
(* and a new entry of x, make the set with that entry of x.                *)
LEMMA MarkSound ==
  ASSUME NEW c, NEW k \in Kinds, NEW set, Sound(c, k, set), NEW x \in Held[k],
         NEW path \in Along(x), Place(c, path), NEW pages, Fit(path, pages),
         NEW new, \A y \in Held[k] : y # x => new[y] = set[y],
         new[x] # NoEntry,
         \A p \in DOMAIN pages : pages[p].kind = "leaf" => \A y \in DOMAIN pages[p].entries :
             \/ y = x /\ pages[p].entries[y] = new[x]
             \/ y # x /\ path \in Holders(PagesOf(c), y) /\ pages[p].entries[y] = PagesOf(c)[path].entries[y],
         \A y : y = x \/ path \in Holders(PagesOf(c), y) =>
             \E p \in DOMAIN pages : pages[p].kind = "leaf" /\ y \in DOMAIN pages[p].entries
  PROVE  Sound(Mark(c, path, pages), k, new)
<1> DEFINE m == Mark(c, path, pages)
           at == PagesOf(c)
           as == PagesOf(m)
<1>0. /\ Working(c) /\ SoundTree(at) /\ \A y \in Held[k] : HoldsOf(at, y, set[y])
      /\ x \in PagedIds /\ path \in Paths /\ DOMAIN pages \subseteq Paths
    BY AlongIs DEF Sound, PagedIds, Fit, Place
<1>1. Working(m) /\ SoundTree(as)  BY <1>0, MarkWorking, MarkedSoundTree
<1>2. ASSUME NEW y \in Held[k], NEW p \in Holders(as, y)
      PROVE  as[p].entries[y] = new[y] /\ new[y] # NoEntry
  <2>0. p \in Paths  BY DEF Holders
  <2>1. \/ /\ p \in DOMAIN pages /\ pages[p].kind = "leaf" /\ y \in DOMAIN pages[p].entries
           /\ as[p] = pages[p]
        \/ /\ p \in Holders(at, y) /\ ~IsPrefix(path, p) /\ p \notin Above(path)
           /\ as[p] = at[p]
      BY <1>0, <1>2, <2>0, MarkedHolders
  <2>2. \A r \in Holders(at, y) : at[r].entries[y] = set[y] /\ set[y] # NoEntry  BY <1>0 DEF HoldsOf
  <2>3. CASE /\ p \in DOMAIN pages /\ pages[p].kind = "leaf" /\ y \in DOMAIN pages[p].entries
             /\ as[p] = pages[p]
    <3>1. \/ y = x /\ pages[p].entries[y] = new[x]
          \/ y # x /\ path \in Holders(at, y) /\ pages[p].entries[y] = at[path].entries[y]
        BY <2>3
    <3> HIDE DEF as, at
    <3> QED BY <2>2, <2>3, <3>1
  <2>4. CASE /\ p \in Holders(at, y) /\ ~IsPrefix(path, p) /\ p \notin Above(path)
             /\ as[p] = at[p]
    <3>1. ASSUME y = x PROVE FALSE
      <4>1. p \in Along(x)  BY <1>0, <2>4, <3>1, HolderAlong
      <4>2. Len(path) <= Len(p) \/ Len(p) <= Len(path)  BY <1>0, <2>0, PathLen
      <4>3. IsPrefix(path, p) \/ IsPrefix(p, path)  BY <1>0, <4>1, <4>2, BothAlong
      <4>4. IsPrefix(p, path) /\ p # path  BY <1>0, <2>4, <4>3, AboveItself
      <4> QED BY <2>0, <2>4, <4>4 DEF Above, IsStrictPrefix
    <3> HIDE DEF as, at
    <3> QED BY <2>2, <2>4, <3>1
  <2> QED BY <2>1, <2>3, <2>4
<1>3. ASSUME NEW y \in Held[k], new[y] # NoEntry PROVE Holders(as, y) # {}
  <2>1. ASSUME y = x \/ path \in Holders(at, y) PROVE Holders(as, y) # {}
    <3>1. PICK p \in DOMAIN pages : pages[p].kind = "leaf" /\ y \in DOMAIN pages[p].entries  BY <2>1
    <3>2. p \in Holders(as, y)  BY <1>0, <3>1, MarkedHolders
    <3> QED BY <3>2
  <2>2. CASE y # x /\ path \notin Holders(at, y)
    <3>1. set[y] # NoEntry  BY <1>3, <2>2
    <3>2. PICK p \in Holders(at, y) : TRUE  BY <1>0, <3>1 DEF HoldsOf
    <3>3. p \in Paths /\ p # path  BY <2>2, <3>2 DEF Holders
    <3>4. p \in Holders(as, y)  BY <1>0, <3>2, <3>3, MarkedHolders
    <3> QED BY <3>4
  <2> QED BY <2>1, <2>2
<1> HIDE DEF as, at, m
<1>4. \A y \in Held[k] : HoldsOf(as, y, new[y])  BY <1>2, <1>3 DEF HoldsOf
<1> QED BY <1>1, <1>4, Zenon DEF Sound, as, m

-----------------------------------------------------------------------------
(* Splitting *)

Under(entries, p) == {x \in DOMAIN entries : IsPrefix(p, Route[x])}
Full(entries, p) == Cardinality(Under(entries, p)) > Capacity /\ Len(p) < Depth
Made(entries, path) ==
    {p \in Paths : /\ IsPrefix(path, p) /\ Under(entries, p) # {}
                   /\ \A q \in Paths : IsPrefix(path, q) /\ IsStrictPrefix(q, p) => Full(entries, q)}

LEMMA SplitIs ==
  ASSUME NEW entries, NEW path
  PROVE  /\ DOMAIN Split(entries, path) = Made(entries, path)
         /\ \A p \in Made(entries, path) :
               /\ Full(entries, p) =>
                     /\ Split(entries, path)[p].kind = "branch" /\ Len(p) < Depth
                     /\ DOMAIN Split(entries, path)[p].children = {Route[x][Len(p) + 1] : x \in Under(entries, p)}
               /\ ~Full(entries, p) =>
                     /\ Split(entries, path)[p].kind = "leaf"
                     /\ DOMAIN Split(entries, path)[p].entries = Under(entries, p)
                     /\ \A x \in Under(entries, p) : Split(entries, path)[p].entries[x] = entries[x]
<1> DEFINE s == Split(entries, path)
           nibbles(p) == [n \in {Route[x][Len(p) + 1] : x \in Under(entries, p)} |-> Pending]
           part(p) == [x \in Under(entries, p) |-> entries[x]]
<1>1. s = [p \in Made(entries, path) |-> IF Full(entries, p) THEN Branch(nibbles(p)) ELSE Leaf(part(p))]
    BY DEF Split, Made, Full, Under
<1>2. \A p : DOMAIN nibbles(p) = {Route[x][Len(p) + 1] : x \in Under(entries, p)}  OBVIOUS
<1>3. \A p : DOMAIN part(p) = Under(entries, p) /\ \A x \in Under(entries, p) : part(p)[x] = entries[x]  OBVIOUS
<1> HIDE DEF nibbles, part, s
<1>4. DOMAIN s = Made(entries, path)  BY <1>1
<1>5. ASSUME NEW p \in Made(entries, path), Full(entries, p)
      PROVE  /\ s[p].kind = "branch" /\ Len(p) < Depth
             /\ DOMAIN s[p].children = {Route[x][Len(p) + 1] : x \in Under(entries, p)}
  <2>1. s[p] = Branch(nibbles(p))  BY <1>1, <1>5, Zenon
  <2>2. s[p].kind = "branch" /\ s[p].children = nibbles(p)  BY <2>1, BranchIs, Zenon
  <2>3. Len(p) < Depth  BY <1>5 DEF Full
  <2>4. DOMAIN s[p].children = {Route[x][Len(p) + 1] : x \in Under(entries, p)}  BY <1>2, <2>2, Zenon
  <2> QED BY <2>2, <2>3, <2>4
<1>6. ASSUME NEW p \in Made(entries, path), ~Full(entries, p)
      PROVE  /\ s[p].kind = "leaf" /\ DOMAIN s[p].entries = Under(entries, p)
             /\ \A x \in Under(entries, p) : s[p].entries[x] = entries[x]
  <2>1. s[p] = Leaf(part(p))  BY <1>1, <1>6, Zenon
  <2>2. s[p].kind = "leaf" /\ s[p].entries = part(p)  BY <2>1, LeafIs, Zenon
  <2> QED BY <1>3, <2>2, Zenon
<1> QED BY <1>4, <1>5, <1>6 DEF s

LEMMA SplitFits ==
  ASSUME NEW entries, NEW path \in Paths, path # << >>, DOMAIN entries # {},
         \A x \in DOMAIN entries : x \in PagedIds /\ path \in Along(x)
  PROVE  Fit(path, Split(entries, path))
<1> DEFINE s == Split(entries, path)
           made == Made(entries, path)
<1>1. DOMAIN s = made
    BY SplitIs
<1>2. \A p \in made :
         /\ Full(entries, p) =>
               /\ s[p].kind = "branch" /\ Len(p) < Depth
               /\ DOMAIN s[p].children = {Route[x][Len(p) + 1] : x \in Under(entries, p)}
         /\ ~Full(entries, p) => s[p].kind = "leaf" /\ DOMAIN s[p].entries = Under(entries, p)
    BY SplitIs
<1>3. \A p : p \in made <=> /\ p \in Paths /\ IsPrefix(path, p) /\ Under(entries, p) # {}
                            /\ \A q \in Paths : IsPrefix(path, q) /\ IsStrictPrefix(q, p) => Full(entries, q)
    BY DEF Made
<1>4. \A p \in Paths : \A x : x \in Under(entries, p) <=> x \in DOMAIN entries /\ p \in Along(x)
    BY DEF Under, Along
<1> HIDE DEF s, made
<1>5. path \in made
  <2>1. Under(entries, path) # {}  BY <1>4
  <2>2. ASSUME NEW q \in Paths, IsPrefix(path, q), IsStrictPrefix(q, path) PROVE FALSE
    <3>1. Len(q) < Len(path) /\ Len(path) <= Len(q) /\ Len(q) \in Nat /\ Len(path) \in Nat
        BY <2>2, StrictlyAbove, AboveIsShorter, PathLen
    <3> QED BY <3>1
  <2> QED BY <1>3, <2>1, <2>2, AboveItself
<1>6. ASSUME NEW p \in made
      PROVE  p \in Paths /\ IsPrefix(path, p) /\ s[p].kind \in {"leaf", "branch"} /\ p # << >>
  <2>1. p \in Paths /\ IsPrefix(path, p)  BY <1>3, <1>6
  <2>2. Len(path) <= Len(p) /\ Len(p) \in Nat /\ Len(path) \in Nat /\ Len(path) # 0
      BY <2>1, AboveIsShorter, PathLen, EmptyPath
  <2>3. p # << >>  BY <2>1, <2>2, EmptyPath
  <2> QED BY <1>2, <2>1, <2>3
<1>7. ASSUME NEW p \in made, p # path
      PROVE  Front(p) \in made /\ s[Front(p)].kind = "branch" /\ Last(p) \in DOMAIN s[Front(p)].children
  <2>1. p \in Paths /\ p # << >> /\ IsStrictPrefix(path, p)  BY <1>6, <1>7 DEF IsStrictPrefix
  <2>2. Front(p) \in Paths /\ Len(Front(p)) = Len(p) - 1 /\ IsStrictPrefix(Front(p), p) /\ IsPrefix(path, Front(p))
      BY <2>1, ParentOf, ParentAbove
  <2>3. PICK x : x \in Under(entries, p)  BY <1>3, <1>7
  <2>4. x \in DOMAIN entries /\ x \in PagedIds /\ p \in Along(x)  BY <1>4, <2>1, <2>3
  <2>5. Front(p) \in Along(x) /\ Last(p) = Route[x][Len(p)]  BY <2>1, <2>4, ParentOf
  <2>6. x \in Under(entries, Front(p))  BY <1>4, <2>2, <2>4, <2>5
  <2>7. ASSUME NEW q \in Paths, IsPrefix(path, q), IsStrictPrefix(q, Front(p)) PROVE Full(entries, q)
    <3>1. IsPrefix(q, Front(p))  BY <2>7 DEF IsStrictPrefix
    <3>2. IsStrictPrefix(q, p)  BY <2>1, <2>7, <3>1, ParentAbove
    <3> QED BY <1>3, <1>7, <2>7, <3>2
  <2>8. Front(p) \in made  BY <1>3, <2>2, <2>6, <2>7
  <2>9. Full(entries, Front(p))  BY <1>3, <1>7, <2>2
  <2>10. s[Front(p)].kind = "branch"
         /\ DOMAIN s[Front(p)].children = {Route[y][Len(Front(p)) + 1] : y \in Under(entries, Front(p))}
      BY <1>2, <2>8, <2>9
  <2>11. Len(Front(p)) + 1 = Len(p)  BY <2>1, <2>2, PathLen
  <2>12. Last(p) \in DOMAIN s[Front(p)].children  BY <2>5, <2>6, <2>10, <2>11
  <2> QED BY <2>8, <2>10, <2>12
<1>8. ASSUME NEW p \in made, s[p].kind = "branch", NEW n \in DOMAIN s[p].children
      PROVE  Append(p, n) \in made
  <2>1. p \in Paths /\ IsPrefix(path, p)  BY <1>6
  <2>2. Full(entries, p) /\ Len(p) < Depth  BY <1>2, <1>8
  <2>3. PICK x \in Under(entries, p) : n = Route[x][Len(p) + 1]  BY <1>2, <1>8, <2>2
  <2>4. x \in DOMAIN entries /\ x \in PagedIds /\ p \in Along(x)  BY <1>4, <2>1, <2>3
  <2> DEFINE r == Append(p, n)
  <2>5. r \in Along(x)  BY <2>2, <2>3, <2>4, GoesOn
  <2>6. r \in Paths  BY <2>4, <2>5, AlongIs
  <2>7. r # << >> /\ Front(r) = p  BY <2>1, <2>6, ChildOf
  <2> HIDE DEF r
  <2>8. IsStrictPrefix(path, r)  BY <2>1, <2>6, <2>7, ParentAbove
  <2>9. IsPrefix(path, r)  BY <2>8 DEF IsStrictPrefix
  <2>10. x \in Under(entries, r)  BY <1>4, <2>4, <2>5, <2>6
  <2>11. ASSUME NEW q \in Paths, IsPrefix(path, q), IsStrictPrefix(q, r) PROVE Full(entries, q)
    <3>1. IsPrefix(q, p)  BY <2>6, <2>7, <2>11, ParentAbove
    <3>2. CASE q = p  BY <2>2, <3>2
    <3>3. CASE q # p
      <4>1. IsStrictPrefix(q, p)  BY <3>1, <3>3 DEF IsStrictPrefix
      <4> QED BY <1>3, <1>8, <2>11, <4>1
    <3> QED BY <3>2, <3>3
  <2>12. r \in made  BY <1>3, <2>6, <2>9, <2>10, <2>11
  <2> QED BY <2>12 DEF r
<1>9. ASSUME NEW p \in made PROVE SoundPage(p, s[p])
  <2>1. p \in Paths /\ p # << >> /\ s[p].kind \in {"leaf", "branch"}  BY <1>6
  <2>2. CASE s[p].kind = "leaf"
    <3>1. DOMAIN s[p].entries = Under(entries, p)  BY <1>2, <2>2
    <3>2. \A x \in DOMAIN s[p].entries : x \in PagedIds /\ p \in Along(x)  BY <1>4, <2>1, <3>1
    <3> QED BY <2>1, <2>2, <3>2 DEF SoundPage
  <2>3. CASE s[p].kind = "branch"
    <3>1. Len(p) < Depth  BY <1>2, <2>3
    <3>2. \A n \in DOMAIN s[p].children : Append(p, n) \in Paths  BY <1>6, <1>8, <2>3
    <3> QED BY <2>3, <3>1, <3>2 DEF SoundPage
  <2> QED BY <2>1, <2>2, <2>3
<1>10. Fit(path, s)  BY <1>1, <1>5, <1>6, <1>7, <1>8, <1>9 DEF Fit
<1> QED BY <1>10 DEF s

(* The entries are the entries of the leaves among the pages. *)
LeavesHold(pages, entries) ==
    /\ \A p \in DOMAIN pages : pages[p].kind = "leaf" =>
          \A x \in DOMAIN pages[p].entries : x \in DOMAIN entries /\ pages[p].entries[x] = entries[x]
    /\ \A x \in DOMAIN entries : \E p \in DOMAIN pages : pages[p].kind = "leaf" /\ x \in DOMAIN pages[p].entries

LEMMA SplitHolds ==
  ASSUME NEW entries, NEW path \in Paths,
         \A x \in DOMAIN entries : x \in PagedIds /\ path \in Along(x)
  PROVE  LeavesHold(Split(entries, path), entries)
<1> DEFINE s == Split(entries, path)
           made == Made(entries, path)
<1>1. DOMAIN s = made  BY SplitIs
<1>2. \A p \in made :
         /\ Full(entries, p) => s[p].kind = "branch"
         /\ ~Full(entries, p) => /\ s[p].kind = "leaf" /\ DOMAIN s[p].entries = Under(entries, p)
                                 /\ \A x \in Under(entries, p) : s[p].entries[x] = entries[x]
    BY SplitIs
<1>3. \A p : p \in made <=> /\ p \in Paths /\ IsPrefix(path, p) /\ Under(entries, p) # {}
                            /\ \A q \in Paths : IsPrefix(path, q) /\ IsStrictPrefix(q, p) => Full(entries, q)
    BY DEF Made
<1>4. \A p \in Paths : \A x : x \in Under(entries, p) <=> x \in DOMAIN entries /\ p \in Along(x)
    BY DEF Under, Along
<1> HIDE DEF s, made
<1>5. ASSUME NEW p \in made, s[p].kind = "leaf", NEW x \in DOMAIN s[p].entries
      PROVE  x \in DOMAIN entries /\ s[p].entries[x] = entries[x]
  <2>1. ~Full(entries, p)  BY <1>2, <1>5
  <2>2. x \in Under(entries, p)  BY <1>2, <1>5, <2>1
  <2> QED BY <1>2, <1>3, <1>4, <2>1, <2>2
<1>6. ASSUME NEW x \in DOMAIN entries
      PROVE  \E p \in made : s[p].kind = "leaf" /\ x \in DOMAIN s[p].entries
  <2> DEFINE T == {d \in 0..Depth : Len(path) <= d /\ ~Full(entries, Start(x, d))}
  <2>0. x \in PagedIds /\ path \in Along(x) /\ Depth \in Nat /\ Len(path) \in Nat /\ Len(path) <= Depth
      BY PathLen
  <2>1. Depth \in T
    <3>1. Len(Start(x, Depth)) = Depth  BY <2>0, StartOf
    <3>2. ~Full(entries, Start(x, Depth))  BY <2>0, <3>1 DEF Full
    <3> QED BY <2>0, <3>2
  <2>2. T \in SUBSET Nat /\ T # {}  BY <2>0, <2>1
  <2>3. PICK d \in T : \A e \in T : d <= e
    <3> HIDE DEF T
    <3> QED BY <2>2, LeastNumber
  <2>4. d \in 0..Depth /\ Len(path) <= d /\ ~Full(entries, Start(x, d))  BY <2>3
  <2> DEFINE p == Start(x, d)
  <2>5. p \in Along(x) /\ p \in Paths /\ Len(p) = d  BY <2>0, <2>4, AlongIs, StartOf
  <2>6. IsPrefix(path, p)  BY <2>0, <2>4, <2>5, BothAlong
  <2>7. x \in Under(entries, p)  BY <1>4, <2>5
  <2>8. ASSUME NEW q \in Paths, IsPrefix(path, q), IsStrictPrefix(q, p) PROVE Full(entries, q)
    <3>1. IsPrefix(q, p) /\ Len(q) < Len(p) /\ Len(path) <= Len(q) /\ Len(q) \in Nat
        BY <2>5, <2>8, StrictlyAbove, AboveIsShorter, PathLen
    <3>2. q \in Along(x)  BY <2>0, <2>5, <3>1, AboveAlong
    <3>3. q = Start(x, Len(q))  BY <2>0, <3>2, AlongIs
    <3>4. Len(q) \in 0..Depth /\ ~(d <= Len(q))  BY <2>0, <2>4, <2>5, <3>1
    <3>5. Len(q) \notin T  BY <2>3, <3>4
    <3> QED BY <3>1, <3>3, <3>4, <3>5
  <2>9. p \in made  BY <1>3, <2>5, <2>6, <2>7, <2>8
  <2> QED BY <1>2, <2>4, <2>7, <2>9
<1>7. LeavesHold(s, entries)  BY <1>1, <1>5, <1>6 DEF LeavesHold
<1> QED BY <1>7 DEF s

-----------------------------------------------------------------------------
(* Adding to a trie, and removing from it *)

LEMMA HeldIsPaged == ASSUME NEW k \in Kinds, NEW x \in Held[k] PROVE x \in PagedIds
BY DEF PagedIds

LEMMA UpsertedIs ==
  ASSUME NEW e, IsEntry(e), NEW dot
  PROVE  IsEntry(Upserted(e, dot)) /\ Upserted(e, dot) # NoEntry
<1>1. CASE dot \in e.tombstoned
  <2>1. Upserted(e, dot) = e  BY <1>1 DEF Upserted
  <2>2. e # NoEntry  BY <1>1 DEF NoEntry
  <2> QED BY <2>1, <2>2
<1>2. CASE dot \notin e.tombstoned
  <2>1. Upserted(e, dot) = [e EXCEPT !.dots = @ \cup {dot}]  BY <1>2 DEF Upserted
  <2>2. Upserted(e, dot) = [dots |-> e.dots \cup {dot}, tombstoned |-> e.tombstoned]
      BY <2>1 DEF IsEntry
  <2>3. dot \in Upserted(e, dot).dots  BY <2>2
  <2>4. NoEntry.dots = {}  BY DEF NoEntry
  <2>5. Upserted(e, dot) # NoEntry  BY <2>3, <2>4
  <2> QED BY <2>2, <2>5 DEF IsEntry
<1> QED BY <1>1, <1>2

LEMMA TombstonedIs ==
  ASSUME NEW e, IsEntry(e), NEW observed
  PROVE  /\ IsEntry(Tombstoned(e, observed))
         /\ e.dots \cap observed = {} => Tombstoned(e, observed) = e
         /\ e.dots \cap observed # {} => Tombstoned(e, observed) # NoEntry
<1>1. IsEntry(Tombstoned(e, observed))  BY DEF Tombstoned, IsEntry
<1>2. ASSUME e.dots \cap observed = {} PROVE Tombstoned(e, observed) = e
  <2>1. e.dots \ observed = e.dots /\ e.tombstoned \cup (e.dots \cap observed) = e.tombstoned  BY <1>2
  <2>2. Tombstoned(e, observed) = [dots |-> e.dots, tombstoned |-> e.tombstoned]  BY <2>1, Zenon DEF Tombstoned
  <2> QED BY <2>2 DEF IsEntry
<1>3. ASSUME e.dots \cap observed # {} PROVE Tombstoned(e, observed) # NoEntry
  <2>1. PICK d : d \in e.dots \cap observed  BY <1>3
  <2>2. d \in Tombstoned(e, observed).tombstoned  BY <2>1 DEF Tombstoned
  <2>3. NoEntry.tombstoned = {}  BY DEF NoEntry
  <2> QED BY <2>2, <2>3
<1> QED BY <1>1, <1>2, <1>3

LEMMA SetWith ==
  ASSUME NEW set, IsSet(set), NEW x \in PagedIds, NEW e, IsEntry(e)
  PROVE  /\ IsSet([set EXCEPT ![x] = e]) /\ [set EXCEPT ![x] = e][x] = e
         /\ \A y \in PagedIds : y # x => [set EXCEPT ![x] = e][y] = set[y]
<1> DEFINE new == [set EXCEPT ![x] = e]
<1>1. DOMAIN set = PagedIds /\ \A y \in PagedIds : IsEntry(set[y])  BY DEF IsSet
<1>2. /\ DOMAIN new = PagedIds /\ new = [y \in PagedIds |-> new[y]] /\ new[x] = e
      /\ \A y \in PagedIds : y # x => new[y] = set[y]
    BY <1>1
<1> HIDE DEF new
<1>3. \A y \in PagedIds : IsEntry(new[y])  BY <1>1, <1>2
<1>4. IsSet(new)  BY <1>2, <1>3 DEF IsSet
<1> QED BY <1>2, <1>4 DEF new

(* The place where TrieCursor.add ends its walk. *)
EndOfWalk(at, x, p) ==
    /\ p # << >> /\ at[p].kind # "branch"
    /\ \A q \in Along(x) : q # << >> /\ Len(q) < Len(p) => at[q].kind = "branch"

LEMMA WalkEnds ==
  ASSUME NEW at, SoundTree(at), NEW x \in PagedIds
  PROVE  \E p \in Along(x) : EndOfWalk(at, x, p)
<1> DEFINE T == {d \in 1..Depth : at[Start(x, d)].kind # "branch"}
<1>0. Depth \in Nat /\ Depth > 0  BY RouteOf
<1>1. Depth \in T
  <2>1. Depth \in 0..Depth /\ Depth \in 1..Depth  BY <1>0
  <2>2. Start(x, Depth) \in Paths /\ Len(Start(x, Depth)) = Depth  BY <2>1, StartOf
  <2>3. SoundPage(Start(x, Depth), at[Start(x, Depth)])  BY <2>2 DEF SoundTree
  <2>4. at[Start(x, Depth)].kind # "branch"  BY <1>0, <2>2, <2>3 DEF SoundPage
  <2> QED BY <2>1, <2>4
<1>2. T \in SUBSET Nat /\ T # {}  BY <1>0, <1>1
<1>3. PICK d \in T : \A e \in T : d <= e
  <2> HIDE DEF T
  <2> QED BY <1>2, LeastNumber
<1>4. d \in 1..Depth /\ d \in 0..Depth /\ at[Start(x, d)].kind # "branch"  BY <1>0, <1>3
<1>5. Start(x, d) \in Along(x) /\ Start(x, d) \in Paths /\ Len(Start(x, d)) = d  BY <1>4, AlongIs, StartOf
<1>6. Start(x, d) # << >>  BY <1>0, <1>4, <1>5, EmptyPath
<1>7. ASSUME NEW q \in Along(x), q # << >>, Len(q) < d PROVE at[q].kind = "branch"
  <2>1. q \in Paths /\ q = Start(x, Len(q)) /\ Len(q) \in 0..Depth  BY AlongIs
  <2>2. Len(q) \in 1..Depth  BY <1>0, <1>7, <2>1, EmptyPath
  <2>3. Len(q) \notin T  BY <1>3, <1>4, <1>7, <2>2
  <2> QED BY <2>1, <2>2, <2>3
<1> QED BY <1>4, <1>5, <1>6, <1>7 DEF EndOfWalk

LEMMA EndIsPlace ==
  ASSUME NEW c, Working(c), SoundTree(PagesOf(c)), NEW x \in PagedIds, NEW path \in Along(x),
         EndOfWalk(PagesOf(c), x, path),
         \A p \in Along(x) : PagesOf(c)[p].kind \in {"leaf", "branch"} => p \in DOMAIN c.page
  PROVE  Place(c, path)
<1> DEFINE at == PagesOf(c)
<1>0. path \in Paths /\ path # << >> /\ at[path].kind # "branch" /\ Hangs(c)
    BY AlongIs DEF EndOfWalk, Working
<1>1. ASSUME NEW q \in Above(path)
      PROVE  \/ q \in DOMAIN c.page /\ c.page[q].kind = "branch"
             \/ q \notin DOMAIN c.page /\ at[q] = NoPage
  <2>1. q \in Paths /\ IsStrictPrefix(q, path)  BY DEF Above
  <2>2. Len(q) < Len(path) /\ IsPrefix(q, path)  BY <1>0, <2>1, StrictlyAbove
  <2>3. q \in Along(x)  BY <2>1, <2>2, AboveAlong
  <2>4. CASE at[q].kind = "branch"
    <3>1. q \in DOMAIN c.page  BY <2>3, <2>4
    <3>2. at[q] = c.page[q]  BY <1>0, <3>1, WorkingPage
    <3> HIDE DEF at
    <3> QED BY <2>4, <3>1, <3>2
  <2>5. CASE at[q].kind # "branch"
    <3>1. q = << >>  BY <2>2, <2>3, <2>5 DEF EndOfWalk
    <3>2. SoundPage(q, at[q])  BY <2>1 DEF SoundTree
    <3>3. at[q] = NoPage  BY <2>5, <3>1, <3>2 DEF SoundPage
    <3>4. q \in DOMAIN c.page => at[q] # NoPage  BY <1>0, WorkingPage
    <3> QED BY <3>3, <3>4
  <2> QED BY <2>4, <2>5
<1> QED BY <1>0, <1>1 DEF Place

LEMMA AddSound ==
  ASSUME NEW c, NEW k \in Kinds, NEW set, IsSet(set), Sound(c, k, set), NEW x \in Held[k], NEW dot
  PROVE  Sound(CursorAdd(c, x, dot), k, [set EXCEPT ![x] = Upserted(@, dot)])
<1> DEFINE l == Load(c, Along(x))
           at == PagesOf(l)
           path == CHOOSE p \in Along(x) : EndOfWalk(at, x, p)
           entries == IF at[path].kind = "leaf" THEN at[path].entries ELSE << >>
           e == Upserted(LookupEntry(at, x), dot)
           all == Over(Single(x, e), entries)
           new == [set EXCEPT ![x] = Upserted(@, dot)]
<1>0. x \in PagedIds /\ Working(c)  BY HeldIsPaged DEF Sound
<1>1. Sound(l, k, set) /\ at = PagesOf(c)  BY <1>0, Walks, LoadSound
<1>2. \A p \in Along(x) : at[p].kind \in {"leaf", "branch"} => p \in DOMAIN l.page
  <2>1. Along(x) \in SUBSET Paths  BY <1>0, AlongIs
  <2>2. \A p \in Along(x) : PagesOf(c)[p].kind \in {"leaf", "branch"} => p \in DOMAIN l.page
      BY <1>0, <2>1, LoadedPages
  <2> QED BY <1>1, <2>2, Zenon
<1>3. Working(l) /\ SoundTree(at)  BY <1>1 DEF Sound
<1>4. CursorAdd(c, x, dot) = Mark(l, path, Split(all, path))  BY DEF CursorAdd, EndOfWalk
<1>5. LookupEntry(at, x) = set[x]  BY <1>1, SoundLookup
<1>6. e = Upserted(set[x], dot)  BY <1>5
<1>7. IsEntry(e) /\ e # NoEntry  BY <1>0, <1>6, UpsertedIs DEF IsSet
<1>8. new = [set EXCEPT ![x] = e]  BY <1>6
<1>9. new[x] = e /\ \A y \in Held[k] : y # x => new[y] = set[y]
  <2> HIDE DEF e
  <2>1. \A y \in Held[k] : y \in PagedIds  BY HeldIsPaged
  <2> QED BY <1>0, <1>7, <1>8, <2>1, SetWith
<1>10. path \in Along(x) /\ EndOfWalk(at, x, path)
  <2>1. \E p \in Along(x) : EndOfWalk(at, x, p)  BY <1>0, <1>3, WalkEnds
  <2> QED BY <2>1, Zenon
<1> HIDE DEF path
<1>11. Place(l, path)  BY <1>0, <1>2, <1>3, <1>10, EndIsPlace
<1>12. path \in Paths /\ path # << >>  BY <1>11 DEF Place
<1>13. \A y \in DOMAIN entries : path \in Holders(at, y) /\ entries[y] = at[path].entries[y]
  <2>1. CASE at[path].kind = "leaf"
    <3>1. entries = at[path].entries  BY <2>1
    <3> HIDE DEF at, entries
    <3> QED BY <1>12, <2>1, <3>1 DEF Holders
  <2>2. CASE at[path].kind # "leaf"
    <3>1. entries = << >>  BY <2>2
    <3> HIDE DEF at, entries
    <3> QED BY <3>1, NoDomain
  <2> QED BY <2>1, <2>2
<1>14. \A y : path \in Holders(at, y) => y \in DOMAIN entries
  <2> SUFFICES ASSUME NEW y, path \in Holders(at, y) PROVE y \in DOMAIN entries  OBVIOUS
  <2>1. at[path].kind = "leaf" /\ y \in DOMAIN at[path].entries
    <3> HIDE DEF at, entries
    <3> QED BY DEF Holders
  <2>2. entries = at[path].entries  BY <2>1
  <2> HIDE DEF at, entries
  <2> QED BY <2>1, <2>2
<1>15. \A y \in DOMAIN entries : y \in PagedIds /\ path \in Along(y)
  <2>1. \A y \in DOMAIN entries : path \in Holders(at, y)  BY <1>13
  <2> HIDE DEF entries
  <2> QED BY <1>3, <2>1, HolderAlong
<1> HIDE DEF entries
<1>16. /\ DOMAIN all = {x} \cup DOMAIN entries /\ all[x] = e
       /\ \A y \in DOMAIN entries : y # x => all[y] = entries[y]
  <2> DEFINE one == Single(x, e)
  <2>1. DOMAIN one = {x} /\ one[x] = e
    <3> HIDE DEF e
    <3> QED BY SingleIs
  <2>2. all = Over(one, entries)  OBVIOUS
  <2> HIDE DEF one, e, all, l, at
  <2>3. /\ DOMAIN Over(one, entries) = DOMAIN one \cup DOMAIN entries
        /\ \A i \in DOMAIN one : Over(one, entries)[i] = one[i]
        /\ \A i \in DOMAIN entries : i \notin DOMAIN one => Over(one, entries)[i] = entries[i]
      BY OverIs, Zenon
  <2> QED BY <2>1, <2>2, <2>3
<1> HIDE DEF all, e
<1>17. DOMAIN all # {} /\ \A y \in DOMAIN all : y \in PagedIds /\ path \in Along(y)
    BY <1>0, <1>10, <1>15, <1>16
<1> DEFINE pages == Split(all, path)
<1>18. Fit(path, pages)  BY <1>12, <1>17, SplitFits
<1>19. LeavesHold(pages, all)  BY <1>12, <1>17, SplitHolds
<1> HIDE DEF pages, new, at, l
<1>20. \A p \in DOMAIN pages : pages[p].kind = "leaf" => \A y \in DOMAIN pages[p].entries :
             \/ y = x /\ pages[p].entries[y] = new[x]
             \/ y # x /\ path \in Holders(at, y) /\ pages[p].entries[y] = at[path].entries[y]
  <2> SUFFICES ASSUME NEW p \in DOMAIN pages, pages[p].kind = "leaf", NEW y \in DOMAIN pages[p].entries
               PROVE  \/ y = x /\ pages[p].entries[y] = new[x]
                      \/ y # x /\ path \in Holders(at, y) /\ pages[p].entries[y] = at[path].entries[y]
      OBVIOUS
  <2>1. y \in DOMAIN all /\ pages[p].entries[y] = all[y]  BY <1>19 DEF LeavesHold
  <2> QED BY <1>9, <1>13, <1>16, <2>1
<1>21. \A y : y = x \/ path \in Holders(at, y) =>
             \E p \in DOMAIN pages : pages[p].kind = "leaf" /\ y \in DOMAIN pages[p].entries
    BY <1>14, <1>16, <1>19 DEF LeavesHold
<1>22. new[x] # NoEntry  BY <1>7, <1>9
<1>23. Sound(Mark(l, path, pages), k, new)
    BY <1>1, <1>9, <1>10, <1>11, <1>18, <1>20, <1>21, <1>22, MarkSound DEF at
<1> QED BY <1>4, <1>23 DEF pages, new

LEMMA HolderIsPlace ==
  ASSUME NEW c, Working(c), SoundTree(PagesOf(c)), NEW x \in PagedIds, NEW path \in Holders(PagesOf(c), x),
         \A p \in Along(x) : PagesOf(c)[p].kind \in {"leaf", "branch"} => p \in DOMAIN c.page
  PROVE  Place(c, path) /\ c.page[path] = PagesOf(c)[path]
<1> DEFINE at == PagesOf(c)
<1>0. path \in Paths /\ at[path].kind = "leaf" /\ path \in Along(x) /\ path # << >> /\ Hangs(c)
    BY HolderAlong DEF Working
<1>1. at[path] # NoPage
  <2> HIDE DEF at
  <2> QED BY <1>0 DEF NoPage
<1>2. ASSUME NEW q \in Above(path) PROVE q \in DOMAIN c.page /\ c.page[q].kind = "branch"
  <2>1. q \in Paths /\ IsStrictPrefix(q, path)  BY DEF Above
  <2>2. IsPrefix(q, path) /\ at[q].kind = "branch"  BY <1>0, <1>1, <2>1, StrictlyAbove, BranchesAbove
  <2>3. q \in Along(x)  BY <1>0, <2>1, <2>2, AboveAlong
  <2>4. q \in DOMAIN c.page  BY <2>2, <2>3
  <2>5. at[q] = c.page[q]  BY <1>0, <2>4, WorkingPage
  <2> HIDE DEF at
  <2> QED BY <2>2, <2>4, <2>5
<1>3. Place(c, path)
  <2>1. at[path].kind # "branch"  BY <1>0
  <2> QED BY <1>0, <1>2, <2>1 DEF Place
<1>4. path \in DOMAIN c.page  BY <1>0
<1>5. c.page[path] = at[path]  BY <1>0, <1>4, WorkingPage
<1> QED BY <1>3, <1>5

LEMMA LeafFits ==
  ASSUME NEW path \in Paths, NEW entries, SoundPage(path, Leaf(entries))
  PROVE  /\ Fit(path, Single(path, Leaf(entries))) /\ DOMAIN Single(path, Leaf(entries)) = {path}
         /\ Single(path, Leaf(entries))[path].kind = "leaf"
         /\ Single(path, Leaf(entries))[path].entries = entries
<1> DEFINE v == Leaf(entries)
           s == Single(path, v)
<1>1. v.kind = "leaf" /\ v.entries = entries  BY LeafIs
<1> HIDE DEF v
<1>2. DOMAIN s = {path} /\ s[path] = v  BY SingleIs
<1> HIDE DEF s
<1>3. IsPrefix(path, path)  BY AboveItself
<1>4. SoundPage(path, v)  BY DEF v
<1>5. Fit(path, s)
  <2>1. \A p \in DOMAIN s : p = path /\ s[p] = v  BY <1>2
  <2> QED BY <1>1, <1>2, <1>3, <1>4, <2>1 DEF Fit
<1> QED BY <1>1, <1>2, <1>5 DEF s, v

LEMMA RemoveSound ==
  ASSUME NEW c, NEW k \in Kinds, NEW set, IsSet(set), Sound(c, k, set), NEW x \in Held[k], NEW observed
  PROVE  Sound(CursorRemove(c, x, observed), k, [set EXCEPT ![x] = Tombstoned(@, observed)])
<1> DEFINE l == Load(c, Along(x))
           at == PagesOf(l)
           e == Tombstoned(set[x], observed)
           new == [set EXCEPT ![x] = Tombstoned(@, observed)]
<1>0. x \in PagedIds /\ Working(c) /\ IsEntry(set[x])  BY HeldIsPaged DEF Sound, IsSet
<1>1. Sound(l, k, set) /\ at = PagesOf(c)  BY <1>0, Walks, LoadSound
<1>2. \A p \in Along(x) : at[p].kind \in {"leaf", "branch"} => p \in DOMAIN l.page
  <2>1. Along(x) \in SUBSET Paths  BY <1>0, AlongIs
  <2>2. \A p \in Along(x) : PagesOf(c)[p].kind \in {"leaf", "branch"} => p \in DOMAIN l.page
      BY <1>0, <2>1, LoadedPages
  <2> QED BY <1>1, <2>2, Zenon
<1>3. Working(l) /\ SoundTree(at) /\ \A y \in Held[k] : HoldsOf(at, y, set[y])  BY <1>1 DEF Sound
<1>4. LookupEntry(at, x) = set[x]  BY <1>1, SoundLookup
<1>5. /\ IsEntry(e) /\ (set[x].dots \cap observed = {} => e = set[x])
      /\ (set[x].dots \cap observed # {} => e # NoEntry)
    BY <1>0, TombstonedIs
<1>6. new[x] = e /\ \A y \in Held[k] : y # x => new[y] = set[y]
  <2>1. new = [set EXCEPT ![x] = e]  OBVIOUS
  <2> HIDE DEF e
  <2>2. \A y \in Held[k] : y \in PagedIds  BY HeldIsPaged
  <2> QED BY <1>0, <1>5, <2>1, <2>2, SetWith
<1>7. CASE set[x].dots \cap observed = {}
  <2>1. CursorRemove(c, x, observed) = l  BY <1>4, <1>7 DEF CursorRemove
  <2> HIDE DEF new, e, l, at
  <2>2. \A y \in Held[k] : new[y] = set[y]  BY <1>5, <1>6, <1>7
  <2>3. \A y \in Held[k] : HoldsOf(at, y, new[y])  BY <1>3, <2>2, Zenon
  <2>4. Sound(l, k, new)  BY <1>3, <2>3, Zenon DEF Sound, at
  <2> QED BY <2>1, <2>4 DEF new
<1>8. CASE set[x].dots \cap observed # {}
  <2> DEFINE path == CHOOSE p \in Holders(at, x) \cap Along(x) : TRUE
             old == l.page[path].entries
             es == [old EXCEPT ![x] = Tombstoned(@, observed)]
             pages == Single(path, Leaf(es))
  <2>1. CursorRemove(c, x, observed) = Mark(l, path, pages)  BY <1>4, <1>8 DEF CursorRemove
  <2>2. path \in Holders(at, x) /\ path \in Along(x)
    <3>1. set[x] # NoEntry  BY <1>8 DEF NoEntry
    <3>2. PICK p \in Holders(at, x) : TRUE  BY <1>3, <3>1 DEF HoldsOf
    <3>3. p \in Along(x)  BY <1>3, <3>2, HolderAlong
    <3> QED BY <3>2, <3>3, Zenon
  <2> HIDE DEF path
  <2>3. Place(l, path) /\ l.page[path] = at[path]  BY <1>0, <1>2, <1>3, <2>2, HolderIsPlace
  <2>4. old = at[path].entries  BY <2>3
  <2>5. path \in Paths /\ at[path].kind = "leaf" /\ x \in DOMAIN old
    <3>1. path \in Paths /\ at[path].kind = "leaf" /\ x \in DOMAIN at[path].entries
      <4> HIDE DEF at
      <4> QED BY <2>2 DEF Holders
    <3> QED BY <2>4, <3>1
  <2>6. old[x] = set[x]
    <3>1. at[path].entries[x] = set[x]  BY <1>3, <2>2 DEF HoldsOf
    <3> QED BY <2>4, <3>1, Zenon
  <2>7. \A y : y \in DOMAIN old <=> path \in Holders(at, y)
    <3> HIDE DEF at, old
    <3> QED BY <2>4, <2>5 DEF Holders
  <2> HIDE DEF old
  <2>8. DOMAIN es = DOMAIN old /\ es[x] = e /\ \A y \in DOMAIN old : y # x => es[y] = old[y]
    <3>1. es[x] = Tombstoned(old[x], observed)  BY <2>5
    <3>2. es[x] = e  BY <2>6, <3>1, Zenon
    <3> QED BY <3>2
  <2> HIDE DEF es
  <2>9. SoundPage(path, Leaf(es))
    <3>1. SoundPage(path, at[path])  BY <1>3, <2>5 DEF SoundTree
    <3>2. path # << >> /\ \A y \in DOMAIN at[path].entries : y \in PagedIds /\ path \in Along(y)
      <4> HIDE DEF at
      <4> QED BY <2>5, <3>1 DEF SoundPage
    <3>3. DOMAIN es = DOMAIN at[path].entries  BY <2>4, <2>8, Zenon
    <3>4. \A y \in DOMAIN es : y \in PagedIds /\ path \in Along(y)
      <4> HIDE DEF at
      <4> QED BY <3>2, <3>3
    <3>5. Leaf(es).kind = "leaf" /\ Leaf(es).entries = es  BY LeafIs
    <3>6. Leaf(es).kind # "branch"  BY <3>5
    <3> DEFINE v == Leaf(es)
    <3> HIDE DEF v
    <3>7. v.kind = "leaf" /\ v.entries = es  BY <3>5 DEF v
    <3>8. SoundPage(path, v)  BY <3>2, <3>4, <3>7 DEF SoundPage
    <3> QED BY <3>8 DEF v
  <2>10. Fit(path, pages) /\ DOMAIN pages = {path} /\ pages[path].kind = "leaf" /\ pages[path].entries = es
      BY <2>5, <2>9, LeafFits
  <2> HIDE DEF pages, new, at, l, e
  <2>11. \A p \in DOMAIN pages : pages[p].kind = "leaf" => \A y \in DOMAIN pages[p].entries :
             \/ y = x /\ pages[p].entries[y] = new[x]
             \/ y # x /\ path \in Holders(at, y) /\ pages[p].entries[y] = at[path].entries[y]
    <3> SUFFICES ASSUME NEW y \in DOMAIN es
                 PROVE  \/ y = x /\ es[y] = new[x]
                        \/ y # x /\ path \in Holders(at, y) /\ es[y] = at[path].entries[y]
        BY <2>10
    <3> QED BY <1>6, <2>4, <2>7, <2>8
  <2>12. \A y : y = x \/ path \in Holders(at, y) =>
             \E p \in DOMAIN pages : pages[p].kind = "leaf" /\ y \in DOMAIN pages[p].entries
    <3>1. \A y : y = x \/ path \in Holders(at, y) => y \in DOMAIN es  BY <2>5, <2>7, <2>8
    <3> QED BY <2>10, <3>1
  <2>13. new[x] # NoEntry  BY <1>5, <1>6, <1>8
  <2>14. Sound(Mark(l, path, pages), k, new)
      BY <1>1, <1>6, <2>2, <2>3, <2>10, <2>11, <2>12, <2>13, MarkSound DEF at
  <2> QED BY <2>1, <2>14 DEF new
<1> QED BY <1>7, <1>8

-----------------------------------------------------------------------------
(* The session *)

LEMMA EmptySound ==
  ASSUME NEW k \in Kinds
  PROVE  Sound(CursorOn(NoPage), k, [x \in PagedIds |-> NoEntry])
<1> DEFINE d == CursorOn(NoPage)
           at == PagesOf(d)
           set == [x \in PagedIds |-> NoEntry]
           S == {p \in Paths : at[p] = NoPage}
<1>0. NoPage.kind = "none"  BY DEF NoPage
<1>1. Working(d) /\ TopPage(d) = NoPage  BY CursorOnIs
<1>2. << >> \in Paths => << >> \in S  BY <1>1, PagesUnfold
<1>3. ASSUME NEW p \in Paths, p # << >>, Front(p) \in S PROVE p \in S
  <2>1. at[p] = Below(d, p, at[Front(p)]) /\ at[Front(p)] = NoPage  BY <1>3, PagesUnfold
  <2>2. at[p] = NoPage
    <3> HIDE DEF at, d
    <3> QED BY <1>0, <2>1 DEF Below
  <2> QED BY <2>2
<1>4. \A p \in Paths : at[p] = NoPage
  <2>1. \A p \in Paths : p \in S
    <3> HIDE DEF S
    <3> QED BY <1>2, <1>3, PathInduction
  <2> QED BY <2>1
<1> HIDE DEF at, d
<1>5. SoundTree(at)  BY <1>0, <1>4 DEF SoundTree, SoundPage
<1>6. \A x : Holders(at, x) = {}  BY <1>0, <1>4 DEF Holders
<1>7. \A x \in Held[k] : set[x] = NoEntry  BY HeldIsPaged
<1> HIDE DEF set
<1>8. \A x \in Held[k] : HoldsOf(at, x, set[x])  BY <1>6, <1>7 DEF HoldsOf
<1>9. Sound(d, k, set)  BY <1>1, <1>5, <1>8, Zenon DEF Sound, at
<1> QED BY <1>9 DEF d, set

LEMMA SoundSame ==
  ASSUME NEW c, NEW k, NEW set, NEW new, Sound(c, k, set), \A x \in Held[k] : new[x] = set[x]
  PROVE  Sound(c, k, new)
<1>1. \A x \in Held[k] : HoldsOf(PagesOf(c), x, new[x])
  <2> SUFFICES ASSUME NEW x \in Held[k] PROVE HoldsOf(PagesOf(c), x, new[x])  OBVIOUS
  <2>1. HoldsOf(PagesOf(c), x, set[x]) /\ new[x] = set[x]  BY DEF Sound
  <2> QED BY <2>1, Zenon
<1> QED BY <1>1, Zenon DEF Sound

LEMMA OtherTrie ==
  ASSUME NEW k \in Kinds, NEW j \in Kinds, j # k, NEW x \in Held[k]
  PROVE  x \notin Held[j]
BY TrieSessionAssumption DEF Kinds

(* One trie changes, and the set with it. *)
LEMMA OneChanges ==
  ASSUME NEW cs, cs = [k \in Kinds |-> cs[k]], NEW set, IsSet(set), \A j \in Kinds : Sound(cs[j], j, set),
         NEW k \in Kinds, NEW x \in Held[k], NEW e, IsEntry(e), NEW c, Sound(c, k, [set EXCEPT ![x] = e])
  PROVE  /\ IsSet([set EXCEPT ![x] = e])
         /\ [cs EXCEPT ![k] = c] = [j \in Kinds |-> [cs EXCEPT ![k] = c][j]]
         /\ \A j \in Kinds : Sound([cs EXCEPT ![k] = c][j], j, [set EXCEPT ![x] = e])
<1> DEFINE ds == [cs EXCEPT ![k] = c]
           new == [set EXCEPT ![x] = e]
<1>0. x \in PagedIds  BY HeldIsPaged
<1>1. IsSet(new) /\ \A y \in PagedIds : y # x => new[y] = set[y]  BY <1>0, SetWith
<1>2. ds = [j \in Kinds |-> ds[j]] /\ ds[k] = c /\ \A j \in Kinds : j # k => ds[j] = cs[j]  OBVIOUS
<1>3. Sound(c, k, new)  OBVIOUS
<1> HIDE DEF ds, new
<1>4. ASSUME NEW j \in Kinds PROVE Sound(ds[j], j, new)
  <2>1. CASE j = k  BY <1>2, <1>3, <2>1
  <2>2. CASE j # k
    <3>1. \A y \in Held[j] : new[y] = set[y]  BY <1>1, <2>2, OtherTrie, HeldIsPaged
    <3>2. Sound(cs[j], j, new)  BY <3>1, SoundSame
    <3> QED BY <1>2, <2>2, <3>2
  <2> QED BY <2>1, <2>2
<1> QED BY <1>1, <1>2, <1>4 DEF ds, new

LEMMA FlushedSound ==
  ASSUME NEW cs, NEW set, \A j \in Kinds : Sound(cs[j], j, set)
  PROVE  \A j \in Kinds : Sound([k \in Kinds |-> CursorOn(FlushRoot(cs[k]))][j], j, set)
<1> SUFFICES ASSUME NEW j \in Kinds PROVE Sound([k \in Kinds |-> CursorOn(FlushRoot(cs[k]))][j], j, set)
    OBVIOUS
<1>1. [k \in Kinds |-> CursorOn(FlushRoot(cs[k]))][j] = CursorOn(FlushRoot(cs[j]))  OBVIOUS
<1>2. Sound(CursorOn(FlushRoot(cs[j])), j, set)  BY FlushSound
<1> QED BY <1>1, <1>2, Zenon

LEMMA FlushedTries ==
  ASSUME NEW cs, NEW set, Tries(cs, set)
  PROVE  Tries([k \in Kinds |-> CursorOn(FlushRoot(cs[k]))], set)
<1> DEFINE ds == [k \in Kinds |-> CursorOn(FlushRoot(cs[k]))]
<1>1. ds = [k \in Kinds |-> ds[k]]  OBVIOUS
<1>2. \A j \in Kinds : Sound(ds[j], j, set)  BY FlushedSound DEF Tries
<1> HIDE DEF ds
<1>3. Tries(ds, set)  BY <1>1, <1>2 DEF Tries
<1> QED BY <1>3 DEF ds

LEMMA TriesWith ==
  ASSUME NEW cs, NEW set, Tries(cs, set), NEW k \in Kinds, NEW x \in Held[k], NEW e, IsEntry(e),
         NEW c, Sound(c, k, [set EXCEPT ![x] = e])
  PROVE  Tries([cs EXCEPT ![k] = c], [set EXCEPT ![x] = e])
BY OneChanges DEF Tries

LEMMA TriesLoad ==
  ASSUME NEW cs, NEW set, Tries(cs, set), NEW k \in Kinds, NEW walk, IsWalk(walk)
  PROVE  Tries([cs EXCEPT ![k] = Load(@, walk)], set)
<1> DEFINE c == Load(cs[k], walk)
           ds == [cs EXCEPT ![k] = Load(@, walk)]
<1>1. cs = [j \in Kinds |-> cs[j]] /\ IsSet(set) /\ \A j \in Kinds : Sound(cs[j], j, set)  BY DEF Tries
<1>2. Sound(c, k, set)  BY <1>1, LoadSound
<1>3. ds = [cs EXCEPT ![k] = c]  OBVIOUS
<1> HIDE DEF c, ds
<1>4. ds = [j \in Kinds |-> ds[j]] /\ ds[k] = c /\ \A j \in Kinds : j # k => ds[j] = cs[j]  BY <1>1, <1>3
<1>5. \A j \in Kinds : Sound(ds[j], j, set)  BY <1>1, <1>2, <1>4
<1>6. Tries(ds, set)  BY <1>1, <1>4, <1>5 DEF Tries
<1> QED BY <1>6 DEF ds

(* The change is made, and flushed or not. *)
LEMMA ChangedTries ==
  ASSUME NEW k, NEW c, Changed(k, c), Tries([cursor EXCEPT ![k] = c], elements')
  PROVE  Tries(cursor', elements')
<1> DEFINE cs == [cursor EXCEPT ![k] = c]
<1>1. cursor' = cs \/ cursor' = [j \in Kinds |-> CursorOn(FlushRoot(cs[j]))]
    BY Zenon DEF Changed, FlushAndRetain, FlushFails
<1>2. Tries([j \in Kinds |-> CursorOn(FlushRoot(cs[j]))], elements')  BY FlushedTries
<1> HIDE DEF cs
<1> QED BY <1>1, <1>2, Zenon DEF cs

LEMMA SessionStarts == SessionInit => SessionInv
<1> SUFFICES ASSUME SessionInit PROVE SessionInv  OBVIOUS
<1> DEFINE cs == [k \in Kinds |-> CursorOn(NoPage)]
           set == [x \in PagedIds |-> NoEntry]
<1>1. cursor = cs /\ elements = set /\ kept = set /\ [k \in Kinds |-> CursorOn(retained[k])] = cs
    BY DEF SessionInit
<1>2. cs = [k \in Kinds |-> cs[k]] /\ \A k \in Kinds : cs[k] = CursorOn(NoPage)  OBVIOUS
<1>3. IsEntry(NoEntry)  BY DEF IsEntry, NoEntry
<1>4. IsSet(set)
  <2>1. DOMAIN set = PagedIds /\ set = [x \in PagedIds |-> set[x]] /\ \A x \in PagedIds : set[x] = NoEntry
      OBVIOUS
  <2> HIDE DEF set
  <2> QED BY <1>3, <2>1 DEF IsSet
<1>5. \A k \in Kinds : Sound(CursorOn(NoPage), k, set)  BY EmptySound
<1> HIDE DEF cs, set
<1>6. Tries(cs, set)  BY <1>2, <1>4, <1>5, Zenon DEF Tries
<1> QED BY <1>1, <1>6, Zenon DEF SessionInv

LEMMA AddStep ==
  ASSUME SessionInv, NEW k \in Kinds, NEW x \in Held[k], NEW dot, AddElement(k, x, dot)
  PROVE  SessionInv'
<1> DEFINE e == Upserted(elements[x], dot)
           c == CursorAdd(cursor[k], x, dot)
<1>1. Tries(cursor, elements) /\ x \in PagedIds  BY HeldIsPaged DEF SessionInv
<1>2. IsSet(elements) /\ Sound(cursor[k], k, elements) /\ IsEntry(elements[x])  BY <1>1 DEF Tries, IsSet
<1>3. IsEntry(e)  BY <1>2, UpsertedIs
<1>4. /\ Changed(k, c) /\ elements' = [elements EXCEPT ![x] = e]
      /\ retained' = retained /\ kept' = kept
    BY DEF AddElement
<1>5. Sound(c, k, [elements EXCEPT ![x] = Upserted(@, dot)])  BY <1>2, AddSound
<1>6. Sound(c, k, [elements EXCEPT ![x] = e])  BY <1>5
<1> HIDE DEF c, e
<1>7. Tries([cursor EXCEPT ![k] = c], [elements EXCEPT ![x] = e])  BY <1>1, <1>3, <1>6, TriesWith
<1>8. Tries(cursor', elements')
  <2>1. Tries([cursor EXCEPT ![k] = c], elements')  BY <1>4, <1>7, Zenon
  <2> QED BY <1>4, <2>1, ChangedTries
<1> QED BY <1>4, <1>8 DEF SessionInv

LEMMA RemoveStep ==
  ASSUME SessionInv, NEW k \in Kinds, NEW x \in Held[k], NEW observed, RemoveElement(k, x, observed)
  PROVE  SessionInv'
<1> DEFINE e == Tombstoned(elements[x], observed)
           c == CursorRemove(cursor[k], x, observed)
<1>1. Tries(cursor, elements) /\ x \in PagedIds  BY HeldIsPaged DEF SessionInv
<1>2. IsSet(elements) /\ Sound(cursor[k], k, elements) /\ IsEntry(elements[x])  BY <1>1 DEF Tries, IsSet
<1>3. IsEntry(e)  BY <1>2, TombstonedIs
<1>4. /\ Changed(k, c) /\ elements' = [elements EXCEPT ![x] = e]
      /\ retained' = retained /\ kept' = kept
    BY DEF RemoveElement
<1>5. Sound(c, k, [elements EXCEPT ![x] = Tombstoned(@, observed)])  BY <1>2, RemoveSound
<1>6. Sound(c, k, [elements EXCEPT ![x] = e])  BY <1>5
<1> HIDE DEF c, e
<1>7. Tries([cursor EXCEPT ![k] = c], [elements EXCEPT ![x] = e])  BY <1>1, <1>3, <1>6, TriesWith
<1>8. Tries(cursor', elements')
  <2>1. Tries([cursor EXCEPT ![k] = c], elements')  BY <1>4, <1>7, Zenon
  <2> QED BY <1>4, <2>1, ChangedTries
<1> QED BY <1>4, <1>8 DEF SessionInv

LEMMA LoadStep ==
  ASSUME SessionInv, NEW k \in Kinds, NEW walk, IsWalk(walk),
         cursor' = [cursor EXCEPT ![k] = Load(@, walk)],
         retained' = retained, elements' = elements, kept' = kept
  PROVE  SessionInv'
<1>1. Tries(cursor, elements)  BY DEF SessionInv
<1>2. Tries([cursor EXCEPT ![k] = Load(@, walk)], elements)  BY <1>1, TriesLoad
<1>3. Tries(cursor', elements')  BY <1>2, Zenon
<1> QED BY <1>3 DEF SessionInv

LEMMA KeepStep ==
  ASSUME SessionInv, Keep(Roots(cursor)), elements' = elements
  PROVE  SessionInv'
<1> DEFINE cs == [k \in Kinds |-> CursorOn(FlushRoot(cursor[k]))]
<1>1. Tries(cs, elements)  BY FlushedTries DEF SessionInv
<1>2. cursor' = cs /\ retained' = Roots(cursor) /\ kept' = elements  BY DEF Keep, Roots
<1>3. [k \in Kinds |-> CursorOn(retained'[k])] = cs  BY <1>2 DEF Roots
<1> HIDE DEF cs
<1> QED BY <1>1, <1>2, <1>3, Zenon DEF SessionInv

LEMMA SessionStep ==
  ASSUME SessionInv, [SessionNext]_sessionVars
  PROVE  SessionInv'
<1>1. ASSUME UNCHANGED <<cursor, retained, elements, kept>> PROVE SessionInv'
    BY <1>1 DEF SessionInv
<1>2. CASE Open  BY <1>1, <1>2 DEF Open
<1>3. CASE Close
  <2>1. elements' = elements  BY <1>3 DEF Close
  <2>2. CASE Keep(Roots(cursor))  BY <2>1, <2>2, KeepStep
  <2>3. CASE FlushFails(cursor) /\ UNCHANGED <<phase, retained, kept>>
      BY <1>1, <2>1, <2>3 DEF FlushFails
  <2> QED BY <1>3, <2>2, <2>3 DEF Close
<1>4. CASE PrepareClose  BY <1>1, <1>4 DEF PrepareClose
<1>5. CASE Accept  BY <1>5, KeepStep DEF Accept
<1>6. CASE Abort
  <2>1. /\ cursor' = [k \in Kinds |-> CursorOn(retained[k])] /\ elements' = kept
        /\ retained' = retained /\ kept' = kept
      BY <1>6 DEF Abort
  <2>2. Tries([k \in Kinds |-> CursorOn(retained[k])], kept)  BY DEF SessionInv
  <2>3. Tries(cursor', elements')  BY <2>1, <2>2, Zenon
  <2> QED BY <2>1, <2>3 DEF SessionInv
<1>7. ASSUME NEW k \in Kinds, ScanElements(k) PROVE SessionInv'
    BY <1>7, WalkOfAll, LoadStep DEF ScanElements
<1>8. ASSUME NEW k \in Kinds, NEW x \in Held[k], ReadElement(k, x) PROVE SessionInv'
  <2>1. IsWalk(Along(x))  BY HeldIsPaged, Walks
  <2> QED BY <1>8, <2>1, LoadStep DEF ReadElement
<1>9. ASSUME NEW k \in Kinds, NEW x \in Held[k], NEW dot, AddElement(k, x, dot) PROVE SessionInv'
    BY <1>9, AddStep
<1>10. ASSUME NEW k \in Kinds, NEW x \in Held[k], NEW observed, RemoveElement(k, x, observed) PROVE SessionInv'
    BY <1>10, RemoveStep
<1>11. CASE UNCHANGED sessionVars  BY <1>1, <1>11 DEF sessionVars
<1> QED BY <1>2, <1>3, <1>4, <1>5, <1>6, <1>7, <1>8, <1>9, <1>10, <1>11 DEF SessionNext

LEMMA SessionReads == SessionInv => PagesAreTheSet
<1> SUFFICES ASSUME SessionInv, NEW k \in Kinds
             PROVE  /\ ReadsAs(cursor[k], k, elements)
                    /\ Resolvable(cursor[k]) /\ ReadsAs(CursorOn(FlushRoot(cursor[k])), k, elements)
                    /\ ReadsAs(CursorOn(retained[k]), k, kept)
    BY DEF PagesAreTheSet
<1>1. Sound(cursor[k], k, elements)  BY DEF SessionInv, Tries
<1>2. Sound(CursorOn(FlushRoot(cursor[k])), k, elements)  BY <1>1, FlushSound
<1>3. Sound(CursorOn(retained[k]), k, kept)
  <2> DEFINE cs == [j \in Kinds |-> CursorOn(retained[j])]
  <2>1. cs[k] = CursorOn(retained[k])  OBVIOUS
  <2>2. Tries(cs, kept)  BY DEF SessionInv
  <2> HIDE DEF cs
  <2>3. Sound(cs[k], k, kept)  BY <2>2 DEF Tries
  <2> QED BY <2>1, <2>3, Zenon
<1> QED BY <1>1, <1>2, <1>3, SoundReads, SoundResolvable

(* Whatever was loaded, split, flushed, failed to flush or was opened      *)
(* again, the pages of both tries are the sets the session was told of, in *)
(* the working pages, in what a flush writes and in what the last session  *)
(* kept (TrieCursor, TrieFlusher, StateSession).                           *)
THEOREM PagesReadAsSets == SessionSpec => []PagesAreTheSet
<1>1. SessionInit => SessionInv  BY SessionStarts
<1>2. SessionInv /\ [SessionNext]_sessionVars => SessionInv'  BY SessionStep
<1>3. SessionInv => PagesAreTheSet  BY SessionReads
<1> QED BY <1>1, <1>2, <1>3, PTL DEF SessionSpec

=============================================================================
