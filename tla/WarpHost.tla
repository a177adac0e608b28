------------------------------ MODULE WarpHost ------------------------------
(***************************************************************************)
(* The write path of git-warp and the cache of the runtime that hosts it:  *)
(* processes (hosts) open the same graph, build patches, publish them by   *)
(* compare-and-swap on a writer ref, apply them to their cached state,     *)
(* materialize, checkpoint and restart.  An action ends where the code     *)
(* awaits, so two calls of one process interleave as they do in Node.      *)
(*                                                                         *)
(* A patch is named by its position in its writer's chain.  A WarpState is *)
(* the set of patches reduced into it; WarpState objects are mutated in    *)
(* place and shared, so every host keeps a heap of them.                   *)
(***************************************************************************)
EXTENDS Naturals, Sequences, FiniteSets

CONSTANTS
  Hosts,           \* processes (RuntimeHost instances) on one repository
  Writers,         \* writer ids
  Sessions,        \* callers that build and commit patches, one at a time
  HostOf,          \* the host a session calls
  WriterOf,        \* the writer id it writes as
  Api,             \* "graph": createPatch()   "writer": Writer.beginPatch()
  Faults,          \* what may go wrong: "fail", "lostAck" (storage), "hook"
  Discipline,      \* usage rules the application keeps: "serial", "materialized"
  Ceilings,        \* Lamport ceilings asked of materialize(); {} for live only
  MaxPatches,      \* no session starts a patch once so many are published
  MaxAdds,         \* addNode/addEdge calls per patch
  MaxObjects,      \* materializations per host and incarnation
  MaxCheckpoints,  \* checkpoints started
  MaxRestarts      \* process restarts

ASSUME HostAssumption ==
  /\ HostOf \in [Sessions -> Hosts]
  /\ WriterOf \in [Sessions -> Writers]
  /\ Api \in [Sessions -> {"graph", "writer"}]
  /\ Ceilings \subseteq Nat \ {0}
  /\ MaxPatches \in Nat /\ MaxAdds \in Nat /\ MaxObjects \in Nat
  /\ MaxCheckpoints \in Nat /\ MaxRestarts \in Nat

VARIABLES
  chain,           \* chain[w]: patches reachable from the writer ref
  host,            \* in-memory fields of every RuntimeHost
  session,         \* the builder and commit in progress of every session
  reader,          \* the materialize() in progress of every host
  checkpointer,    \* the createCheckpoint() in progress of every host
  checkpoint,      \* the checkpoint head: a frontier and a state
  acked,           \* commits whose commit() promise resolved
  warned,          \* patches whose failed hook was logged
  restarts, checkpoints    \* bound counters

store == <<chain, acked, warned>>
vars == <<chain, host, session, reader, checkpointer, checkpoint,
          acked, warned, restarts, checkpoints>>

-----------------------------------------------------------------------------
(* Data *)

VersionVector == [Writers -> Nat]

(* A version vector or frontier that is not there (null, or an alias). *)
Nothing == [w \in {} |-> 0]

(* Writer tips: the position of the tip in the chain, 0 when unborn. *)
Frontier == [Writers -> Nat]

Patch == [writer : Writers, lamport : Nat, context : VersionVector,
          adds : SUBSET Nat, by : Sessions]

Max2(a, b) == IF a >= b THEN a ELSE b

(* The largest element, 0 when there is none. *)
Highest(S) ==
  IF \E m \in S : \A n \in S : n <= m
  THEN CHOOSE m \in S : \A n \in S : n <= m
  ELSE 0

Heads == [w \in Writers |-> Len(chain[w])]

HeadLamport(w) ==
  IF chain[w] = <<>> THEN 0 ELSE chain[w][Len(chain[w])].lamport

(* Patches reachable from the tips of a frontier. *)
PatchesUpTo(f) ==
  UNION {{chain[w][i] : i \in {j \in DOMAIN chain[w] : j <= f[w]}} : w \in Writers}

ObservedTicksOnly(S) ==                                          \* mutant
  [w \in Writers |-> Highest({p.lamport : p \in {q \in S : q.writer = w}})]

(* observedFrontier after foldPatch of every patch of a state: the contexts *)
(* merged, and each writer's entry raised to the patch's lamport.           *)
Observed(S) ==
  [w \in Writers |-> Highest({p.context[w] : p \in S}
                             \cup {p.lamport : p \in {q \in S : q.writer = w}})]

(* maxObservedLamportInState *)
MaxObserved(S) == LET o == Observed(S) IN Highest({o[w] : w \in Writers})

Idle == [pc |-> "idle", parent |-> 0, lamport |-> 0,
         vv |-> Nothing, adds |-> {}, held |-> Nothing,
         object |-> 0, frontier |-> Nothing]

(* A session of the Writer API first obtains its Writer. *)
Fresh(s) == [Idle EXCEPT !.pc = IF Api[s] = "writer" THEN "closed" ELSE "idle"]

(* RuntimeHost constructor: nothing is read from the repository. *)
Opened == [vv |-> [w \in Writers |-> 0], objects |-> <<>>, cached |-> 0,
           dirty |-> FALSE, maxLamport |-> 0,
           cachedFrontier |-> Nothing, lastFrontier |-> Nothing]

NotReading == [pc |-> "idle", frontier |-> Nothing, ceiling |-> 0, result |-> {}]
NoCheckpoint == [frontier |-> Nothing, state |-> {}]
NotCheckpointing == [pc |-> "idle", frontier |-> Nothing, object |-> 0,
                     state |-> {}, expected |-> NoCheckpoint]

Init ==
  /\ chain = [w \in Writers |-> <<>>]
  /\ host = [h \in Hosts |-> Opened]
  /\ session = [s \in Sessions |-> Fresh(s)]
  /\ reader = [h \in Hosts |-> NotReading]
  /\ checkpointer = [h \in Hosts |-> NotCheckpointing]
  /\ checkpoint = NoCheckpoint
  /\ acked = {} /\ warned = {}
  /\ restarts = 0 /\ checkpoints = 0

-----------------------------------------------------------------------------
(* Helpers on the state of a host *)

CachedState(h) == IF host[h].cached = 0 THEN {} ELSE host[h].objects[host[h].cached]

Clean(h) == host[h].cached # 0 /\ ~host[h].dirty

Quiet(h) ==
  /\ reader[h].pc = "idle"
  /\ checkpointer[h].pc = "idle"
  /\ \A s \in Sessions : HostOf[s] = h => session[s].pc \in {"closed", "idle"}

(* The application's own rules about when it starts another call. *)
MayStart(h) == "serial" \in Discipline => Quiet(h)

(* Assigning _versionVector a clone leaves the Writers of the host holding *)
(* the object they captured when they were created.                       *)
Detached(h) ==
  [s \in Sessions |->
     IF HostOf[s] = h /\ Api[s] = "writer" /\ session[s].pc # "closed"
          /\ session[s].held = Nothing
     THEN [session[s] EXCEPT !.held = host[h].vv]
     ELSE session[s]]

Published == Cardinality(UNION {{<<w, i>> : i \in DOMAIN chain[w]} : w \in Writers})

(* The patch a session commits. *)
PatchOf(s) ==
  [writer |-> WriterOf[s], lamport |-> session[s].lamport,
   context |-> session[s].vv, adds |-> session[s].adds, by |-> s]

(* A finished commit leaves only the Writer's own vector behind. *)
Closed(s) == [session EXCEPT ![s] = [Idle EXCEPT !.held = session[s].held]]

-----------------------------------------------------------------------------
(* Building a patch *)

(* graph.writer(): the Writer captures the host's vector by reference. *)
OpenWriter(s) ==
  /\ session[s].pc = "closed"
  /\ MayStart(HostOf[s])
  /\ session' = [session EXCEPT ![s].pc = "idle"]
  /\ UNCHANGED <<store, host, reader, checkpointer, checkpoint, restarts, checkpoints>>

NextLamportOwnOnly(s) == HeadLamport(WriterOf[s]) + 1            \* mutant

(* createPatch() / beginPatch(): read the writer ref and the tick of its head. *)
NextLamport(s) ==
  IF Api[s] = "graph"
  THEN Max2(HeadLamport(WriterOf[s]), host[HostOf[s]].maxLamport) + 1
  ELSE HeadLamport(WriterOf[s]) + 1

BeginPatch(s) ==
  /\ session[s].pc = "idle"
  /\ Published < MaxPatches
  /\ MayStart(HostOf[s])
  /\ "materialized" \in Discipline => Clean(HostOf[s])
  /\ session' = [session EXCEPT ![s].pc = "begun",
                                ![s].parent = Len(chain[WriterOf[s]]),
                                ![s].lamport = NextLamport(s)]
  /\ UNCHANGED <<store, host, reader, checkpointer, checkpoint, restarts, checkpoints>>

(* new PatchBuilder(): clone the vector, then n adds each take the next dot. *)
BuilderVector(s) ==
  IF session[s].held = Nothing THEN host[HostOf[s]].vv ELSE session[s].held

BuildPatch(s) ==
  /\ session[s].pc = "begun"
  /\ \E n \in 0..MaxAdds :
       LET w == WriterOf[s]
           vv == BuilderVector(s)
       IN session' = [session EXCEPT ![s].pc = "open",
                                     ![s].vv = [vv EXCEPT ![w] = @ + n],
                                     ![s].adds = (vv[w] + 1)..(vv[w] + n)]
  /\ UNCHANGED <<store, host, reader, checkpointer, checkpoint, restarts, checkpoints>>

-----------------------------------------------------------------------------
(* Publishing it: commitPatch of PatchCommitter *)

HeadUnmoved(s) == Len(chain[WriterOf[s]]) = session[s].parent

CommitLamport(s) ==
  IF session[s].parent = 0
  THEN session[s].lamport
  ELSE Max2(session[s].lamport, HeadLamport(WriterOf[s]) + 1)

CheckHead(s) ==
  /\ session[s].pc = "open"
  /\ HeadUnmoved(s)
  /\ session' = [session EXCEPT ![s].pc = "checked", ![s].lamport = CommitLamport(s)]
  /\ UNCHANGED <<store, host, reader, checkpointer, checkpoint, restarts, checkpoints>>

(* The new commit's parent is the head the builder saw; the ref moves to it. *)
ChainWith(s) ==
  [chain EXCEPT ![WriterOf[s]] = Append(SubSeq(@, 1, session[s].parent), PatchOf(s))]

AppendToRefBlind(s) ==                                           \* mutant
  session[s].pc = "checked" /\ chain' = ChainWith(s) /\ UNCHANGED <<acked, warned>>

AppendToRef(s) ==
  /\ session[s].pc = "checked"
  /\ HeadUnmoved(s)
  /\ chain' = ChainWith(s)
  /\ UNCHANGED <<acked, warned>>

Publish(s) ==
  /\ AppendToRef(s)
  /\ session' = [session EXCEPT ![s].pc = "published"]
  /\ UNCHANGED <<host, reader, checkpointer, checkpoint, restarts, checkpoints>>

(* The ref moved under the builder, found at the first read or by the CAS. *)
Conflict(s) ==
  /\ session[s].pc \in {"open", "checked"}
  /\ ~HeadUnmoved(s)
  /\ session' = Closed(s)
  /\ UNCHANGED <<store, host, reader, checkpointer, checkpoint, restarts, checkpoints>>

(* appendPatch throws and the ref is where it was: the error is rethrown. *)
PublishFails(s) ==
  /\ "fail" \in Faults
  /\ session[s].pc = "checked"
  /\ HeadUnmoved(s)
  /\ session' = Closed(s)
  /\ UNCHANGED <<store, host, reader, checkpointer, checkpoint, restarts, checkpoints>>

(* appendPatch throws after the ref moved: the ref is read again, differs   *)
(* from the expected head, and the error becomes a CAS conflict.            *)
PublishLosesAck(s) ==
  /\ "lostAck" \in Faults
  /\ AppendToRef(s)
  /\ session' = Closed(s)
  /\ UNCHANGED <<host, reader, checkpointer, checkpoint, restarts, checkpoints>>

-----------------------------------------------------------------------------
(* _onPatchCommitted: the host learns of its own commit *)

ReportedAtParent(s) ==                                           \* mutant
  acked' = acked \cup {[writer |-> WriterOf[s], at |-> session[s].parent,
                        patch |-> PatchOf(s)]}

Reported(s) ==
  acked' = acked \cup {[writer |-> WriterOf[s], at |-> session[s].parent + 1,
                        patch |-> PatchOf(s)]}

(* The fields it assigns first, whichever way it goes on. *)
Noted(s) ==
  LET h == HostOf[s] IN
  [host[h] EXCEPT !.vv[WriterOf[s]] = @ + 1,
                  !.maxLamport = Max2(@, session[s].lamport)]

Committed(s) == session[s].pc = "published"

(* applyWithDiff / applyWithReceipt on the cached state. *)
AppliedToCopy(s) == CachedState(HostOf[s])                       \* mutant
Applied(s) == CachedState(HostOf[s]) \cup {PatchOf(s)}

(* The coordinate of the cache with the writer's tip moved to the commit. *)
AdvancedNowhere(s) == host[HostOf[s]].cachedFrontier             \* mutant
Advanced(s) ==
  LET f == host[HostOf[s]].cachedFrontier IN
  IF f = Nothing THEN Nothing ELSE [f EXCEPT ![WriterOf[s]] = session[s].parent + 1]

(* A clean cached state is mutated in place, then hashed by an async call. *)
OnCommittedEager(s) ==
  LET h == HostOf[s] IN
  /\ Committed(s)
  /\ Clean(h)
  /\ host' = [host EXCEPT ![h] = [Noted(s) EXCEPT !.objects[host[h].cached] = Applied(s)]]
  /\ session' = [session EXCEPT ![s].pc = "hashing",
                                ![s].object = host[h].cached,
                                ![s].frontier = Advanced(s)]
  /\ UNCHANGED <<store, reader, checkpointer, checkpoint, restarts, checkpoints>>

(* Without one the cache is only marked dirty. *)
OnCommittedDirty(s) ==
  LET h == HostOf[s] IN
  /\ session[s].pc = "published"
  /\ ~Clean(h)
  /\ host' = [host EXCEPT ![h] = [Noted(s) EXCEPT !.dirty = TRUE]]
  /\ Reported(s)
  /\ session' = Closed(s)
  /\ UNCHANGED <<chain, warned, reader, checkpointer, checkpoint, restarts, checkpoints>>

(* What _setMaterializedState and _onMaterialized install for an object. *)
Installed(h, object, state, f) ==
  [host[h] EXCEPT !.cached = object, !.dirty = FALSE,
                  !.vv = Observed(state), !.cachedFrontier = f]

(* The hash is there: _setMaterializedState assigns the object it was given. *)
FinishCommit(s) ==
  LET h == HostOf[s]
      object == session[s].object
      w == WriterOf[s]
  IN
  /\ session[s].pc = "hashing"
  /\ host' = [host EXCEPT ![h] =
       [Installed(h, object, host[h].objects[object], session[s].frontier)
          EXCEPT !.lastFrontier = IF @ = Nothing THEN Nothing
                                  ELSE [@ EXCEPT ![w] = session[s].parent + 1]]]
  /\ Reported(s)
  /\ session' = [Detached(h) EXCEPT ![s] = [Idle EXCEPT !.held = Detached(h)[s].held]]
  /\ UNCHANGED <<chain, warned, reader, checkpointer, checkpoint, restarts, checkpoints>>

(* The hash fails, and the hook with it: the committer logs that and reports *)
(* the commit.  The cached state keeps the patch; its coordinate, the vector *)
(* and _lastFrontier do not follow.                                          *)
HookFails(s) ==
  /\ "hook" \in Faults
  /\ session[s].pc = "hashing"
  /\ Reported(s)
  /\ warned' = warned \cup {PatchOf(s)}
  /\ session' = Closed(s)
  /\ UNCHANGED <<chain, host, reader, checkpointer, checkpoint, restarts, checkpoints>>

-----------------------------------------------------------------------------
(* materialize(): live (ceiling 0 stands for null) or up to a Lamport ceiling *)

MaterializeBegin(h, c) ==
  /\ reader[h].pc = "idle"
  /\ Len(host[h].objects) < MaxObjects
  /\ MayStart(h)
  /\ reader' = [reader EXCEPT ![h] = [pc |-> "reading", frontier |-> Heads,
                                      ceiling |-> c, result |-> {}]]
  /\ UNCHANGED <<store, host, session, checkpointer, checkpoint, restarts, checkpoints>>

(* checkpointSupportsCoordinate: every checkpoint tip is an ancestor. *)
CheckpointSupports(f) ==
  /\ checkpoint # NoCheckpoint
  /\ \A w \in Writers : checkpoint.frontier[w] <= f[w]

ReducedWithoutTail(f, c) ==                                      \* mutant
  IF CheckpointSupports(f) THEN checkpoint.state ELSE PatchesUpTo(f)

(* Checkpoint state plus the patches since its frontier, or a full replay. *)
Reduced(f, c) ==
  CASE c # 0 -> {p \in PatchesUpTo(f) : p.lamport <= c}
    [] c = 0 /\ CheckpointSupports(f) ->
         checkpoint.state \cup (PatchesUpTo(f) \ PatchesUpTo(checkpoint.frontier))
    [] OTHER -> PatchesUpTo(f)

MaterializeReduce(h) ==
  /\ reader[h].pc = "reading"
  /\ reader' = [reader EXCEPT ![h].pc = "reduced",
                              ![h].result = Reduced(reader[h].frontier, reader[h].ceiling)]
  /\ UNCHANGED <<store, host, session, checkpointer, checkpoint, restarts, checkpoints>>

(* _onMaterialized up to its first await: a fresh object replaces the cache. *)
MaterializeInstall(h) ==
  LET r == reader[h]
      object == Len(host[h].objects) + 1
  IN
  /\ r.pc = "reduced"
  /\ host' = [host EXCEPT ![h] =
       [Installed(h, object, r.result, r.frontier)
          EXCEPT !.objects = Append(@, r.result),
                 !.maxLamport = Max2(@, MaxObserved(r.result))]]
  /\ session' = Detached(h)
  /\ reader' = [reader EXCEPT ![h] = IF r.ceiling = 0 THEN [r EXCEPT !.pc = "installed"]
                                     ELSE NotReading]
  /\ UNCHANGED <<store, checkpointer, checkpoint, restarts, checkpoints>>

(* ... and after it: the frontier is read again and kept as _lastFrontier. *)
MaterializeFrontier(h) ==
  /\ reader[h].pc = "installed"
  /\ host' = [host EXCEPT ![h].lastFrontier = Heads]
  /\ reader' = [reader EXCEPT ![h] = NotReading]
  /\ UNCHANGED <<store, session, checkpointer, checkpoint, restarts, checkpoints>>

-----------------------------------------------------------------------------
(* createCheckpoint() *)

CheckpointBegin(h) ==
  /\ checkpointer[h].pc = "idle"
  /\ checkpoints < MaxCheckpoints
  /\ MayStart(h)
  /\ checkpointer' = [checkpointer EXCEPT ![h] =
       [NotCheckpointing EXCEPT !.pc = "frontier", !.frontier = Heads]]
  /\ checkpoints' = checkpoints + 1
  /\ UNCHANGED <<store, host, session, reader, checkpoint, restarts>>

(* _requireCheckpointReadingState: the cached object, by reference. *)
CheckpointCapture(h) ==
  /\ checkpointer[h].pc = "frontier"
  /\ Clean(h)
  /\ checkpointer' = [checkpointer EXCEPT ![h].pc = "captured", ![h].object = host[h].cached]
  /\ UNCHANGED <<store, host, session, reader, checkpoint, restarts, checkpoints>>

(* ... or E_NO_STATE. *)
CheckpointFails(h) ==
  /\ checkpointer[h].pc = "frontier"
  /\ ~Clean(h)
  /\ checkpointer' = [checkpointer EXCEPT ![h] = NotCheckpointing]
  /\ UNCHANGED <<store, host, session, reader, checkpoint, restarts, checkpoints>>

(* The object is encoded and the checkpoint head to replace is read. *)
CheckpointEncode(h) ==
  /\ checkpointer[h].pc = "captured"
  /\ checkpointer' = [checkpointer EXCEPT
       ![h].pc = "encoded", ![h].state = host[h].objects[checkpointer[h].object],
       ![h].expected = checkpoint]
  /\ UNCHANGED <<store, host, session, reader, checkpoint, restarts, checkpoints>>

(* It becomes the checkpoint head, under the frontier, if the head is still that. *)
CheckpointPublish(h) ==
  /\ checkpointer[h].pc = "encoded"
  /\ checkpoint = checkpointer[h].expected
  /\ checkpoint' = [frontier |-> checkpointer[h].frontier, state |-> checkpointer[h].state]
  /\ checkpointer' = [checkpointer EXCEPT ![h] = NotCheckpointing]
  /\ UNCHANGED <<store, host, session, reader, restarts, checkpoints>>

CheckpointConflict(h) ==
  /\ checkpointer[h].pc = "encoded"
  /\ checkpoint # checkpointer[h].expected
  /\ checkpointer' = [checkpointer EXCEPT ![h] = NotCheckpointing]
  /\ UNCHANGED <<store, host, session, reader, checkpoint, restarts, checkpoints>>

-----------------------------------------------------------------------------
(* The process dies at any point and the graph is opened again. *)

Restart(h) ==
  /\ restarts < MaxRestarts
  /\ restarts' = restarts + 1
  /\ host' = [host EXCEPT ![h] = Opened]
  /\ session' = [s \in Sessions |-> IF HostOf[s] = h THEN Fresh(s) ELSE session[s]]
  /\ reader' = [reader EXCEPT ![h] = NotReading]
  /\ checkpointer' = [checkpointer EXCEPT ![h] = NotCheckpointing]
  /\ UNCHANGED <<store, checkpoint, checkpoints>>

-----------------------------------------------------------------------------

CommitStep(s) ==
  \/ BuildPatch(s) \/ CheckHead(s)
  \/ Publish(s) \/ Conflict(s) \/ PublishFails(s) \/ PublishLosesAck(s)
  \/ OnCommittedEager(s) \/ OnCommittedDirty(s) \/ FinishCommit(s) \/ HookFails(s)

ReadStep(h) ==
  MaterializeReduce(h) \/ MaterializeInstall(h) \/ MaterializeFrontier(h)

CheckpointStep(h) ==
  \/ CheckpointCapture(h) \/ CheckpointFails(h)
  \/ CheckpointEncode(h) \/ CheckpointPublish(h) \/ CheckpointConflict(h)

Next ==
  \/ \E s \in Sessions : OpenWriter(s) \/ BeginPatch(s) \/ CommitStep(s)
  \/ \E h \in Hosts :
       \/ \E c \in Ceilings \cup {0} : MaterializeBegin(h, c)
       \/ ReadStep(h)
       \/ CheckpointBegin(h) \/ CheckpointStep(h)
       \/ Restart(h)

Spec == Init /\ [][Next]_vars

-----------------------------------------------------------------------------
(* Properties *)

MaybeVector == VersionVector \cup {Nothing}
MaybeFrontier == Frontier \cup {Nothing}

SessionState ==
  [pc : {"closed", "idle", "begun", "open", "checked", "published", "hashing"},
   parent : Nat, lamport : Nat, vv : MaybeVector, adds : SUBSET Nat,
   held : MaybeVector, object : Nat, frontier : MaybeFrontier]

HostState ==
  [vv : VersionVector, objects : Seq(SUBSET Patch), cached : Nat, dirty : BOOLEAN,
   maxLamport : Nat, cachedFrontier : MaybeFrontier, lastFrontier : MaybeFrontier]

ReaderState ==
  [pc : {"idle", "reading", "reduced", "installed"}, frontier : MaybeFrontier,
   ceiling : Nat, result : SUBSET Patch]

Checkpoint == [frontier : MaybeFrontier, state : SUBSET Patch]

CheckpointerState ==
  [pc : {"idle", "frontier", "captured", "encoded"}, frontier : MaybeFrontier,
   object : Nat, state : SUBSET Patch, expected : Checkpoint]

StoreTyped ==
  /\ chain \in [Writers -> Seq(Patch)]
  /\ acked \subseteq [writer : Writers, at : Nat, patch : Patch]
  /\ warned \subseteq Patch
  /\ checkpoint \in Checkpoint
  /\ restarts \in Nat /\ checkpoints \in Nat

HostsTyped ==
  /\ host \in [Hosts -> HostState]
  /\ \A h \in Hosts : host[h].cached <= Len(host[h].objects)

SessionsTyped ==
  /\ session \in [Sessions -> SessionState]
  /\ \A s \in Sessions :
       /\ session[s].pc \in {"open", "checked", "published", "hashing"} =>
            session[s].vv \in VersionVector
       /\ session[s].pc = "hashing" => session[s].object # 0
       /\ session[s].object <= Len(host[HostOf[s]].objects)

ReadersTyped ==
  /\ reader \in [Hosts -> ReaderState]
  /\ \A h \in Hosts : reader[h].pc # "idle" => reader[h].frontier \in Frontier

CheckpointersTyped ==
  /\ checkpointer \in [Hosts -> CheckpointerState]
  /\ \A h \in Hosts :
       /\ checkpointer[h].pc = "captured" => checkpointer[h].object # 0
       /\ checkpointer[h].object <= Len(host[h].objects)

(* Every variable keeps its type; a commit in progress has the vector its    *)
(* builder cloned; and a reference that a host, a commit or a checkpoint in  *)
(* progress holds is to a WarpState object that host has allocated.          *)
TypeOK ==
  StoreTyped /\ HostsTyped /\ SessionsTyped /\ ReadersTyped /\ CheckpointersTyped

(* commitPatch resolved for a patch: the patch stays in its writer's chain,  *)
(* at the position it was published, whatever other processes, crashes and   *)
(* failed publications do to the ref afterwards.                             *)
NoLostCommit ==
  \A a \in acked : a.at \in DOMAIN chain[a.writer] /\ chain[a.writer][a.at] = a.patch

(* Along a writer's chain the Lamport ticks strictly increase, though the    *)
(* builder computed its tick several awaits before the ref moved.            *)
LamportsIncrease ==
  \A w \in Writers : \A i, j \in DOMAIN chain[w] :
     i < j => chain[w][i].lamport < chain[w][j].lamport

(* The write path implements an append-only history per writer.              *)
History ==
  INSTANCE PatchHistory WITH Writers <- Writers, chain <- chain, acked <- acked
ImplementsHistory == History!HistorySpec

(* The tick createPatch() takes is above the tick of everything in the       *)
(* host's cached state, so that a write supersedes what its author read.     *)
(* (A Writer obtained by writer() counts from the head of its chain alone.)  *)
LamportCoversReads ==
  [][\A s \in {x \in Sessions : Api[x] = "graph"} :
       session[s].pc = "idle" /\ session'[s].pc = "begun" =>
         \A p \in CachedState(HostOf[s]) : p.lamport < session'[s].lamport]_vars

(* No writer uses one dot (writer, counter) for adds of two patches, as long *)
(* as no hook has failed: that leaves the vector behind the cache.           *)
DotsUnique ==
  warned = {} => \A p, q \in PatchesUpTo(Heads) :
     p # q /\ p.writer = q.writer => p.adds \cap q.adds = {}

(* When the host has nothing in flight and its cache is not marked dirty,    *)
(* the cache holds every patch that was committed through this host.         *)
OwnWritesVisible ==
  \A h \in Hosts : Clean(h) /\ Quiet(h) =>
     \A a \in acked : HostOf[a.patch.by] = h => a.patch \in CachedState(h)

(* The coordinate kept beside a clean cache names nothing that is not in it, *)
(* and leaves out only patches whose failed hook was logged.                 *)
CacheMatchesFrontier ==
  \A h \in Hosts : Clean(h) /\ Quiet(h) /\ host[h].cachedFrontier # Nothing =>
     LET claimed == PatchesUpTo(host[h].cachedFrontier)
     IN  claimed \subseteq CachedState(h) /\ CachedState(h) \ claimed \subseteq warned

(* When hasFrontierChanged() says no and status() says fresh, the cache is   *)
(* the whole graph, as long as every patch of it went through this host.     *)
FreshIsComplete ==
  LET all == PatchesUpTo(Heads) IN
  \A h \in Hosts :
     /\ Clean(h) /\ Quiet(h) /\ host[h].lastFrontier = Heads
     /\ \A p \in all : HostOf[p.by] = h
     => all \subseteq CachedState(h)

(* A checkpoint holds every patch its frontier claims: a replay that starts  *)
(* from it skips those.                                                      *)
CheckpointSound ==
  checkpoint # NoCheckpoint => PatchesUpTo(checkpoint.frontier) \subseteq checkpoint.state
=============================================================================
