--------------------------- MODULE WarpHostProofs ---------------------------
(***************************************************************************)
(* What holds of WarpHost for any number of processes, writers, sessions,  *)
(* faults and restarts.                                                    *)
(*                                                                         *)
(*   types     every variable keeps its type and every reference is to an  *)
(*             allocated object;                                           *)
(*   chains    reported commits are never lost, ticks increase along a     *)
(*             chain, and the write path implements PatchHistory: the      *)
(*             inductive invariant adds what a commit in progress knows of *)
(*             the chain it is about to extend;                            *)
(*   reads     a tick covers what its author's cache holds, because the    *)
(*             largest tick a host knows covers every object of its heap;  *)
(*   cache     where each process makes one call at a time (OneAtATime),   *)
(*             the cache, the coordinate beside it, the checkpoint head    *)
(*             and the chains agree (SerialInv);                           *)
(*   dots      where it also writes on a clean cache (MaterializedWrites), *)
(*             no dot is used twice along a chain (DotsInv).               *)
(***************************************************************************)
EXTENDS WarpHost, TLAPS, SequenceTheorems, WellFoundedInduction

-----------------------------------------------------------------------------
(* Lemmas on the data *)

(* The maximum the merge of version vectors takes is a counter. *)
LEMMA HighestNat == ASSUME NEW S \in SUBSET Nat PROVE Highest(S) \in Nat
BY DEF Highest

(* The observed frontier of any state is a version vector. *)
LEMMA ObservedVector == ASSUME NEW S \in SUBSET Patch PROVE Observed(S) \in VersionVector
<1> SUFFICES ASSUME NEW w \in Writers
             PROVE  Highest({p.context[w] : p \in S}
                            \cup {p.lamport : p \in {q \in S : q.writer = w}}) \in Nat
    BY DEF Observed, VersionVector
<1>1. \A p \in S : p.context[w] \in Nat /\ p.lamport \in Nat
    BY DEF Patch, VersionVector
<1> QED BY <1>1, HighestNat

(* So is the largest tick of a state a number. *)
LEMMA MaxObservedNat == ASSUME NEW S \in SUBSET Patch PROVE MaxObserved(S) \in Nat
<1>1. {Observed(S)[w] : w \in Writers} \in SUBSET Nat
    BY ObservedVector DEF VersionVector
<1> QED BY <1>1, HighestNat DEF MaxObserved

(* What a frontier reaches is a set of patches. *)
LEMMA ReachablePatches ==
  ASSUME StoreTyped, NEW f PROVE PatchesUpTo(f) \in SUBSET Patch
BY DEF StoreTyped, PatchesUpTo

(* The writer tips are a frontier. *)
LEMMA HeadsFrontier == ASSUME StoreTyped PROVE Heads \in Frontier
BY DEF StoreTyped, Heads, Frontier

(* The tick of a head is a number. *)
LEMMA HeadLamportNat ==
  ASSUME StoreTyped, NEW w \in Writers PROVE HeadLamport(w) \in Nat
<1>1. CASE chain[w] = <<>>  BY <1>1 DEF HeadLamport
<1>2. CASE chain[w] # <<>>
  <2>1. chain[w] \in Seq(Patch)  BY DEF StoreTyped
  <2>2. Len(chain[w]) \in DOMAIN chain[w]  BY <1>2, <2>1
  <2>3. chain[w][Len(chain[w])] \in Patch  BY <2>1, <2>2
  <2> QED BY <1>2, <2>3 DEF HeadLamport, Patch
<1> QED BY <1>1, <1>2

(* A builder with its vector commits a well-formed patch. *)
LEMMA PatchOfPatch ==
  ASSUME SessionsTyped, NEW s \in Sessions,
         session[s].pc \in {"open", "checked", "published", "hashing"}
  PROVE  PatchOf(s) \in Patch
BY HostAssumption DEF SessionsTyped, SessionState, PatchOf, Patch

(* A session that has not started anything is well typed. *)
LEMMA FreshTyped ==
  ASSUME NEW s PROVE Fresh(s) \in SessionState /\ Fresh(s).object = 0
                     /\ Fresh(s).pc \in {"closed", "idle"}
<1>1. CASE Api[s] = "writer"
    BY <1>1 DEF Fresh, Idle, SessionState, MaybeVector, MaybeFrontier
<1>2. CASE Api[s] # "writer"
    BY <1>2 DEF Fresh, Idle, SessionState, MaybeVector, MaybeFrontier
<1> QED BY <1>1, <1>2

(* So is a freshly opened host. *)
LEMMA OpenedTyped == Opened \in HostState /\ Opened.cached = 0 /\ Opened.objects = <<>>
BY DEF Opened, HostState, VersionVector, MaybeFrontier

-----------------------------------------------------------------------------
(* Initial states are well typed. *)
LEMMA TypesInit == Init => TypeOK
<1> SUFFICES ASSUME Init PROVE TypeOK OBVIOUS
<1> USE DEF Init, MaybeVector, MaybeFrontier
<1>1. StoreTyped
    BY DEF StoreTyped, NoCheckpoint, Checkpoint
<1>2. HostsTyped
    BY OpenedTyped DEF HostsTyped
<1>3. SessionsTyped
    BY HostAssumption, FreshTyped, OpenedTyped DEF SessionsTyped
<1>4. ReadersTyped
    BY DEF ReadersTyped, ReaderState, NotReading
<1>5. CheckpointersTyped
    BY DEF CheckpointersTyped, CheckpointerState, NotCheckpointing, NoCheckpoint, Checkpoint,
       Opened
<1> QED BY <1>1, <1>2, <1>3, <1>4, <1>5 DEF TypeOK

-----------------------------------------------------------------------------
(* Steps keep the types *)

(* A step of a session that touches nothing else. *)
LEMMA SessionOnly ==
  ASSUME TypeOK, SessionsTyped',
         UNCHANGED <<store, host, reader, checkpointer, checkpoint, restarts, checkpoints>>
  PROVE  TypeOK'
BY DEF TypeOK, StoreTyped, HostsTyped, ReadersTyped, CheckpointersTyped, store

(* One session is given a well-typed record. *)
LEMMA SetSession ==
  ASSUME SessionsTyped, NEW s \in Sessions, NEW r \in SessionState,
         session' = [session EXCEPT ![s] = r], host' = host,
         r.pc \in {"open", "checked", "published", "hashing"} => r.vv \in VersionVector,
         r.pc = "hashing" => r.object # 0,
         r.object <= Len(host[HostOf[s]].objects)
  PROVE  SessionsTyped'
BY DEF SessionsTyped

(* A builder that ends leaves a well-typed session. *)
LEMMA ClosedTyped ==
  ASSUME TypeOK, NEW s \in Sessions, session' = Closed(s), host' = host
  PROVE  SessionsTyped'
<1> DEFINE r == [Idle EXCEPT !.held = session[s].held]
<1>1. session[s].held \in MaybeVector  BY DEF TypeOK, SessionsTyped, SessionState
<1>2. r \in SessionState /\ r.pc = "idle" /\ r.object = 0
    BY <1>1 DEF Idle, SessionState, MaybeVector, MaybeFrontier
<1>3. session' = [session EXCEPT ![s] = r]  BY DEF Closed
<1>4. Len(host[HostOf[s]].objects) \in Nat
    BY HostAssumption DEF TypeOK, HostsTyped, HostState
<1> HIDE DEF r
<1>5. r.object <= Len(host[HostOf[s]].objects)  BY <1>2, <1>4
<1>6. r.pc \notin {"open", "checked", "published", "hashing"}  BY <1>2
<1> QED BY <1>2, <1>3, <1>5, <1>6, SetSession DEF TypeOK

(* Steps up to the head check. *)
LEMMA TypesBuild ==
  ASSUME TypeOK, NEW s \in Sessions, OpenWriter(s) \/ BeginPatch(s) \/ BuildPatch(s) \/ CheckHead(s)
  PROVE  TypeOK'
<1> USE DEF TypeOK
<1>1. CASE OpenWriter(s)
  <2>1. SessionsTyped'  BY <1>1 DEF OpenWriter, SessionsTyped, SessionState
  <2> QED BY <1>1, <2>1, SessionOnly DEF OpenWriter
<1>2. CASE BeginPatch(s)
  <2>1. WriterOf[s] \in Writers /\ HostOf[s] \in Hosts  BY HostAssumption
  <2>2. Len(chain[WriterOf[s]]) \in Nat  BY <2>1 DEF StoreTyped
  <2>3. NextLamport(s) \in Nat
      BY <2>1, HeadLamportNat DEF NextLamport, Max2, HostsTyped, HostState
  <2> DEFINE r == [session[s] EXCEPT !.pc = "begun", !.parent = Len(chain[WriterOf[s]]),
                                     !.lamport = NextLamport(s)]
  <2>4. r \in SessionState /\ r.pc = "begun" /\ r.object = session[s].object
      BY <2>2, <2>3 DEF SessionsTyped, SessionState
  <2>5. session' = [session EXCEPT ![s] = r] /\ host' = host  BY <1>2 DEF BeginPatch
  <2> HIDE DEF r
  <2>6. SessionsTyped'  BY <2>4, <2>5, SetSession DEF SessionsTyped
  <2> QED BY <1>2, <2>6, SessionOnly DEF BeginPatch
<1>3. CASE BuildPatch(s)
  <2> DEFINE w == WriterOf[s]
             vv == BuilderVector(s)
  <2>1. w \in Writers /\ HostOf[s] \in Hosts  BY HostAssumption
  <2>2. vv \in VersionVector
      BY <2>1 DEF BuilderVector, HostsTyped, HostState, SessionsTyped, SessionState, MaybeVector
  <2>3. PICK n \in 0..MaxAdds :
          session' = [session EXCEPT ![s].pc = "open",
                                     ![s].vv = [vv EXCEPT ![w] = @ + n],
                                     ![s].adds = (vv[w] + 1)..(vv[w] + n)]
      BY <1>3 DEF BuildPatch
  <2> HIDE DEF w, vv
  <2>4. vv[w] \in Nat /\ n \in Nat  BY <2>1, <2>2, HostAssumption DEF VersionVector
  <2>5. [vv EXCEPT ![w] = @ + n] \in VersionVector  BY <2>1, <2>2, <2>4 DEF VersionVector
  <2>6. (vv[w] + 1)..(vv[w] + n) \in SUBSET Nat  BY <2>4
  <2>7. host' = host  BY <1>3 DEF BuildPatch
  <2> DEFINE r == [session[s] EXCEPT !.pc = "open", !.vv = [vv EXCEPT ![w] = @ + n],
                                     !.adds = (vv[w] + 1)..(vv[w] + n)]
  <2>8. r \in SessionState /\ r.pc = "open" /\ r.vv \in VersionVector
        /\ r.object = session[s].object
      BY <2>5, <2>6 DEF SessionsTyped, SessionState, MaybeVector
  <2>9. session' = [session EXCEPT ![s] = r]  BY <2>3
  <2> HIDE DEF r
  <2>10. SessionsTyped'  BY <2>7, <2>8, <2>9, SetSession DEF SessionsTyped
  <2> QED BY <1>3, <2>10, SessionOnly DEF BuildPatch
<1>4. CASE CheckHead(s)
  <2>1. WriterOf[s] \in Writers  BY HostAssumption
  <2>2. CommitLamport(s) \in Nat
      BY <2>1, HeadLamportNat DEF CommitLamport, Max2, SessionsTyped, SessionState
  <2>3. SessionsTyped'  BY <1>4, <2>2, ZenonT(40) DEF CheckHead, SessionsTyped, SessionState
  <2> QED BY <1>4, <2>3, SessionOnly DEF CheckHead
<1> QED BY <1>1, <1>2, <1>3, <1>4

(* With the head where the builder saw it, publishing appends. *)
LEMMA PublishAppends ==
  ASSUME TypeOK, NEW s \in Sessions, HeadUnmoved(s)
  PROVE  ChainWith(s) = [chain EXCEPT ![WriterOf[s]] = Append(@, PatchOf(s))]
<1>1. WriterOf[s] \in Writers  BY HostAssumption
<1>2. chain[WriterOf[s]] \in Seq(Patch)  BY <1>1 DEF TypeOK, StoreTyped
<1>3. SubSeq(chain[WriterOf[s]], 1, session[s].parent) = chain[WriterOf[s]]
    BY <1>2 DEF HeadUnmoved
<1> QED BY <1>3 DEF ChainWith

LEMMA ChainTyped ==
  ASSUME TypeOK, NEW s \in Sessions, AppendToRef(s)
  PROVE  chain' \in [Writers -> Seq(Patch)]
<1> DEFINE w == WriterOf[s]
<1>1. w \in Writers  BY HostAssumption
<1>2. PatchOf(s) \in Patch  BY PatchOfPatch DEF TypeOK, AppendToRef
<1>3. chain[w] \in Seq(Patch) /\ chain \in [Writers -> Seq(Patch)]
    BY <1>1 DEF TypeOK, StoreTyped
<1>4. Append(chain[w], PatchOf(s)) \in Seq(Patch)  BY <1>2, <1>3
<1> QED BY <1>1, <1>3, <1>4, PublishAppends DEF AppendToRef

(* Publication and its failures. *)
LEMMA TypesPublish ==
  ASSUME TypeOK, NEW s \in Sessions,
         Publish(s) \/ Conflict(s) \/ PublishFails(s) \/ PublishLosesAck(s)
  PROVE  TypeOK'
<1>1. CASE Publish(s)
  <2>1. StoreTyped'  BY <1>1, ChainTyped DEF Publish, AppendToRef, TypeOK, StoreTyped
  <2>2. SessionsTyped'  BY <1>1 DEF Publish, AppendToRef, TypeOK, SessionsTyped, SessionState
  <2> QED BY <1>1, <2>1, <2>2
          DEF Publish, TypeOK, HostsTyped, ReadersTyped, CheckpointersTyped
<1>2. CASE Conflict(s)
  <2>1. SessionsTyped'  BY <1>2, ClosedTyped DEF Conflict
  <2> QED BY <1>2, <2>1, SessionOnly DEF Conflict
<1>3. CASE PublishFails(s)
  <2>1. SessionsTyped'  BY <1>3, ClosedTyped DEF PublishFails
  <2> QED BY <1>3, <2>1, SessionOnly DEF PublishFails
<1>4. CASE PublishLosesAck(s)
  <2>1. SessionsTyped'  BY <1>4, ClosedTyped DEF PublishLosesAck
  <2>2. chain' \in [Writers -> Seq(Patch)]  BY <1>4, ChainTyped DEF PublishLosesAck
  <2> QED BY <1>4, <2>1, <2>2
          DEF PublishLosesAck, AppendToRef, TypeOK, StoreTyped, HostsTyped, ReadersTyped,
              CheckpointersTyped
<1> QED BY <1>1, <1>2, <1>3, <1>4

(* A host record replaced by one whose heap is at least as long keeps every  *)
(* reference valid.                                                          *)
LEMMA HeapGrows ==
  ASSUME TypeOK, NEW h \in Hosts, NEW r \in HostState,
         host' = [host EXCEPT ![h] = r],
         r.cached <= Len(r.objects),
         Len(host[h].objects) <= Len(r.objects)
  PROVE  /\ HostsTyped'
         /\ \A g \in Hosts : Len(host[g].objects) <= Len(host'[g].objects)
<1>1. \A g \in Hosts : host'[g] = IF g = h THEN r ELSE host[g]
    BY DEF TypeOK, HostsTyped
<1>2. host' \in [Hosts -> HostState]  BY DEF TypeOK, HostsTyped
<1>3. \A g \in Hosts : Len(host[g].objects) \in Nat  BY DEF TypeOK, HostsTyped, HostState
<1> QED BY <1>1, <1>2, <1>3 DEF TypeOK, HostsTyped

(* ... those of the sessions and of the checkpoints in progress too.         *)
LEMMA ReferencesKept ==
  ASSUME TypeOK, HostsTyped',
         \A g \in Hosts : Len(host[g].objects) <= Len(host'[g].objects)
  PROVE  /\ session' = session => SessionsTyped'
         /\ checkpointer' = checkpointer => CheckpointersTyped'
<1>1. \A g \in Hosts : Len(host[g].objects) \in Nat /\ Len(host'[g].objects) \in Nat
    BY DEF TypeOK, HostsTyped, HostState
<1>2. \A s \in Sessions : HostOf[s] \in Hosts /\ session[s].object \in Nat
    BY HostAssumption DEF TypeOK, SessionsTyped, SessionState
<1>3. \A g \in Hosts : checkpointer[g].object \in Nat
    BY DEF TypeOK, CheckpointersTyped, CheckpointerState
<1>4. ASSUME session' = session PROVE SessionsTyped'
    BY <1>1, <1>2, <1>4 DEF TypeOK, SessionsTyped
<1>5. ASSUME checkpointer' = checkpointer PROVE CheckpointersTyped'
    BY <1>1, <1>3, <1>5 DEF TypeOK, CheckpointersTyped
<1> QED BY <1>4, <1>5

(* One session is given a record while the heaps may grow. *)
LEMMA SetSessionGrown ==
  ASSUME TypeOK, HostsTyped', NEW s \in Sessions, NEW r \in SessionState,
         NEW base \in [Sessions -> SessionState],
         \A t \in Sessions : /\ base[t].pc = session[t].pc
                             /\ base[t].vv = session[t].vv
                             /\ base[t].object = session[t].object,
         session' = [base EXCEPT ![s] = r],
         r.pc \in {"open", "checked", "published", "hashing"} => r.vv \in VersionVector,
         r.pc = "hashing" => r.object # 0,
         r.object <= Len(host'[HostOf[s]].objects),
         \A g \in Hosts : Len(host[g].objects) <= Len(host'[g].objects)
  PROVE  SessionsTyped'
<1>1. \A t \in Sessions : session'[t] = IF t = s THEN r ELSE base[t]  OBVIOUS
<1>2. session' \in [Sessions -> SessionState]  OBVIOUS
<1>3. \A g \in Hosts : Len(host[g].objects) \in Nat /\ Len(host'[g].objects) \in Nat
    BY DEF TypeOK, HostsTyped, HostState
<1>4. \A t \in Sessions : HostOf[t] \in Hosts /\ session[t].object \in Nat
    BY HostAssumption DEF TypeOK, SessionsTyped, SessionState
<1>5. \A t \in Sessions : session[t].object <= Len(host'[HostOf[t]].objects)
    BY <1>3, <1>4 DEF TypeOK, SessionsTyped
<1> QED BY <1>1, <1>2, <1>5 DEF TypeOK, SessionsTyped

(* Detaching the Writers changes what they hold and nothing else. *)
LEMMA DetachedTyped ==
  ASSUME TypeOK, NEW h \in Hosts
  PROVE  /\ Detached(h) \in [Sessions -> SessionState]
         /\ \A t \in Sessions : /\ Detached(h)[t].pc = session[t].pc
                                /\ Detached(h)[t].vv = session[t].vv
                                /\ Detached(h)[t].object = session[t].object
                                /\ Detached(h)[t].parent = session[t].parent
                                /\ Detached(h)[t].lamport = session[t].lamport
                                /\ Detached(h)[t].adds = session[t].adds
<1>1. host[h].vv \in VersionVector  BY DEF TypeOK, HostsTyped, HostState
<1>2. \A t \in Sessions : session[t] \in SessionState  BY DEF TypeOK, SessionsTyped
<1> QED BY <1>1, <1>2 DEF Detached, SessionState, MaybeVector

(* What _onPatchCommitted assigns first. *)
LEMMA NotedTyped ==
  ASSUME TypeOK, NEW s \in Sessions
  PROVE  /\ Noted(s) \in HostState
         /\ Noted(s).objects = host[HostOf[s]].objects
         /\ Noted(s).cached = host[HostOf[s]].cached
<1>1. HostOf[s] \in Hosts /\ WriterOf[s] \in Writers  BY HostAssumption
<1>2. host[HostOf[s]] \in HostState  BY <1>1 DEF TypeOK, HostsTyped
<1>3. Max2(host[HostOf[s]].maxLamport, session[s].lamport) \in Nat
    BY <1>2 DEF Max2, HostState, TypeOK, SessionsTyped, SessionState
<1>4. [host[HostOf[s]].vv EXCEPT ![WriterOf[s]] = @ + 1] \in VersionVector
    BY <1>1, <1>2 DEF HostState, VersionVector
<1> QED BY <1>2, <1>3, <1>4 DEF Noted, HostState

LEMMA CachedStateTyped ==
  ASSUME TypeOK, NEW h \in Hosts PROVE CachedState(h) \in SUBSET Patch
<1>1. host[h] \in HostState /\ host[h].cached <= Len(host[h].objects)
    BY DEF TypeOK, HostsTyped
<1> QED BY <1>1 DEF CachedState, HostState

(* A commit's answer is recorded under a position of its writer's chain. *)
LEMMA ReportedTyped ==
  ASSUME TypeOK, NEW s \in Sessions, session[s].pc \in {"published", "hashing"}, Reported(s)
  PROVE  acked' \subseteq [writer : Writers, at : Nat, patch : Patch]
<1>1. PatchOf(s) \in Patch  BY PatchOfPatch DEF TypeOK
<1>2. WriterOf[s] \in Writers /\ session[s].parent + 1 \in Nat
    BY HostAssumption DEF TypeOK, SessionsTyped, SessionState
<1> QED BY <1>1, <1>2 DEF Reported, TypeOK, StoreTyped

(* What is installed for an object of the heap. *)
LEMMA InstalledTyped ==
  ASSUME TypeOK, NEW h \in Hosts, NEW object \in Nat, NEW state \in SUBSET Patch,
         NEW f \in MaybeFrontier
  PROVE  /\ Installed(h, object, state, f) \in HostState
         /\ Installed(h, object, state, f).objects = host[h].objects
         /\ Installed(h, object, state, f).cached = object
         /\ Installed(h, object, state, f).lastFrontier = host[h].lastFrontier
         /\ Installed(h, object, state, f).maxLamport = host[h].maxLamport
<1>1. host[h] \in HostState  BY DEF TypeOK, HostsTyped
<1>2. Observed(state) \in VersionVector  BY ObservedVector
<1> QED BY <1>1, <1>2 DEF Installed, HostState

(* The post-commit hook. *)
LEMMA TypesEager ==
  ASSUME TypeOK, NEW s \in Sessions, OnCommittedEager(s) PROVE TypeOK'
<1> DEFINE h == HostOf[s]
           r == [Noted(s) EXCEPT !.objects[host[h].cached] = Applied(s)]
           q == [session[s] EXCEPT !.pc = "hashing", !.object = host[h].cached,
                                   !.frontier = Advanced(s)]
<1>1. h \in Hosts /\ WriterOf[s] \in Writers  BY HostAssumption
<1>2. host[h] \in HostState /\ host[h].cached <= Len(host[h].objects) /\ host[h].cached # 0
    BY <1>1 DEF TypeOK, HostsTyped, OnCommittedEager, Clean
<1>3. host[h].cached \in DOMAIN host[h].objects  BY <1>2 DEF HostState
<1>4. Applied(s) \in SUBSET Patch
    BY <1>1, CachedStateTyped, PatchOfPatch DEF Applied, OnCommittedEager, Committed, TypeOK
<1>5. [host[h].objects EXCEPT ![host[h].cached] = Applied(s)] \in Seq(SUBSET Patch)
      /\ Len([host[h].objects EXCEPT ![host[h].cached] = Applied(s)]) = Len(host[h].objects)
    BY <1>2, <1>3, <1>4 DEF HostState
<1>6. r \in HostState /\ Len(r.objects) = Len(host[h].objects) /\ r.cached = host[h].cached
    BY <1>5, NotedTyped DEF HostState
<1>7. host' = [host EXCEPT ![h] = r]  BY DEF OnCommittedEager
<1>8. Advanced(s) \in MaybeFrontier
    BY <1>1, <1>2 DEF Advanced, HostState, MaybeFrontier, Frontier, TypeOK, SessionsTyped,
       SessionState
<1>9. q \in SessionState /\ q.pc = "hashing" /\ q.object = host[h].cached
      /\ q.vv \in VersionVector
    BY <1>2, <1>8 DEF TypeOK, SessionsTyped, SessionState, HostState, OnCommittedEager,
       Committed
<1>10. session' = [session EXCEPT ![s] = q]  BY DEF OnCommittedEager
<1> HIDE DEF h, r, q
<1>11. Len(host[h].objects) \in Nat  BY <1>2 DEF HostState
<1>a. r.cached <= Len(r.objects) /\ Len(host[h].objects) <= Len(r.objects)
    BY <1>2, <1>6, <1>11
<1>12. HostsTyped' /\ \A g \in Hosts : Len(host[g].objects) <= Len(host'[g].objects)
    BY <1>1, <1>6, <1>7, <1>a, HeapGrows
<1>13. q.object <= Len(host'[HostOf[s]].objects)
  <2>1. host'[h] = r  BY <1>1, <1>7 DEF TypeOK, HostsTyped
  <2> QED BY <1>2, <1>6, <1>9, <2>1 DEF h
<1>14. session \in [Sessions -> SessionState]  BY DEF TypeOK, SessionsTyped
<1>15. SessionsTyped'  BY <1>2, <1>9, <1>10, <1>12, <1>13, <1>14, SetSessionGrown
<1>16. CheckpointersTyped'  BY <1>12, ReferencesKept DEF OnCommittedEager
<1>17. StoreTyped' /\ ReadersTyped'
    BY DEF OnCommittedEager, TypeOK, StoreTyped, ReadersTyped, store
<1> QED BY <1>12, <1>15, <1>16, <1>17 DEF TypeOK

LEMMA TypesDirty ==
  ASSUME TypeOK, NEW s \in Sessions, OnCommittedDirty(s) PROVE TypeOK'
<1> DEFINE h == HostOf[s]
           r == [Noted(s) EXCEPT !.dirty = TRUE]
           q == [Idle EXCEPT !.held = session[s].held]
<1>1. h \in Hosts  BY HostAssumption
<1>2. host[h] \in HostState /\ host[h].cached <= Len(host[h].objects)
    BY <1>1 DEF TypeOK, HostsTyped
<1>3. r \in HostState /\ r.objects = host[h].objects /\ r.cached = host[h].cached
    BY NotedTyped DEF HostState
<1>4. host' = [host EXCEPT ![h] = r]  BY DEF OnCommittedDirty
<1>5. q \in SessionState /\ q.pc = "idle" /\ q.object = 0
    BY DEF TypeOK, SessionsTyped, SessionState, Idle, MaybeVector, MaybeFrontier
<1>6. session' = [session EXCEPT ![s] = q]  BY DEF OnCommittedDirty, Closed
<1> HIDE DEF h, r, q
<1>7. Len(host[h].objects) \in Nat  BY <1>2 DEF HostState
<1>a. r.cached <= Len(r.objects) /\ Len(host[h].objects) <= Len(r.objects)
    BY <1>2, <1>3, <1>7
<1>8. HostsTyped' /\ \A g \in Hosts : Len(host[g].objects) <= Len(host'[g].objects)
    BY <1>1, <1>3, <1>4, <1>a, HeapGrows
<1>9. q.object <= Len(host'[HostOf[s]].objects)
    BY <1>1, <1>5, <1>8 DEF h, HostsTyped, HostState
<1>10. session \in [Sessions -> SessionState]  BY DEF TypeOK, SessionsTyped
<1>11. SessionsTyped'  BY <1>5, <1>6, <1>8, <1>9, <1>10, SetSessionGrown
<1>12. CheckpointersTyped'  BY <1>8, ReferencesKept DEF OnCommittedDirty
<1>13. StoreTyped' /\ ReadersTyped'
    BY ReportedTyped DEF OnCommittedDirty, TypeOK, StoreTyped, ReadersTyped
<1> QED BY <1>8, <1>11, <1>12, <1>13 DEF TypeOK

(* A hook that failed is logged, and the commit answers. *)
LEMMA TypesHookFails ==
  ASSUME TypeOK, NEW s \in Sessions, HookFails(s) PROVE TypeOK'
<1>1. SessionsTyped'  BY ClosedTyped DEF HookFails
<1>2. PatchOf(s) \in Patch  BY PatchOfPatch DEF HookFails, TypeOK
<1>3. acked' \subseteq [writer : Writers, at : Nat, patch : Patch]
    BY ReportedTyped DEF HookFails
<1>4. StoreTyped'  BY <1>2, <1>3 DEF HookFails, TypeOK, StoreTyped
<1> QED BY <1>1, <1>4 DEF HookFails, TypeOK, HostsTyped, ReadersTyped, CheckpointersTyped

LEMMA TypesFinish ==
  ASSUME TypeOK, NEW s \in Sessions, FinishCommit(s) PROVE TypeOK'
<1> DEFINE h == HostOf[s]
           o == session[s].object
           i == Installed(h, o, host[h].objects[o], session[s].frontier)
           l == IF i.lastFrontier = Nothing THEN Nothing
                ELSE [i.lastFrontier EXCEPT ![WriterOf[s]] = session[s].parent + 1]
           r == [i EXCEPT !.lastFrontier = l]
           q == [Idle EXCEPT !.held = Detached(h)[s].held]
<1>1. h \in Hosts /\ WriterOf[s] \in Writers  BY HostAssumption
<1>2. host[h] \in HostState /\ session[s] \in SessionState
    BY <1>1 DEF TypeOK, HostsTyped, SessionsTyped
<1>3. o \in Nat /\ o # 0 /\ o <= Len(host[h].objects)
    BY <1>2 DEF TypeOK, SessionsTyped, SessionState, FinishCommit
<1>4. host[h].objects[o] \in SUBSET Patch  BY <1>2, <1>3 DEF HostState
<1>5. i \in HostState /\ i.objects = host[h].objects /\ i.cached = o
    BY <1>1, <1>2, <1>3, <1>4, InstalledTyped DEF SessionState
<1>6. l \in MaybeFrontier
  <2>1. session[s].parent + 1 \in Nat  BY <1>2 DEF SessionState
  <2>2. i.lastFrontier \in Frontier \cup {Nothing}  BY <1>5 DEF HostState, MaybeFrontier
  <2> HIDE DEF i
  <2>3. CASE i.lastFrontier = Nothing  BY <2>3 DEF MaybeFrontier
  <2>4. CASE i.lastFrontier # Nothing  BY <1>1, <2>1, <2>2, <2>4 DEF MaybeFrontier, Frontier
  <2> QED BY <2>3, <2>4
<1>7. host' = [host EXCEPT ![h] = r]  BY DEF FinishCommit
<1>8. session' = [Detached(h) EXCEPT ![s] = q]  BY DEF FinishCommit
<1>9. q \in SessionState /\ q.pc = "idle" /\ q.object = 0
    BY <1>1, DetachedTyped DEF SessionState, Idle, MaybeVector, MaybeFrontier
<1> HIDE DEF l, i
<1>10. r \in HostState /\ r.objects = host[h].objects /\ r.cached = o
    BY <1>5, <1>6 DEF HostState
<1> HIDE DEF h, r, q, o
<1>11. Len(host[h].objects) \in Nat  BY <1>2 DEF HostState
<1>a. r.cached <= Len(r.objects) /\ Len(host[h].objects) <= Len(r.objects)
    BY <1>3, <1>10, <1>11
<1>12. HostsTyped' /\ \A g \in Hosts : Len(host[g].objects) <= Len(host'[g].objects)
    BY <1>1, <1>7, <1>10, <1>a, HeapGrows
<1>13. q.object <= Len(host'[HostOf[s]].objects)
    BY <1>1, <1>9, <1>12 DEF h, HostsTyped, HostState
<1>14. SessionsTyped'  BY <1>1, <1>8, <1>9, <1>12, <1>13, DetachedTyped, SetSessionGrown, ZenonT(40)
<1>15. CheckpointersTyped'  BY <1>12, ReferencesKept DEF FinishCommit
<1>16. StoreTyped' /\ ReadersTyped'
    BY ReportedTyped DEF FinishCommit, TypeOK, StoreTyped, ReadersTyped
<1> QED BY <1>12, <1>14, <1>15, <1>16 DEF TypeOK

(* materialize(). *)
LEMMA ReducedTyped ==
  ASSUME TypeOK, NEW f, NEW c PROVE Reduced(f, c) \in SUBSET Patch
<1>1. PatchesUpTo(f) \in SUBSET Patch  BY ReachablePatches DEF TypeOK
<1>2. checkpoint.state \in SUBSET Patch  BY DEF TypeOK, StoreTyped, Checkpoint
<1>3. CASE c # 0  BY <1>1, <1>3 DEF Reduced
<1>4. CASE c = 0 /\ CheckpointSupports(f)  BY <1>1, <1>2, <1>4 DEF Reduced
<1>5. CASE c = 0 /\ ~CheckpointSupports(f)  BY <1>1, <1>5 DEF Reduced
<1> QED BY <1>3, <1>4, <1>5

LEMMA TypesRead ==
  ASSUME TypeOK, NEW h \in Hosts,
         (\E c \in Ceilings \cup {0} : MaterializeBegin(h, c)) \/ MaterializeReduce(h)
  PROVE  TypeOK'
<1>1. ASSUME NEW c \in Ceilings \cup {0}, MaterializeBegin(h, c) PROVE TypeOK'
  <2>1. Heads \in Frontier /\ c \in Nat  BY HeadsFrontier, HostAssumption DEF TypeOK
  <2>2. ReadersTyped'
      BY <1>1, <2>1 DEF MaterializeBegin, TypeOK, ReadersTyped, ReaderState, MaybeFrontier
  <2> QED BY <1>1, <2>2
          DEF MaterializeBegin, TypeOK, StoreTyped, HostsTyped, SessionsTyped,
          CheckpointersTyped, store
<1>2. CASE MaterializeReduce(h)
  <2>1. Reduced(reader[h].frontier, reader[h].ceiling) \in SUBSET Patch  BY ReducedTyped
  <2>2. ReadersTyped'
      BY <1>2, <2>1 DEF MaterializeReduce, TypeOK, ReadersTyped, ReaderState
  <2> QED BY <1>2, <2>2
          DEF MaterializeReduce, TypeOK, StoreTyped, HostsTyped, SessionsTyped,
          CheckpointersTyped, store
<1> QED BY <1>1, <1>2

LEMMA TypesInstall ==
  ASSUME TypeOK, NEW h \in Hosts, MaterializeInstall(h) PROVE TypeOK'
<1> DEFINE o == Len(host[h].objects) + 1
           i == Installed(h, o, reader[h].result, reader[h].frontier)
           r == [i EXCEPT !.objects = Append(i.objects, reader[h].result),
                          !.maxLamport = Max2(i.maxLamport, MaxObserved(reader[h].result))]
<1>1. host[h] \in HostState /\ reader[h] \in ReaderState
    BY DEF TypeOK, HostsTyped, ReadersTyped
<1>2. reader[h].result \in SUBSET Patch /\ reader[h].frontier \in MaybeFrontier
    BY <1>1 DEF ReaderState
<1>3. host[h].objects \in Seq(SUBSET Patch) /\ Len(host[h].objects) \in Nat /\ o \in Nat
    BY <1>1 DEF HostState
<1>4. i \in HostState /\ i.objects = host[h].objects /\ i.cached = o
      /\ i.maxLamport = host[h].maxLamport
    BY <1>2, <1>3, InstalledTyped
<1>5. host' = [host EXCEPT ![h] = r]  BY DEF MaterializeInstall
<1> HIDE DEF i
<1>6. Append(i.objects, reader[h].result) \in Seq(SUBSET Patch)
      /\ Len(Append(i.objects, reader[h].result)) = o
    BY <1>2, <1>3, <1>4
<1>7. Max2(i.maxLamport, MaxObserved(reader[h].result)) \in Nat
    BY <1>2, <1>4, MaxObservedNat DEF Max2, HostState
<1>8. r \in HostState /\ Len(r.objects) = o /\ r.cached = o
    BY <1>4, <1>6, <1>7 DEF HostState
<1> HIDE DEF r
<1>9. r.cached <= Len(r.objects) /\ Len(host[h].objects) <= Len(r.objects)
    BY <1>3, <1>8
<1>10. HostsTyped' /\ \A g \in Hosts : Len(host[g].objects) <= Len(host'[g].objects)
    BY <1>5, <1>8, <1>9, HeapGrows
<1>11. session' = Detached(h)  BY DEF MaterializeInstall
<1>12. SessionsTyped'
  <2>1. \A g \in Hosts : Len(host[g].objects) \in Nat /\ Len(host'[g].objects) \in Nat
      BY <1>10 DEF TypeOK, HostsTyped, HostState
  <2>2. \A t \in Sessions : HostOf[t] \in Hosts /\ session[t].object \in Nat
      BY HostAssumption DEF TypeOK, SessionsTyped, SessionState
  <2>3. \A t \in Sessions : session[t].object <= Len(host'[HostOf[t]].objects)
      BY <1>10, <2>1, <2>2 DEF TypeOK, SessionsTyped
  <2> QED BY <1>11, <2>3, DetachedTyped DEF TypeOK, SessionsTyped
<1>13. CheckpointersTyped'  BY <1>10, ReferencesKept DEF MaterializeInstall
<1>14. ReadersTyped'
    BY <1>1 DEF MaterializeInstall, TypeOK, ReadersTyped, ReaderState, NotReading, MaybeFrontier
<1>15. StoreTyped'  BY DEF MaterializeInstall, TypeOK, StoreTyped, store
<1> QED BY <1>10, <1>12, <1>13, <1>14, <1>15 DEF TypeOK

LEMMA TypesLastFrontier ==
  ASSUME TypeOK, NEW h \in Hosts, MaterializeFrontier(h) PROVE TypeOK'
<1> DEFINE r == [host[h] EXCEPT !.lastFrontier = Heads]
<1>1. host[h] \in HostState /\ host[h].cached <= Len(host[h].objects)
    BY DEF TypeOK, HostsTyped
<1>2. Heads \in MaybeFrontier  BY HeadsFrontier DEF TypeOK, MaybeFrontier
<1>3. r \in HostState /\ r.objects = host[h].objects /\ r.cached = host[h].cached
    BY <1>1, <1>2 DEF HostState
<1>4. host' = [host EXCEPT ![h] = r]  BY DEF MaterializeFrontier
<1> HIDE DEF r
<1>5. r.cached <= Len(r.objects) /\ Len(host[h].objects) <= Len(r.objects)
    BY <1>1, <1>3 DEF HostState
<1>6. HostsTyped' /\ \A g \in Hosts : Len(host[g].objects) <= Len(host'[g].objects)
    BY <1>3, <1>4, <1>5, HeapGrows
<1>7. SessionsTyped' /\ CheckpointersTyped'  BY <1>6, ReferencesKept DEF MaterializeFrontier
<1>8. ReadersTyped'
    BY DEF MaterializeFrontier, TypeOK, ReadersTyped, ReaderState, NotReading, MaybeFrontier
<1>9. StoreTyped'  BY DEF MaterializeFrontier, TypeOK, StoreTyped, store
<1> QED BY <1>6, <1>7, <1>8, <1>9 DEF TypeOK

(* createCheckpoint(). *)
LEMMA TypesCheckpoint ==
  ASSUME TypeOK, NEW h \in Hosts, CheckpointBegin(h) \/ CheckpointStep(h) PROVE TypeOK'
<1> USE DEF TypeOK
<1>0. Len(host[h].objects) \in Nat /\ host[h] \in HostState /\ checkpointer[h] \in CheckpointerState
    BY DEF HostsTyped, HostState, CheckpointersTyped
<1>n. NotCheckpointing \in CheckpointerState /\ NotCheckpointing.object = 0
      /\ NotCheckpointing.pc = "idle"
    BY DEF NotCheckpointing, CheckpointerState, NoCheckpoint, Checkpoint, MaybeFrontier
<1> DEFINE Frame == StoreTyped' /\ HostsTyped' /\ SessionsTyped' /\ ReadersTyped'
<1>1. CASE CheckpointBegin(h)
  <2>1. Heads \in MaybeFrontier  BY HeadsFrontier DEF MaybeFrontier
  <2>2. Frame
      BY <1>1 DEF CheckpointBegin, StoreTyped, HostsTyped, SessionsTyped, ReadersTyped, store
  <2> DEFINE r == [NotCheckpointing EXCEPT !.pc = "frontier", !.frontier = Heads]
  <2>3. r \in CheckpointerState /\ r.object = 0 /\ r.pc = "frontier"
      BY <2>1, <1>n DEF CheckpointerState
  <2>4. checkpointer' = [checkpointer EXCEPT ![h] = r] /\ host' = host
      BY <1>1 DEF CheckpointBegin
  <2> HIDE DEF r
  <2>5. r.object <= Len(host[h].objects)  BY <1>0, <2>3
  <2>6. CheckpointersTyped'  BY <2>3, <2>4, <2>5 DEF CheckpointersTyped
  <2> QED BY <2>2, <2>6
<1>2. CASE CheckpointCapture(h)
  <2>1. Frame
      BY <1>2 DEF CheckpointCapture, StoreTyped, HostsTyped, SessionsTyped, ReadersTyped, store
  <2>2. host[h].cached \in Nat /\ host[h].cached # 0 /\ host[h].cached <= Len(host[h].objects)
      BY <1>0, <1>2 DEF CheckpointCapture, Clean, HostsTyped, HostState
  <2>3. CheckpointersTyped'
      BY <1>2, <2>2 DEF CheckpointCapture, CheckpointersTyped, CheckpointerState
  <2> QED BY <2>1, <2>3
<1>3. CASE CheckpointFails(h) \/ CheckpointConflict(h)
  <2>1. Frame
      BY <1>3 DEF CheckpointFails, CheckpointConflict, StoreTyped, HostsTyped, SessionsTyped,
                  ReadersTyped, store
  <2>2. CheckpointersTyped'
      BY <1>0, <1>3, <1>n DEF CheckpointFails, CheckpointConflict, CheckpointersTyped
  <2> QED BY <2>1, <2>2
<1>4. CASE CheckpointEncode(h)
  <2>1. Frame
      BY <1>4 DEF CheckpointEncode, StoreTyped, HostsTyped, SessionsTyped, ReadersTyped, store
  <2>2. checkpointer[h].object \in DOMAIN host[h].objects
      BY <1>0, <1>4 DEF CheckpointEncode, CheckpointersTyped, CheckpointerState, HostState
  <2>3. host[h].objects[checkpointer[h].object] \in SUBSET Patch  BY <1>0, <2>2 DEF HostState
  <2>4. CheckpointersTyped'
      BY <1>4, <2>3, ZenonT(40) DEF CheckpointEncode, CheckpointersTyped, CheckpointerState, StoreTyped
  <2> QED BY <2>1, <2>4
<1>5. CASE CheckpointPublish(h)
  <2>1. HostsTyped' /\ SessionsTyped' /\ ReadersTyped'
      BY <1>5 DEF CheckpointPublish, HostsTyped, SessionsTyped, ReadersTyped
  <2>2. StoreTyped'
      BY <1>0, <1>5 DEF CheckpointPublish, StoreTyped, CheckpointerState, Checkpoint, store
  <2>3. CheckpointersTyped'
      BY <1>0, <1>5, <1>n DEF CheckpointPublish, CheckpointersTyped
  <2> QED BY <2>1, <2>2, <2>3
<1> QED BY <1>1, <1>2, <1>3, <1>4, <1>5 DEF CheckpointStep

(* A crash drops the heap together with everything that refers into it. *)
LEMMA TypesRestart == ASSUME TypeOK, NEW h \in Hosts, Restart(h) PROVE TypeOK'
<1>1. HostsTyped'
    BY OpenedTyped DEF Restart, TypeOK, HostsTyped
<1>2. SessionsTyped'
  <2>1. \A g \in Hosts : host'[g] = IF g = h THEN Opened ELSE host[g]
      BY DEF Restart, TypeOK, HostsTyped
  <2>2. \A t \in Sessions : session'[t] = IF HostOf[t] = h THEN Fresh(t) ELSE session[t]
      BY DEF Restart
  <2>3. session' \in [Sessions -> SessionState]
      BY FreshTyped DEF Restart, TypeOK, SessionsTyped
  <2>4. ASSUME NEW t \in Sessions
        PROVE  /\ session'[t].pc \in {"open", "checked", "published", "hashing"} =>
                    session'[t].vv \in VersionVector
               /\ session'[t].pc = "hashing" => session'[t].object # 0
               /\ session'[t].object <= Len(host'[HostOf[t]].objects)
    <3>1. CASE HostOf[t] = h
        BY <2>1, <2>2, <3>1, FreshTyped, OpenedTyped
    <3>2. CASE HostOf[t] # h
        BY <2>1, <2>2, <3>2, HostAssumption DEF TypeOK, SessionsTyped
    <3> QED BY <3>1, <3>2
  <2> QED BY <2>3, <2>4 DEF SessionsTyped
<1>3. ReadersTyped'
    BY DEF Restart, TypeOK, ReadersTyped, ReaderState, NotReading, MaybeFrontier
<1>4. CheckpointersTyped'
  <2>1. NotCheckpointing \in CheckpointerState /\ NotCheckpointing.object = 0
        /\ NotCheckpointing.pc = "idle"
      BY DEF NotCheckpointing, CheckpointerState, NoCheckpoint, Checkpoint, MaybeFrontier
  <2>2. \A g \in Hosts : /\ host'[g] = IF g = h THEN Opened ELSE host[g]
                         /\ checkpointer'[g] = IF g = h THEN NotCheckpointing ELSE checkpointer[g]
      BY DEF Restart, TypeOK, HostsTyped, CheckpointersTyped
  <2>3. checkpointer' \in [Hosts -> CheckpointerState]
      BY <2>1 DEF Restart, TypeOK, CheckpointersTyped
  <2> QED BY <2>1, <2>2, <2>3, OpenedTyped DEF TypeOK, CheckpointersTyped
<1>5. StoreTyped'  BY DEF Restart, TypeOK, StoreTyped, store
<1> QED BY <1>1, <1>2, <1>3, <1>4, <1>5 DEF TypeOK

LEMMA TypesStep == TypeOK /\ [Next]_vars => TypeOK'
<1> SUFFICES ASSUME TypeOK, [Next]_vars PROVE TypeOK'  OBVIOUS
<1>1. ASSUME NEW s \in Sessions, OpenWriter(s) \/ BeginPatch(s) \/ CommitStep(s)
      PROVE  TypeOK'
    BY <1>1, TypesBuild, TypesPublish, TypesEager, TypesDirty, TypesFinish, TypesHookFails
    DEF CommitStep
<1>2. ASSUME NEW h \in Hosts,
             \/ \E c \in Ceilings \cup {0} : MaterializeBegin(h, c)
             \/ ReadStep(h) \/ CheckpointBegin(h) \/ CheckpointStep(h) \/ Restart(h)
      PROVE  TypeOK'
    BY <1>2, TypesRead, TypesInstall, TypesLastFrontier, TypesCheckpoint,
       TypesRestart DEF ReadStep
<1>3. CASE UNCHANGED vars
    BY <1>3 DEF vars, TypeOK, StoreTyped, HostsTyped, SessionsTyped, ReadersTyped,
       CheckpointersTyped
<1> QED BY <1>1, <1>2, <1>3 DEF Next

(* Types and references: no interleaving of commits, materializations,       *)
(* checkpoints and restarts leaves a process using a WarpState object it has *)
(* not allocated, or committing a patch without the vector its builder       *)
(* cloned.                                                                   *)
THEOREM Types == Spec => []TypeOK
BY TypesInit, TypesStep, PTL DEF Spec

-----------------------------------------------------------------------------
(* Chains *)


(* Every patch of a chain was written as the chain's writer. *)
OwnChains == \A w \in Writers : \A i \in DOMAIN chain[w] : chain[w][i].writer = w

(* What a session knows: the head its builder saw is in the chain; the tick  *)
(* it computed stays above the head for as long as the head has not moved;   *)
(* and a patch whose ref moved is in the chain right after its parent.       *)
InFlight(s) ==
  /\ session[s].parent <= Len(chain[WriterOf[s]])
  /\ session[s].pc \in {"begun", "open"} => session[s].lamport > 0
  /\ session[s].pc = "checked" /\ HeadUnmoved(s) =>
       session[s].lamport > HeadLamport(WriterOf[s])
  /\ session[s].pc \in {"published", "hashing"} =>
       /\ session[s].parent + 1 <= Len(chain[WriterOf[s]])
       /\ chain[WriterOf[s]][session[s].parent + 1] = PatchOf(s)

ChainInv ==
  /\ NoLostCommit
  /\ LamportsIncrease
  /\ OwnChains
  /\ \A s \in Sessions : InFlight(s)

-----------------------------------------------------------------------------

(* Chains may only grow. *)
Grows ==
  \A w \in Writers : /\ Len(chain[w]) <= Len(chain'[w])
                     /\ \A i \in 1..Len(chain[w]) : chain'[w][i] = chain[w][i]

(* The fields of a session that InFlight speaks of. *)
SameCommit(s) ==
  /\ session'[s].pc = session[s].pc
  /\ session'[s].parent = session[s].parent
  /\ session'[s].lamport = session[s].lamport
  /\ session'[s].vv = session[s].vv
  /\ session'[s].adds = session[s].adds

(* A session that does not move keeps what it knows when chains grow. *)
LEMMA InFlightKept ==
  ASSUME TypeOK, TypeOK', Grows, NEW s \in Sessions, InFlight(s), SameCommit(s)
  PROVE  InFlight(s)'
<1> DEFINE w == WriterOf[s]
<1>1. w \in Writers  BY HostAssumption
<1>2. chain[w] \in Seq(Patch) /\ chain'[w] \in Seq(Patch)
    BY <1>1 DEF TypeOK, StoreTyped
<1>3. session[s].parent \in Nat /\ session[s].lamport \in Nat
    BY DEF TypeOK, SessionsTyped, SessionState
<1>4. Len(chain[w]) \in Nat /\ Len(chain'[w]) \in Nat /\ Len(chain[w]) <= Len(chain'[w])
    BY <1>1, <1>2 DEF Grows
<1>5. session'[s].parent <= Len(chain'[w])
    BY <1>3, <1>4 DEF InFlight, SameCommit
<1>6. ASSUME session[s].pc = "checked", HeadUnmoved(s)'
      PROVE  session'[s].lamport > HeadLamport(w)'
  <2>1. Len(chain'[w]) = Len(chain[w])  BY <1>3, <1>4, <1>6 DEF HeadUnmoved, InFlight,
      SameCommit
  <2>2. HeadUnmoved(s)  BY <1>6, <2>1 DEF HeadUnmoved, SameCommit
  <2>3. HeadLamport(w)' = HeadLamport(w)
    <3>1. CASE Len(chain[w]) = 0
        BY <1>2, <2>1, <3>1, EmptySeq DEF HeadLamport
    <3>2. CASE Len(chain[w]) # 0
      <4>1. chain'[w][Len(chain[w])] = chain[w][Len(chain[w])]
          BY <1>1, <1>4, <3>2 DEF Grows
      <4>2. chain[w] # <<>> /\ chain'[w] # <<>>  BY <1>2, <2>1, <3>2
      <4> QED BY <2>1, <4>1, <4>2 DEF HeadLamport
    <3> QED BY <3>1, <3>2
  <2> QED BY <1>6, <2>2, <2>3 DEF InFlight, SameCommit
<1>7. ASSUME session[s].pc \in {"published", "hashing"}
      PROVE  /\ session'[s].parent + 1 <= Len(chain'[w])
             /\ chain'[w][session'[s].parent + 1] = PatchOf(s)'
  <2>1. session[s].parent + 1 <= Len(chain[w]) /\ chain[w][session[s].parent + 1] = PatchOf(s)
      BY <1>7 DEF InFlight
  <2>2. session[s].parent + 1 \in 1..Len(chain[w])  BY <1>3, <1>4, <2>1
  <2>3. chain'[w][session[s].parent + 1] = PatchOf(s)  BY <1>1, <2>1, <2>2 DEF Grows
  <2>4. PatchOf(s)' = PatchOf(s)  BY DEF PatchOf, SameCommit
  <2> QED BY <1>3, <1>4, <2>1, <2>3, <2>4 DEF SameCommit
<1> QED BY <1>5, <1>6, <1>7 DEF InFlight, SameCommit

(* The store is untouched and so are the commits: nothing to show. *)
LEMMA StoreKept ==
  ASSUME TypeOK, TypeOK', ChainInv, UNCHANGED store, \A s \in Sessions : SameCommit(s)
  PROVE  ChainInv'
<1>1. chain' = chain /\ acked' = acked  BY DEF store
<1>2. Grows  BY <1>1 DEF Grows, TypeOK, StoreTyped
<1>3. \A s \in Sessions : InFlight(s)'  BY <1>2, InFlightKept DEF ChainInv
<1> QED BY <1>1, <1>3 DEF ChainInv, NoLostCommit, LamportsIncrease, OwnChains

(* One session moves; the store stays. *)
LEMMA OneMoves ==
  ASSUME TypeOK, TypeOK', ChainInv, UNCHANGED store, NEW s \in Sessions, InFlight(s)',
         \A t \in Sessions \ {s} : SameCommit(t)
  PROVE  ChainInv'
<1>1. chain' = chain /\ acked' = acked  BY DEF store
<1>2. Grows  BY <1>1 DEF Grows, TypeOK, StoreTyped
<1>3. \A t \in Sessions : InFlight(t)'  BY <1>2, InFlightKept DEF ChainInv
<1> QED BY <1>1, <1>3 DEF ChainInv, NoLostCommit, LamportsIncrease, OwnChains

(* A session without a commit in progress knows nothing. *)
LEMMA NothingInFlight ==
  ASSUME StoreTyped, NEW s \in Sessions, session[s].pc \in {"closed", "idle"},
         session[s].parent = 0
  PROVE  InFlight(s)
<1>1. Len(chain[WriterOf[s]]) \in Nat  BY HostAssumption DEF StoreTyped
<1> QED BY <1>1 DEF InFlight

LEMMA BuildKeepsChains ==
  ASSUME TypeOK, TypeOK', ChainInv, NEW s \in Sessions,
         OpenWriter(s) \/ BeginPatch(s) \/ BuildPatch(s) \/ CheckHead(s)
  PROVE  ChainInv'
<1> DEFINE w == WriterOf[s]
<1>0. w \in Writers /\ HostOf[s] \in Hosts  BY HostAssumption
<1>n. Len(chain[w]) \in Nat /\ HeadLamport(w) \in Nat /\ session[s] \in SessionState
    BY <1>0, HeadLamportNat DEF TypeOK, StoreTyped, SessionsTyped
<1>o. UNCHANGED store /\ \A t \in Sessions \ {s} : SameCommit(t)
    BY DEF OpenWriter, BeginPatch, BuildPatch, CheckHead, SameCommit, TypeOK, SessionsTyped
<1>i. InFlight(s)  BY DEF ChainInv
<1>1. CASE OpenWriter(s)
  <2>1. session'[s].pc = "idle" /\ session'[s].parent = session[s].parent
      BY <1>1 DEF OpenWriter, TypeOK, SessionsTyped
  <2>2. InFlight(s)'  BY <1>i, <1>o, <2>1 DEF InFlight, store
  <2> QED BY <1>o, <2>2, OneMoves
<1>2. CASE BeginPatch(s)
  <2>1. session'[s].pc = "begun" /\ session'[s].parent = Len(chain[w])
        /\ session'[s].lamport = NextLamport(s)
      BY <1>2 DEF BeginPatch, TypeOK, SessionsTyped
  <2>2. NextLamport(s) > 0
      BY <1>0, <1>n DEF NextLamport, Max2, TypeOK, HostsTyped, HostState
  <2>3. InFlight(s)'  BY <1>n, <1>o, <2>1, <2>2 DEF InFlight, store
  <2> QED BY <1>o, <2>3, OneMoves
<1>3. CASE BuildPatch(s)
  <2> DEFINE vv == BuilderVector(s)
  <2>p. PICK k \in 0..MaxAdds :
          session' = [session EXCEPT ![s].pc = "open",
                                     ![s].vv = [vv EXCEPT ![w] = @ + k],
                                     ![s].adds = (vv[w] + 1)..(vv[w] + k)]
      BY <1>3 DEF BuildPatch
  <2> HIDE DEF vv
  <2>1. session[s].pc = "begun" /\ session'[s].pc = "open"
        /\ session'[s].parent = session[s].parent /\ session'[s].lamport = session[s].lamport
      BY <1>3, <1>n, <2>p DEF BuildPatch, TypeOK, SessionsTyped, SessionState
  <2>2. InFlight(s)'  BY <1>i, <1>o, <2>1 DEF InFlight, store
  <2> QED BY <1>o, <2>2, OneMoves
<1>4. CASE CheckHead(s)
  <2>1. session[s].pc = "open" /\ session'[s].pc = "checked"
        /\ session'[s].parent = session[s].parent /\ session'[s].lamport = CommitLamport(s)
      BY <1>4 DEF CheckHead, TypeOK, SessionsTyped
  <2>2. CommitLamport(s) > HeadLamport(w)
    <3>1. CASE session[s].parent = 0
      <4>1. chain[w] = <<>>
          BY <1>0, <1>4, <3>1, EmptySeq DEF CheckHead, HeadUnmoved, TypeOK, StoreTyped
      <4>2. HeadLamport(w) = 0  BY <4>1 DEF HeadLamport
      <4> QED BY <1>i, <2>1, <3>1, <4>2 DEF InFlight, CommitLamport
    <3>2. CASE session[s].parent # 0
        BY <1>n, <3>2 DEF CommitLamport, Max2, SessionState
    <3> QED BY <3>1, <3>2
  <2>3. InFlight(s)'
      BY <1>i, <1>o, <2>1, <2>2 DEF InFlight, HeadLamport, store
  <2> QED BY <1>o, <2>3, OneMoves
<1> QED BY <1>1, <1>2, <1>3, <1>4

(* A publication extends one chain by one patch with a higher tick. *)
LEMMA AppendStep ==
  ASSUME TypeOK, TypeOK', ChainInv, NEW s \in Sessions, AppendToRef(s)
  PROVE  /\ Grows
         /\ NoLostCommit' /\ LamportsIncrease' /\ OwnChains'
         /\ chain' = [chain EXCEPT ![WriterOf[s]] = Append(@, PatchOf(s))]
         /\ session[s].lamport > HeadLamport(WriterOf[s])
<1> DEFINE w == WriterOf[s]
           n == Len(chain[w])
<1>1. w \in Writers /\ chain \in [Writers -> Seq(Patch)] /\ chain[w] \in Seq(Patch)
    BY HostAssumption DEF TypeOK, StoreTyped
<1>2. chain' = [chain EXCEPT ![w] = Append(@, PatchOf(s))]
    BY PublishAppends DEF AppendToRef
<1>3. PatchOf(s) \in Patch /\ PatchOf(s).writer = w /\ PatchOf(s).lamport = session[s].lamport
    BY PatchOfPatch DEF TypeOK, AppendToRef, PatchOf
<1>4. chain'[w] = Append(chain[w], PatchOf(s))  BY <1>1, <1>2
<1>5. \A u \in Writers \ {w} : chain'[u] = chain[u]  BY <1>1, <1>2
<1>6. n \in Nat /\ Len(chain'[w]) = n + 1 /\ chain'[w][n + 1] = PatchOf(s)
      /\ \A i \in 1..n : chain'[w][i] = chain[w][i]
    BY <1>1, <1>3, <1>4
<1> HIDE DEF n
<1>7. Grows  BY <1>1, <1>5, <1>6 DEF Grows, n
<1>8. DOMAIN chain'[w] = 1..(n + 1) /\ DOMAIN chain[w] = 1..n
    BY <1>1, <1>3, <1>4 DEF n
<1>9. session[s].lamport > HeadLamport(w) /\ session[s].lamport \in Nat
    BY DEF AppendToRef, ChainInv, InFlight, TypeOK, SessionsTyped, SessionState
<1>10. NoLostCommit'
  <2> SUFFICES ASSUME NEW a \in acked
               PROVE  a.at \in DOMAIN chain'[a.writer] /\ chain'[a.writer][a.at] = a.patch
      BY DEF NoLostCommit, AppendToRef
  <2>1. a.at \in DOMAIN chain[a.writer] /\ chain[a.writer][a.at] = a.patch
      BY DEF ChainInv, NoLostCommit
  <2>2. a.writer \in Writers  BY DEF TypeOK, StoreTyped
  <2>3. CASE a.writer = w  BY <1>6, <1>8, <2>1, <2>3
  <2>4. CASE a.writer # w  BY <1>5, <2>1, <2>2, <2>4
  <2> QED BY <2>3, <2>4
<1>11. LamportsIncrease'
  <2> SUFFICES ASSUME NEW u \in Writers, NEW i \in DOMAIN chain'[u], NEW j \in DOMAIN chain'[u],
                      i < j
               PROVE  chain'[u][i].lamport < chain'[u][j].lamport
      BY DEF LamportsIncrease
  <2>1. CASE u # w  BY <1>5, <2>1 DEF ChainInv, LamportsIncrease
  <2>2. CASE u = w /\ j # n + 1
    <3>1. i \in 1..n /\ j \in 1..n  BY <1>6, <1>8, <2>2
    <3> QED BY <1>6, <1>8, <2>2, <3>1 DEF ChainInv, LamportsIncrease
  <2>3. CASE u = w /\ j = n + 1
    <3>1. i \in 1..n /\ n \in 1..n  BY <1>6, <1>8, <2>3
    <3>2. HeadLamport(w) = chain[w][n].lamport
        BY <1>1, <1>8, <3>1 DEF HeadLamport, n
    <3>3. chain[w][i] \in Patch /\ chain[w][n] \in Patch  BY <1>1, <1>8, <3>1
    <3>4. chain[w][i].lamport \in Nat /\ chain[w][n].lamport \in Nat  BY <3>3 DEF Patch
    <3>5. i = n \/ i < n  BY <3>1
    <3>6. chain[w][i].lamport <= chain[w][n].lamport
        BY <1>1, <1>8, <3>1, <3>4, <3>5 DEF ChainInv, LamportsIncrease
    <3>7. chain'[u][i].lamport = chain[w][i].lamport  BY <1>6, <2>3, <3>1
    <3>8. chain'[u][j].lamport = session[s].lamport  BY <1>3, <1>6, <2>3
    <3> QED BY <1>9, <3>2, <3>4, <3>6, <3>7, <3>8
  <2> QED BY <2>1, <2>2, <2>3
<1>12. OwnChains'
  <2> SUFFICES ASSUME NEW u \in Writers, NEW i \in DOMAIN chain'[u]
               PROVE  chain'[u][i].writer = u
      BY DEF OwnChains
  <2>1. CASE u # w  BY <1>5, <2>1 DEF ChainInv, OwnChains
  <2>2. CASE u = w /\ i # n + 1
    <3>1. i \in 1..n  BY <1>6, <1>8, <2>2
    <3> QED BY <1>6, <1>8, <2>2, <3>1 DEF ChainInv, OwnChains
  <2>3. CASE u = w /\ i = n + 1  BY <1>3, <1>6, <2>3
  <2> QED BY <2>1, <2>2, <2>3
<1> QED BY <1>2, <1>7, <1>9, <1>10, <1>11, <1>12

LEMMA PublishKeepsChains ==
  ASSUME TypeOK, TypeOK', ChainInv, NEW s \in Sessions,
         Publish(s) \/ Conflict(s) \/ PublishFails(s) \/ PublishLosesAck(s)
  PROVE  ChainInv'
<1> DEFINE w == WriterOf[s]
<1>0. session[s].parent \in Nat /\ w \in Writers /\ chain[w] \in Seq(Patch)
    BY HostAssumption DEF TypeOK, SessionsTyped, SessionState, StoreTyped
<1>o. \A t \in Sessions \ {s} : SameCommit(t)
    BY DEF Publish, Conflict, PublishFails, PublishLosesAck, Closed, SameCommit, TypeOK,
       SessionsTyped
<1>c. ASSUME session' = Closed(s) PROVE InFlight(s)'
  <2>1. session'[s].pc = "idle" /\ session'[s].parent = 0
      BY <1>c DEF Closed, Idle, TypeOK, SessionsTyped
  <2>2. Len(chain'[w]) \in Nat  BY <1>0 DEF TypeOK, StoreTyped
  <2> QED BY <2>1, <2>2 DEF InFlight
<1>1. ASSUME AppendToRef(s), InFlight(s)' PROVE ChainInv'
  <2>1. \A t \in Sessions \ {s} : InFlight(t)'
      BY <1>1, <1>o, AppendStep, InFlightKept DEF ChainInv
  <2> QED BY <1>1, <2>1, AppendStep DEF ChainInv
<1>2. CASE Publish(s)
  <2>1. session'[s].pc = "published" /\ session'[s].parent = session[s].parent
        /\ PatchOf(s)' = PatchOf(s)
      BY <1>2 DEF Publish, PatchOf, TypeOK, SessionsTyped, SessionState
  <2>2. session[s].parent = Len(chain[w])  BY <1>2 DEF Publish, AppendToRef, HeadUnmoved
  <2>3. chain'[w] = Append(chain[w], PatchOf(s))
      BY <1>0, <1>2, AppendStep DEF Publish, TypeOK, StoreTyped
  <2>4. Len(chain'[w]) = Len(chain[w]) + 1 /\ chain'[w][Len(chain[w]) + 1] = PatchOf(s)
      BY <1>0, <2>3
  <2>5. InFlight(s)'  BY <1>0, <2>1, <2>2, <2>4 DEF InFlight
  <2> QED BY <1>1, <1>2, <2>5 DEF Publish
<1>3. CASE PublishLosesAck(s)  BY <1>1, <1>3, <1>c DEF PublishLosesAck
<1>4. CASE Conflict(s) \/ PublishFails(s)
    BY <1>4, <1>c, <1>o, OneMoves DEF Conflict, PublishFails
<1> QED BY <1>2, <1>3, <1>4

(* A report is of a patch that is in its chain. *)
LEMMA ReportStep ==
  ASSUME TypeOK, ChainInv, NEW s \in Sessions, session[s].pc \in {"published", "hashing"},
         chain' = chain, Reported(s)
  PROVE  /\ NoLostCommit'
         /\ session[s].parent + 1 \in DOMAIN chain[WriterOf[s]]
         /\ chain[WriterOf[s]][session[s].parent + 1] = PatchOf(s)
<1>1. session[s].parent \in Nat /\ WriterOf[s] \in Writers /\ chain[WriterOf[s]] \in Seq(Patch)
    BY HostAssumption DEF TypeOK, SessionsTyped, SessionState, StoreTyped
<1>2. session[s].parent + 1 <= Len(chain[WriterOf[s]])
      /\ chain[WriterOf[s]][session[s].parent + 1] = PatchOf(s)
    BY DEF ChainInv, InFlight
<1>3. session[s].parent + 1 \in DOMAIN chain[WriterOf[s]]  BY <1>1, <1>2
<1>4. NoLostCommit'  BY <1>2, <1>3 DEF NoLostCommit, Reported, ChainInv
<1> QED BY <1>2, <1>3, <1>4

LEMMA HookKeepsChains ==
  ASSUME TypeOK, TypeOK', ChainInv, NEW s \in Sessions,
         OnCommittedEager(s) \/ OnCommittedDirty(s) \/ FinishCommit(s) \/ HookFails(s)
  PROVE  ChainInv'
<1>0. HostOf[s] \in Hosts  BY HostAssumption
<1>1. CASE OnCommittedEager(s)
  <2>1. session'[s].pc = "hashing" /\ session[s].pc = "published"
        /\ session'[s].parent = session[s].parent
        /\ PatchOf(s)' = PatchOf(s)
      BY <1>1 DEF OnCommittedEager, Committed, PatchOf, TypeOK, SessionsTyped, SessionState
  <2>2. \A t \in Sessions \ {s} : SameCommit(t)
      BY <1>1 DEF OnCommittedEager, SameCommit, TypeOK, SessionsTyped
  <2>3. chain' = chain /\ InFlight(s)  BY <1>1 DEF OnCommittedEager, store, ChainInv
  <2>4. InFlight(s)'  BY <2>1, <2>3 DEF InFlight
  <2> QED BY <1>1, <2>2, <2>4, OneMoves DEF OnCommittedEager
<1>2. ASSUME chain' = chain, Reported(s), session[s].pc \in {"published", "hashing"},
             session'[s].pc = "idle", session'[s].parent = 0,
             \A t \in Sessions \ {s} : SameCommit(t)
      PROVE  ChainInv'
  <2>1. Grows  BY <1>2 DEF Grows, TypeOK, StoreTyped
  <2>2. \A t \in Sessions \ {s} : InFlight(t)'  BY <1>2, <2>1, InFlightKept DEF ChainInv
  <2>3. Len(chain'[WriterOf[s]]) \in Nat  BY HostAssumption DEF TypeOK, StoreTyped
  <2>4. InFlight(s)'  BY <1>2, <2>3 DEF InFlight
  <2>5. NoLostCommit'  BY <1>2, ReportStep
  <2> QED BY <1>2, <2>2, <2>4, <2>5 DEF ChainInv, LamportsIncrease, OwnChains
<1>3. CASE OnCommittedDirty(s)
    BY <1>2, <1>3 DEF OnCommittedDirty, Closed, Idle, SameCommit, TypeOK, SessionsTyped
<1>4. CASE FinishCommit(s)
  <2>1. session' = [Detached(HostOf[s]) EXCEPT ![s] = [Idle EXCEPT !.held = Detached(HostOf[s])[s].held]]
      BY <1>4 DEF FinishCommit
  <2>2. session'[s].pc = "idle" /\ session'[s].parent = 0
      BY <1>0, <2>1, DetachedTyped DEF Idle
  <2>3. \A t \in Sessions \ {s} : SameCommit(t)
      BY <1>0, <2>1, DetachedTyped DEF SameCommit
  <2> QED BY <1>2, <1>4, <2>2, <2>3 DEF FinishCommit
<1>5. CASE HookFails(s)
    BY <1>2, <1>5 DEF HookFails, Closed, Idle, SameCommit, TypeOK, SessionsTyped
<1> QED BY <1>1, <1>3, <1>4, <1>5

LEMMA HostStepKeepsChains ==
  ASSUME TypeOK, TypeOK', ChainInv, NEW h \in Hosts,
         \/ \E c \in Ceilings \cup {0} : MaterializeBegin(h, c)
         \/ ReadStep(h) \/ CheckpointBegin(h) \/ CheckpointStep(h) \/ Restart(h)
  PROVE  ChainInv'
<1>1. CASE MaterializeInstall(h)
  <2>1. UNCHANGED store /\ session' = Detached(h)  BY <1>1 DEF MaterializeInstall
  <2>2. \A t \in Sessions : SameCommit(t)  BY <2>1, DetachedTyped DEF SameCommit
  <2> QED BY <2>1, <2>2, StoreKept
<1>2. CASE Restart(h)
  <2>1. UNCHANGED store /\ session' = [t \in Sessions |-> IF HostOf[t] = h THEN Fresh(t) ELSE session[t]]
      BY <1>2 DEF Restart
  <2>2. ASSUME NEW t \in Sessions, HostOf[t] = h PROVE InFlight(t)'
    <3>1. session'[t].pc \in {"closed", "idle"} /\ session'[t].parent = 0
        BY <2>1, <2>2, FreshTyped DEF Fresh, Idle
    <3>2. Len(chain'[WriterOf[t]]) \in Nat  BY HostAssumption DEF TypeOK, StoreTyped
    <3> QED BY <3>1, <3>2 DEF InFlight
  <2>3. ASSUME NEW t \in Sessions, HostOf[t] # h PROVE InFlight(t)'
    <3>1. Grows  BY <2>1 DEF Grows, store, TypeOK, StoreTyped
    <3>2. SameCommit(t)  BY <2>1, <2>3 DEF SameCommit
    <3> QED BY <3>1, <3>2, InFlightKept DEF ChainInv
  <2> QED BY <2>1, <2>2, <2>3 DEF ChainInv, NoLostCommit, LamportsIncrease, OwnChains, store
<1>3. CASE /\ ~MaterializeInstall(h) /\ ~Restart(h)
  <2>1. UNCHANGED store /\ session' = session
      BY <1>3 DEF MaterializeBegin, ReadStep, MaterializeReduce, MaterializeFrontier,
                  CheckpointBegin, CheckpointStep, CheckpointCapture, CheckpointFails,
                  CheckpointEncode, CheckpointPublish, CheckpointConflict
  <2>2. \A t \in Sessions : SameCommit(t)  BY <2>1 DEF SameCommit
  <2> QED BY <2>1, <2>2, StoreKept
<1> QED BY <1>1, <1>2, <1>3

LEMMA ChainsInit == Init => ChainInv
<1> SUFFICES ASSUME Init PROVE ChainInv  OBVIOUS
<1>1. TypeOK  BY TypesInit
<1>2. \A s \in Sessions : session[s].pc \in {"closed", "idle"} /\ session[s].parent = 0
    BY FreshTyped DEF Init, Fresh, Idle
<1>3. \A s \in Sessions : InFlight(s)  BY <1>1, <1>2, NothingInFlight DEF TypeOK
<1>4. acked = {} /\ \A w \in Writers : chain[w] = <<>>  BY DEF Init
<1> QED BY <1>3, <1>4 DEF ChainInv, NoLostCommit, LamportsIncrease, OwnChains

LEMMA ChainsStep == TypeOK /\ TypeOK' /\ ChainInv /\ [Next]_vars => ChainInv'
<1> SUFFICES ASSUME TypeOK, TypeOK', ChainInv, [Next]_vars PROVE ChainInv'  OBVIOUS
<1>1. ASSUME NEW s \in Sessions, OpenWriter(s) \/ BeginPatch(s) \/ CommitStep(s)
      PROVE  ChainInv'
    BY <1>1, BuildKeepsChains, PublishKeepsChains, HookKeepsChains DEF CommitStep
<1>2. CASE UNCHANGED vars
  <2>1. \A t \in Sessions : SameCommit(t)  BY <1>2 DEF SameCommit, vars
  <2> QED BY <1>2, <2>1, StoreKept DEF vars, store
<1> QED BY <1>1, <1>2, HostStepKeepsChains DEF Next

LEMMA Chains == Spec => [](TypeOK /\ ChainInv)
<1>1. TypeOK /\ ChainInv /\ [Next]_vars => (TypeOK /\ ChainInv)'
    BY TypesStep, ChainsStep
<1>2. Init => TypeOK /\ ChainInv  BY TypesInit, ChainsInit
<1> QED BY <1>1, <1>2, PTL DEF Spec

(* commitPatch resolved: no later publication, conflict, crash or lost       *)
(* answer of any process removes or replaces the patch.                      *)
THEOREM CommitsDurable == Spec => []NoLostCommit
<1>1. ChainInv => NoLostCommit  BY DEF ChainInv
<1> QED BY <1>1, Chains, PTL

(* Ticks strictly increase along every writer's chain.                       *)
THEOREM TicksIncrease == Spec => []LamportsIncrease
<1>1. ChainInv => LamportsIncrease  BY DEF ChainInv
<1> QED BY <1>1, Chains, PTL

-----------------------------------------------------------------------------
(* Refinement: publications append, answers report, everything else stutters *)

LEMMA PublicationAppends ==
  ASSUME TypeOK, TypeOK', ChainInv, NEW s \in Sessions, AppendToRef(s)
  PROVE  History!HistoryNext
<1> DEFINE w == WriterOf[s]
<1>1. w \in Writers /\ chain[w] \in Seq(Patch) /\ chain \in [Writers -> Seq(Patch)]
    BY HostAssumption DEF TypeOK, StoreTyped
<1>2. chain' = [chain EXCEPT ![w] = Append(@, PatchOf(s))] /\ session[s].lamport > HeadLamport(w)
    BY AppendStep
<1>3. chain'[w] = Append(chain[w], PatchOf(s))  BY <1>1, <1>2
<1>4. Len(chain'[w]) = Len(chain[w]) + 1 /\ chain'[w][Len(chain[w]) + 1] = PatchOf(s)
    BY <1>1, <1>3
<1>5. PatchOf(s).writer = w /\ PatchOf(s).lamport = session[s].lamport  BY DEF PatchOf
<1>6. History!HeadTick(chain[w]) = HeadLamport(w)  BY DEF History!HeadTick, HeadLamport
<1>7. History!AppendPatch(w)
    BY <1>1, <1>2, <1>4, <1>5, <1>6 DEF History!AppendPatch, History!MayFollow, AppendToRef
<1> QED BY <1>1, <1>7 DEF History!HistoryNext

LEMMA AnswerReports ==
  ASSUME TypeOK, ChainInv, NEW s \in Sessions, session[s].pc \in {"published", "hashing"},
         chain' = chain, Reported(s)
  PROVE  History!HistoryNext
<1> DEFINE w == WriterOf[s]
           i == session[s].parent + 1
<1>1. w \in Writers  BY HostAssumption
<1>2. i \in DOMAIN chain[w] /\ chain[w][i] = PatchOf(s)  BY ReportStep
<1>3. History!ReportCommit(w, i)  BY <1>2 DEF History!ReportCommit, Reported
<1> QED BY <1>1, <1>2, <1>3 DEF History!HistoryNext

LEMMA HistoryStep ==
  TypeOK /\ TypeOK' /\ ChainInv /\ [Next]_vars => [History!HistoryNext]_(History!historyVars)
<1> SUFFICES ASSUME TypeOK, TypeOK', ChainInv, [Next]_vars
             PROVE  History!HistoryNext \/ UNCHANGED store
    BY DEF History!historyVars, store
<1>1. ASSUME NEW s \in Sessions, Publish(s) \/ PublishLosesAck(s) PROVE History!HistoryNext
    BY <1>1, PublicationAppends DEF Publish, PublishLosesAck
<1>2. ASSUME NEW s \in Sessions, OnCommittedDirty(s) \/ FinishCommit(s) \/ HookFails(s)
      PROVE  History!HistoryNext
    BY <1>2, AnswerReports DEF OnCommittedDirty, FinishCommit, HookFails
<1>3. ASSUME NEW s \in Sessions,
             \/ OpenWriter(s) \/ BeginPatch(s) \/ BuildPatch(s) \/ CheckHead(s)
             \/ Conflict(s) \/ PublishFails(s) \/ OnCommittedEager(s)
      PROVE  UNCHANGED store
    BY <1>3 DEF OpenWriter, BeginPatch, BuildPatch, CheckHead, Conflict, PublishFails,
       OnCommittedEager
<1>4. ASSUME NEW h \in Hosts,
             \/ \E c \in Ceilings \cup {0} : MaterializeBegin(h, c)
             \/ ReadStep(h) \/ CheckpointBegin(h) \/ CheckpointStep(h) \/ Restart(h)
      PROVE  UNCHANGED store
    BY <1>4 DEF MaterializeBegin, ReadStep, MaterializeReduce, MaterializeInstall,
                MaterializeFrontier, CheckpointBegin, CheckpointStep, CheckpointCapture,
                CheckpointFails, CheckpointEncode, CheckpointPublish, CheckpointConflict, Restart
<1>5. CASE UNCHANGED vars  BY <1>5 DEF vars, store
<1> QED BY <1>1, <1>2, <1>3, <1>4, <1>5 DEF Next, CommitStep

(* The write path of any number of processes implements one append-only      *)
(* history per writer in which what was reported stays reported in place.    *)
THEOREM HistoryImplemented == Spec => ImplementsHistory
<1>1. Init => History!HistoryInit  BY DEF Init, History!HistoryInit
<1> QED BY <1>1, Chains, HistoryStep, PTL DEF Spec, ImplementsHistory, History!HistorySpec

-----------------------------------------------------------------------------
(* What the steps that touch a host's cache do to it *)

LEMMA EagerEffect ==
  ASSUME TypeOK, NEW s \in Sessions, OnCommittedEager(s)
  PROVE  LET h == HostOf[s] IN
         /\ h \in Hosts /\ Clean(h) /\ session[s].pc = "published"
         /\ host[h].cached \in DOMAIN host[h].objects
         /\ \A g \in Hosts \ {h} : host'[g] = host[g]
         /\ host'[h].objects = [host[h].objects EXCEPT ![host[h].cached] = Applied(s)]
         /\ host'[h].cached = host[h].cached
         /\ host'[h].dirty = host[h].dirty
         /\ host'[h].cachedFrontier = host[h].cachedFrontier
         /\ host'[h].lastFrontier = host[h].lastFrontier
         /\ host'[h].maxLamport = Max2(host[h].maxLamport, session[s].lamport)
         /\ host'[h].vv = [host[h].vv EXCEPT ![WriterOf[s]] = @ + 1]
         /\ session' = [session EXCEPT ![s] =
              [session[s] EXCEPT !.pc = "hashing", !.object = host[h].cached,
                                 !.frontier = Advanced(s)]]
<1> DEFINE h == HostOf[s]
           n == Noted(s)
           r == [n EXCEPT !.objects = [n.objects EXCEPT ![host[h].cached] = Applied(s)]]
<1>1. h \in Hosts /\ Clean(h) /\ session[s].pc = "published"
    BY HostAssumption DEF OnCommittedEager, Committed
<1>2. host[h] \in HostState /\ host[h].cached \in DOMAIN host[h].objects
    BY <1>1 DEF TypeOK, HostsTyped, HostState, Clean
<1>3. host' = [host EXCEPT ![h] = r]  BY DEF OnCommittedEager
<1>4. host'[h] = r /\ \A g \in Hosts \ {h} : host'[g] = host[g]
    BY <1>1, <1>3 DEF TypeOK, HostsTyped
<1>5. /\ n.objects = host[h].objects /\ n.cached = host[h].cached /\ n.dirty = host[h].dirty
      /\ n.cachedFrontier = host[h].cachedFrontier /\ n.lastFrontier = host[h].lastFrontier
      /\ n.maxLamport = Max2(host[h].maxLamport, session[s].lamport)
      /\ n.vv = [host[h].vv EXCEPT ![WriterOf[s]] = @ + 1]
    BY <1>2 DEF Noted, HostState
<1>6. n \in HostState  BY NotedTyped
<1> HIDE DEF n
<1>7. /\ r.objects = [n.objects EXCEPT ![host[h].cached] = Applied(s)]
      /\ r.cached = n.cached /\ r.dirty = n.dirty /\ r.cachedFrontier = n.cachedFrontier
      /\ r.lastFrontier = n.lastFrontier /\ r.maxLamport = n.maxLamport /\ r.vv = n.vv
    BY <1>6 DEF HostState
<1>8. session' = [session EXCEPT ![s] =
        [session[s] EXCEPT !.pc = "hashing", !.object = host[h].cached,
                           !.frontier = Advanced(s)]]
    BY DEF OnCommittedEager
<1> HIDE DEF r
<1> QED BY <1>1, <1>2, <1>4, <1>5, <1>7, <1>8

LEMMA DirtyEffect ==
  ASSUME TypeOK, NEW s \in Sessions, OnCommittedDirty(s)
  PROVE  LET h == HostOf[s] IN
         /\ h \in Hosts /\ session[s].pc = "published"
         /\ \A g \in Hosts \ {h} : host'[g] = host[g]
         /\ host'[h].objects = host[h].objects
         /\ host'[h].cached = host[h].cached
         /\ host'[h].dirty = TRUE
         /\ host'[h].maxLamport = Max2(host[h].maxLamport, session[s].lamport)
         /\ host'[h].vv = [host[h].vv EXCEPT ![WriterOf[s]] = @ + 1]
         /\ session' = [session EXCEPT ![s] = [Idle EXCEPT !.held = session[s].held]]
<1> DEFINE h == HostOf[s]
           n == Noted(s)
           r == [n EXCEPT !.dirty = TRUE]
<1>1. h \in Hosts /\ session[s].pc = "published"
    BY HostAssumption DEF OnCommittedDirty
<1>2. host[h] \in HostState  BY <1>1 DEF TypeOK, HostsTyped
<1>3. host' = [host EXCEPT ![h] = r]  BY DEF OnCommittedDirty
<1>4. host'[h] = r /\ \A g \in Hosts \ {h} : host'[g] = host[g]
    BY <1>1, <1>3 DEF TypeOK, HostsTyped
<1>5. /\ n.objects = host[h].objects /\ n.cached = host[h].cached
      /\ n.maxLamport = Max2(host[h].maxLamport, session[s].lamport)
      /\ n.vv = [host[h].vv EXCEPT ![WriterOf[s]] = @ + 1]
    BY <1>2 DEF Noted, HostState
<1>6. n \in HostState  BY NotedTyped
<1> HIDE DEF n
<1>7. /\ r.objects = n.objects /\ r.cached = n.cached /\ r.dirty = TRUE
      /\ r.maxLamport = n.maxLamport /\ r.vv = n.vv
    BY <1>6 DEF HostState
<1>8. session' = [session EXCEPT ![s] = [Idle EXCEPT !.held = session[s].held]]
    BY DEF OnCommittedDirty, Closed
<1> HIDE DEF r
<1> QED BY <1>1, <1>4, <1>5, <1>7, <1>8

LEMMA FinishEffect ==
  ASSUME TypeOK, NEW s \in Sessions, FinishCommit(s)
  PROVE  LET h == HostOf[s]
             o == session[s].object
         IN
         /\ h \in Hosts /\ session[s].pc = "hashing"
         /\ o \in DOMAIN host[h].objects
         /\ \A g \in Hosts \ {h} : host'[g] = host[g]
         /\ host'[h].objects = host[h].objects
         /\ host'[h].cached = o
         /\ host'[h].dirty = FALSE
         /\ host'[h].cachedFrontier = session[s].frontier
         /\ host'[h].maxLamport = host[h].maxLamport
         /\ host'[h].vv = Observed(host[h].objects[o])
         /\ session' = [Detached(h) EXCEPT ![s] = [Idle EXCEPT !.held = Detached(h)[s].held]]
<1> DEFINE h == HostOf[s]
           o == session[s].object
           i == Installed(h, o, host[h].objects[o], session[s].frontier)
           l == IF i.lastFrontier = Nothing THEN Nothing
                ELSE [i.lastFrontier EXCEPT ![WriterOf[s]] = session[s].parent + 1]
           r == [i EXCEPT !.lastFrontier = l]
<1>1. h \in Hosts /\ session[s].pc = "hashing"  BY HostAssumption DEF FinishCommit
<1>2. host[h] \in HostState  BY <1>1 DEF TypeOK, HostsTyped
<1>3. o \in DOMAIN host[h].objects
    BY <1>1, <1>2 DEF TypeOK, SessionsTyped, SessionState, HostState
<1>4. host' = [host EXCEPT ![h] = r]  BY DEF FinishCommit
<1>5. host'[h] = r /\ \A g \in Hosts \ {h} : host'[g] = host[g]
    BY <1>1, <1>4 DEF TypeOK, HostsTyped
<1>6. /\ i.objects = host[h].objects /\ i.cached = o /\ i.dirty = FALSE
      /\ i.cachedFrontier = session[s].frontier /\ i.maxLamport = host[h].maxLamport
      /\ i.vv = Observed(host[h].objects[o])
    BY <1>2 DEF Installed, HostState
<1>7. o \in Nat /\ host[h].objects[o] \in SUBSET Patch /\ session[s].frontier \in MaybeFrontier
    BY <1>2, <1>3 DEF HostState, TypeOK, SessionsTyped, SessionState
<1>8. i \in HostState  BY <1>1, <1>7, InstalledTyped
<1> HIDE DEF i, l
<1>9. /\ r.objects = i.objects /\ r.cached = i.cached /\ r.dirty = i.dirty
      /\ r.cachedFrontier = i.cachedFrontier /\ r.maxLamport = i.maxLamport /\ r.vv = i.vv
    BY <1>8 DEF HostState
<1>10. session' = [Detached(h) EXCEPT ![s] = [Idle EXCEPT !.held = Detached(h)[s].held]]
    BY DEF FinishCommit
<1> HIDE DEF r
<1> QED BY <1>1, <1>3, <1>5, <1>6, <1>9, <1>10

LEMMA InstallEffect ==
  ASSUME TypeOK, NEW h \in Hosts, MaterializeInstall(h)
  PROVE  LET o == Len(host[h].objects) + 1 IN
         /\ reader[h].pc = "reduced"
         /\ \A g \in Hosts \ {h} : host'[g] = host[g]
         /\ host'[h].objects = Append(host[h].objects, reader[h].result)
         /\ host'[h].cached = o /\ o # 0
         /\ host'[h].dirty = FALSE
         /\ host'[h].cachedFrontier = reader[h].frontier
         /\ host'[h].maxLamport = Max2(host[h].maxLamport, MaxObserved(reader[h].result))
         /\ host'[h].vv = Observed(reader[h].result)
         /\ session' = Detached(h)
<1> DEFINE o == Len(host[h].objects) + 1
           i == Installed(h, o, reader[h].result, reader[h].frontier)
           r == [i EXCEPT !.objects = Append(i.objects, reader[h].result),
                          !.maxLamport = Max2(i.maxLamport, MaxObserved(reader[h].result))]
<1>1. host[h] \in HostState /\ reader[h] \in ReaderState
    BY DEF TypeOK, HostsTyped, ReadersTyped
<1>2. o \in Nat /\ o # 0  BY <1>1 DEF HostState
<1>3. host' = [host EXCEPT ![h] = r]  BY DEF MaterializeInstall
<1>4. host'[h] = r /\ \A g \in Hosts \ {h} : host'[g] = host[g]
    BY <1>3 DEF TypeOK, HostsTyped
<1>5. /\ i.objects = host[h].objects /\ i.cached = o /\ i.dirty = FALSE
      /\ i.cachedFrontier = reader[h].frontier /\ i.maxLamport = host[h].maxLamport
      /\ i.vv = Observed(reader[h].result)
    BY <1>1 DEF Installed, HostState
<1>6. i \in HostState  BY <1>1, <1>2, InstalledTyped DEF ReaderState
<1> HIDE DEF i
<1>7. /\ r.objects = Append(i.objects, reader[h].result)
      /\ r.cached = i.cached /\ r.dirty = i.dirty /\ r.cachedFrontier = i.cachedFrontier
      /\ r.maxLamport = Max2(i.maxLamport, MaxObserved(reader[h].result)) /\ r.vv = i.vv
    BY <1>6 DEF HostState
<1>8. reader[h].pc = "reduced" /\ session' = Detached(h)  BY DEF MaterializeInstall
<1> HIDE DEF r
<1> QED BY <1>2, <1>4, <1>5, <1>7, <1>8

LEMMA RestartEffect ==
  ASSUME TypeOK, NEW h \in Hosts, Restart(h)
  PROVE  /\ host'[h] = Opened /\ \A g \in Hosts \ {h} : host'[g] = host[g]
         /\ reader'[h] = NotReading /\ \A g \in Hosts \ {h} : reader'[g] = reader[g]
         /\ checkpointer'[h] = NotCheckpointing
         /\ \A g \in Hosts \ {h} : checkpointer'[g] = checkpointer[g]
         /\ \A t \in Sessions : session'[t] = IF HostOf[t] = h THEN Fresh(t) ELSE session[t]
BY DEF Restart, TypeOK, HostsTyped, ReadersTyped, CheckpointersTyped

(* Detaching changes what Writers hold, never a session of createPatch(). *)
LEMMA DetachedHeld ==
  ASSUME TypeOK, NEW h \in Hosts, NEW t \in Sessions
  PROVE  /\ Detached(h)[t].frontier = session[t].frontier
         /\ \/ Detached(h)[t].held = session[t].held
            \/ Detached(h)[t].held = host[h].vv /\ Api[t] = "writer"
<1>1. session[t] \in SessionState  BY DEF TypeOK, SessionsTyped
<1> QED BY <1>1 DEF Detached, SessionState

-----------------------------------------------------------------------------
(* The largest element of a bounded set of numbers *)

LEMMA LeastNatural ==
  ASSUME NEW T \in SUBSET Nat, T # {}
  PROVE  \E x \in T : \A y \in T : x <= y
<1> DEFINE R == OpToRel(<, Nat)
<1>1. IsWellFoundedOn(R, Nat)  BY NatLessThanWellFounded
<1>2. \A x, y \in Nat : <<x, y>> \in R <=> x < y  BY DEF OpToRel
<1> HIDE DEF R
<1>3. PICK x \in T : \A y \in T : ~(<<y, x>> \in R)  BY <1>1, WFMin
<1>4. x \in Nat /\ \A y \in T : y \in Nat  OBVIOUS
<1>5. \A y \in T : ~(y < x)  BY <1>2, <1>3, <1>4, Zenon
<1> QED BY <1>4, <1>5

LEMMA HighestCovers ==
  ASSUME NEW S \in SUBSET Nat, NEW b \in Nat, \A n \in S : n <= b
  PROVE  Highest(S) <= b /\ \A n \in S : n <= Highest(S)
<1>1. CASE S = {}
  <2>1. Highest(S) = 0  BY <1>1 DEF Highest
  <2> QED BY <1>1, <2>1
<1>2. CASE S # {}
  <2> DEFINE T == {m \in Nat : \A n \in S : n <= m}
  <2>1. T # {} /\ T \in SUBSET Nat  OBVIOUS
  <2> HIDE DEF T
  <2>2. PICK m \in T : \A y \in T : m <= y  BY <2>1, LeastNatural
  <2> USE DEF T
  <2>3. m \in S
    <3>1. CASE m = 0
      <4>1. PICK n \in S : TRUE  BY <1>2
      <4>2. n = 0  BY <3>1
      <4> QED BY <3>1, <4>1, <4>2
    <3>2. CASE m # 0
      <4>1. m - 1 \in Nat  BY <3>2
      <4>2. m - 1 \notin T  BY <2>2, <4>1
      <4>3. PICK n \in S : ~(n <= m - 1)  BY <4>1, <4>2
      <4>4. n \in Nat /\ n <= m  OBVIOUS
      <4>5. n = m  BY <4>1, <4>3, <4>4
      <4> QED BY <4>3, <4>5
    <3> QED BY <3>1, <3>2
  <2>4. \E x \in S : \A n \in S : n <= x  BY <2>3
  <2>5. Highest(S) \in S /\ \A n \in S : n <= Highest(S)  BY <2>4 DEF Highest
  <2> QED BY <2>5
<1> QED BY <1>1, <1>2

-----------------------------------------------------------------------------
(* Ticks cover reads *)

(* No tick or counter of a patch is above b. *)
Within(p, b) == p.lamport <= b /\ \A w \in Writers : p.context[w] <= b

Below(S, b) == \A p \in S : Within(p, b)

Under(v, b) == v \in VersionVector => \A w \in Writers : v[w] <= b

(* Whatever a process has in memory or the store holds is bounded, so that   *)
(* the largest tick of a state exists.                                       *)
HostBounded(h, b) ==
  /\ \A i \in DOMAIN host[h].objects : Below(host[h].objects[i], b)
  /\ Under(host[h].vv, b)
  /\ host[h].maxLamport <= b
  /\ Below(reader[h].result, b)
  /\ Below(checkpointer[h].state, b)

SessionBounded(s, b) ==
  Under(session[s].vv, b) /\ Under(session[s].held, b) /\ session[s].lamport <= b

Bounded(b) ==
  /\ \A w \in Writers : \A i \in DOMAIN chain[w] : Within(chain[w][i], b)
  /\ Below(checkpoint.state, b)
  /\ \A h \in Hosts : HostBounded(h, b)
  /\ \A s \in Sessions : SessionBounded(s, b)

(* The largest tick a host knows is above every tick in its heap, the        *)
(* objects a commit or a checkpoint in progress still holds included.        *)
HeapCovered ==
  \A h \in Hosts : \A i \in DOMAIN host[h].objects : \A p \in host[h].objects[i] :
     p.lamport <= host[h].maxLamport

CoverInv == HeapCovered /\ \E b \in Nat : Bounded(b)

(* With everything bounded, the observed frontier of a state covers its      *)
(* patches and stays under the bound, and so does its largest tick.          *)
LEMMA ObservedCovers ==
  ASSUME NEW S \in SUBSET Patch, NEW b \in Nat, Below(S, b)
  PROVE  /\ Under(Observed(S), b)
         /\ \A p \in S : \A w \in Writers : p.context[w] <= Observed(S)[w]
         /\ \A p \in S : p.lamport <= Observed(S)[p.writer]
<1>0. ASSUME NEW w \in Writers
      PROVE  /\ Observed(S)[w] <= b
             /\ \A p \in S : p.context[w] <= Observed(S)[w]
             /\ \A p \in S : p.writer = w => p.lamport <= Observed(S)[w]
  <2> DEFINE N == {p.context[w] : p \in S} \cup {p.lamport : p \in {q \in S : q.writer = w}}
  <2>1. \A p \in S : /\ p.context[w] \in Nat /\ p.lamport \in Nat
                     /\ p.context[w] <= b /\ p.lamport <= b
      BY <1>0 DEF Patch, VersionVector, Below, Within
  <2>2. N \in SUBSET Nat /\ \A n \in N : n <= b  BY <2>1
  <2>3. Observed(S)[w] = Highest(N)  BY <1>0 DEF Observed
  <2>4. \A p \in S : p.context[w] \in N /\ (p.writer = w => p.lamport \in N)  OBVIOUS
  <2> HIDE DEF N
  <2> QED BY <2>2, <2>3, <2>4, HighestCovers
<1>1. \A p \in S : p.writer \in Writers  BY DEF Patch
<1> QED BY <1>0, <1>1 DEF Under

LEMMA MaxObservedCovers ==
  ASSUME NEW S \in SUBSET Patch, NEW b \in Nat, Below(S, b)
  PROVE  MaxObserved(S) <= b /\ \A p \in S : p.lamport <= MaxObserved(S)
<1> DEFINE o == Observed(S)
           N == {o[w] : w \in Writers}
<1>1. o \in VersionVector  BY ObservedVector
<1>2. N \in SUBSET Nat  BY <1>1 DEF VersionVector
<1>3. \A n \in N : n <= b  BY <1>1, ObservedCovers DEF Under
<1>4. MaxObserved(S) = Highest(N)  BY DEF MaxObserved
<1>5. Highest(N) <= b /\ \A n \in N : n <= Highest(N)  BY <1>2, <1>3, HighestCovers
<1>6. ASSUME NEW p \in S PROVE p.lamport <= MaxObserved(S)
  <2>1. p.writer \in Writers /\ p.lamport \in Nat  BY DEF Patch
  <2>2. p.lamport <= o[p.writer] /\ o[p.writer] \in N  BY <2>1, ObservedCovers
  <2>3. o[p.writer] <= Highest(N) /\ o[p.writer] \in Nat  BY <1>2, <1>5, <2>2
  <2>4. Highest(N) \in Nat  BY <1>2, HighestNat
  <2> QED BY <1>4, <2>1, <2>2, <2>3, <2>4
<1> QED BY <1>4, <1>5, <1>6

(* A bound may be raised. *)
LEMMA BelowRaised ==
  ASSUME NEW S \in SUBSET Patch, NEW b \in Nat, NEW c \in Nat, b <= c, Below(S, b)
  PROVE  Below(S, c)
<1> SUFFICES ASSUME NEW p \in S PROVE Within(p, c)  BY DEF Below
<1>1. p.lamport \in Nat /\ \A w \in Writers : p.context[w] \in Nat
    BY DEF Patch, VersionVector
<1>2. Within(p, b)  BY DEF Below
<1> QED BY <1>1, <1>2 DEF Within

LEMMA UnderRaised ==
  ASSUME NEW v, NEW b \in Nat, NEW c \in Nat, b <= c, Under(v, b)
  PROVE  Under(v, c)
<1> SUFFICES ASSUME v \in VersionVector, NEW w \in Writers PROVE v[w] <= c  BY DEF Under
<1>1. v[w] \in Nat /\ v[w] <= b  BY DEF VersionVector, Under
<1> QED BY <1>1

LEMMA BoundRaised ==
  ASSUME TypeOK, NEW b \in Nat, NEW c \in Nat, b <= c, Bounded(b)
  PROVE  Bounded(c)
<1>1. ASSUME NEW w \in Writers, NEW i \in DOMAIN chain[w] PROVE Within(chain[w][i], c)
  <2>1. {chain[w][i]} \in SUBSET Patch  BY <1>1 DEF TypeOK, StoreTyped
  <2>2. Below({chain[w][i]}, b)  BY <1>1 DEF Bounded, Below
  <2> QED BY <2>1, <2>2, BelowRaised DEF Below
<1>2. Below(checkpoint.state, c)
    BY BelowRaised DEF Bounded, TypeOK, StoreTyped, Checkpoint
<1>3. ASSUME NEW h \in Hosts PROVE HostBounded(h, c)
  <2>1. host[h] \in HostState /\ reader[h] \in ReaderState /\ checkpointer[h] \in CheckpointerState
      BY DEF TypeOK, HostsTyped, ReadersTyped, CheckpointersTyped
  <2>2. \A i \in DOMAIN host[h].objects : host[h].objects[i] \in SUBSET Patch
      BY <2>1 DEF HostState
  <2>3. HostBounded(h, b)  BY DEF Bounded
  <2>4. \A i \in DOMAIN host[h].objects : Below(host[h].objects[i], c)
      BY <2>2, <2>3, BelowRaised DEF HostBounded
  <2>5. Under(host[h].vv, c)  BY <2>3, UnderRaised DEF HostBounded
  <2>6. host[h].maxLamport <= c  BY <2>1, <2>3 DEF HostBounded, HostState
  <2>7. Below(reader[h].result, c) /\ Below(checkpointer[h].state, c)
      BY <2>1, <2>3, BelowRaised DEF HostBounded, ReaderState, CheckpointerState
  <2> QED BY <2>4, <2>5, <2>6, <2>7 DEF HostBounded
<1>4. ASSUME NEW s \in Sessions PROVE SessionBounded(s, c)
  <2>1. session[s].lamport \in Nat /\ session[s].lamport <= b
      BY DEF TypeOK, SessionsTyped, SessionState, Bounded, SessionBounded
  <2> QED BY <2>1, UnderRaised DEF Bounded, SessionBounded
<1> QED BY <1>1, <1>2, <1>3, <1>4 DEF Bounded

(* The patch a session commits is under the bound. *)
LEMMA PatchWithin ==
  ASSUME TypeOK, NEW s \in Sessions, NEW c \in Nat, SessionBounded(s, c),
         session[s].pc \in {"open", "checked", "published", "hashing"}
  PROVE  Within(PatchOf(s), c)
<1>1. session[s].vv \in VersionVector  BY DEF TypeOK, SessionsTyped
<1> QED BY <1>1 DEF SessionBounded, Under, Within, PatchOf

LEMMA NothingUnder == ASSUME NEW b \in Nat PROVE Under(Nothing, b)
<1>1. ASSUME Nothing \in VersionVector, NEW w \in Writers PROVE Nothing[w] <= b
  <2>1. DOMAIN Nothing = {} /\ DOMAIN Nothing = Writers  BY <1>1 DEF Nothing, VersionVector
  <2> QED BY <1>1, <2>1
<1> QED BY <1>1 DEF Under

LEMMA FreshBounded ==
  ASSUME NEW s, NEW b \in Nat
  PROVE  Under(Fresh(s).vv, b) /\ Under(Fresh(s).held, b) /\ Fresh(s).lamport <= b
<1>1. Fresh(s).vv = Nothing /\ Fresh(s).held = Nothing /\ Fresh(s).lamport = 0
    BY DEF Fresh, Idle
<1> QED BY <1>1, NothingUnder

LEMMA CoverInit == Init => CoverInv
<1> SUFFICES ASSUME Init PROVE CoverInv  OBVIOUS
<1> USE DEF Init
<1>1. HeapCovered  BY DEF HeapCovered, Opened
<1>2. \A w \in Writers : chain[w] = <<>>  OBVIOUS
<1>3. \A h \in Hosts : HostBounded(h, 0)
    BY DEF HostBounded, Opened, NotReading, NotCheckpointing, Below, Under
<1>4. \A s \in Sessions : SessionBounded(s, 0)  BY FreshBounded DEF SessionBounded
<1>5. Below(checkpoint.state, 0)  BY DEF NoCheckpoint, Below
<1>6. Bounded(0)  BY <1>2, <1>3, <1>4, <1>5 DEF Bounded
<1> QED BY <1>1, <1>6 DEF CoverInv

(* Every step raises the bound by less than this. *)
Raise == MaxAdds + 1

LEMMA BuildCovers ==
  ASSUME TypeOK, TypeOK', NEW b \in Nat, Bounded(b), Bounded(b + Raise), NEW s \in Sessions,
         OpenWriter(s) \/ BeginPatch(s) \/ BuildPatch(s) \/ CheckHead(s)
  PROVE  Bounded(b + Raise)'
<1> DEFINE w == WriterOf[s]
           c == b + Raise
<1>0. w \in Writers /\ HostOf[s] \in Hosts /\ MaxAdds \in Nat  BY HostAssumption
<1>n. c \in Nat /\ b + 1 <= c /\ b + MaxAdds <= c  BY <1>0 DEF Raise
<1>s. session[s] \in SessionState /\ SessionBounded(s, b) /\ SessionBounded(s, c)
    BY DEF TypeOK, SessionsTyped, Bounded
<1>h. HeadLamport(w) \in Nat /\ HeadLamport(w) <= b
  <2>1. CASE chain[w] = <<>>  BY <2>1 DEF HeadLamport
  <2>2. CASE chain[w] # <<>>
    <3>1. Len(chain[w]) \in DOMAIN chain[w] /\ chain[w] \in Seq(Patch)
        BY <1>0, <2>2 DEF TypeOK, StoreTyped
    <3>2. Within(chain[w][Len(chain[w])], b)  BY <1>0, <3>1 DEF Bounded
    <3> QED BY <1>0, <2>2, <3>2, HeadLamportNat DEF HeadLamport, Within, TypeOK
  <2> QED BY <2>1, <2>2
<1>m. host[HostOf[s]].maxLamport \in Nat /\ host[HostOf[s]].maxLamport <= b
      /\ host[HostOf[s]].vv \in VersionVector /\ Under(host[HostOf[s]].vv, b)
    BY <1>0 DEF Bounded, HostBounded, TypeOK, HostsTyped, HostState
<1>f. UNCHANGED <<store, host, reader, checkpointer, checkpoint>>
      /\ \A t \in Sessions \ {s} : session'[t] = session[t]
    BY DEF OpenWriter, BeginPatch, BuildPatch, CheckHead, TypeOK, SessionsTyped
<1>l. session[s].lamport \in Nat /\ session[s].lamport <= b
    BY <1>s DEF SessionBounded, SessionState
<1> HIDE DEF c
<1>1. CASE OpenWriter(s)
  <2>1. session'[s].vv = session[s].vv /\ session'[s].held = session[s].held
        /\ session'[s].lamport = session[s].lamport
      BY <1>1, <1>s DEF OpenWriter, SessionState, TypeOK, SessionsTyped
  <2>2. SessionBounded(s, c)'  BY <1>s, <2>1 DEF SessionBounded
  <2> QED BY <1>f, <2>2 DEF Bounded, HostBounded, SessionBounded, store, c
<1>2. CASE BeginPatch(s)
  <2>1. session'[s].vv = session[s].vv /\ session'[s].held = session[s].held
        /\ session'[s].lamport = NextLamport(s)
      BY <1>2, <1>s DEF BeginPatch, SessionState, TypeOK, SessionsTyped
  <2>2. NextLamport(s) <= c  BY <1>h, <1>m, <1>n DEF NextLamport, Max2
  <2>3. SessionBounded(s, c)'  BY <1>s, <2>1, <2>2 DEF SessionBounded
  <2> QED BY <1>f, <2>3 DEF Bounded, HostBounded, SessionBounded, store, c
<1>3. CASE BuildPatch(s)
  <2> DEFINE vv == BuilderVector(s)
  <2>1. vv \in VersionVector /\ Under(vv, b)
      BY <1>m, <1>s DEF BuilderVector, SessionState, MaybeVector, SessionBounded
  <2>2. PICK k \in 0..MaxAdds :
          session' = [session EXCEPT ![s].pc = "open",
                                     ![s].vv = [vv EXCEPT ![w] = @ + k],
                                     ![s].adds = (vv[w] + 1)..(vv[w] + k)]
      BY <1>3 DEF BuildPatch
  <2> HIDE DEF vv
  <2>3. session'[s].vv = [vv EXCEPT ![w] = @ + k] /\ session'[s].held = session[s].held
        /\ session'[s].lamport = session[s].lamport
      BY <1>s, <2>2 DEF SessionState, TypeOK, SessionsTyped
  <2>4. \A u \in Writers : [vv EXCEPT ![w] = @ + k][u] <= c
    <3> SUFFICES ASSUME NEW u \in Writers PROVE [vv EXCEPT ![w] = @ + k][u] <= c  OBVIOUS
    <3>1. vv[u] \in Nat /\ vv[u] <= b  BY <2>1 DEF VersionVector, Under
    <3>2. k \in Nat /\ k <= MaxAdds  BY <1>0
    <3>3. [vv EXCEPT ![w] = @ + k][u] = IF u = w THEN vv[u] + k ELSE vv[u]
        BY <2>1 DEF VersionVector
    <3>4. vv[u] <= c /\ vv[u] + k <= c  BY <1>n, <1>0, <3>1, <3>2
    <3> QED BY <3>3, <3>4
  <2>5. SessionBounded(s, c)'  BY <1>s, <2>3, <2>4 DEF SessionBounded, Under
  <2> QED BY <1>f, <2>5 DEF Bounded, HostBounded, SessionBounded, store, c
<1>4. CASE CheckHead(s)
  <2>1. session'[s].vv = session[s].vv /\ session'[s].held = session[s].held
        /\ session'[s].lamport = CommitLamport(s)
      BY <1>4, <1>s DEF CheckHead, SessionState, TypeOK, SessionsTyped
  <2>2. CommitLamport(s) <= c  BY <1>h, <1>l, <1>n DEF CommitLamport, Max2
  <2>3. SessionBounded(s, c)'  BY <1>s, <2>1, <2>2 DEF SessionBounded
  <2> QED BY <1>f, <2>3 DEF Bounded, HostBounded, SessionBounded, store, c
<1> QED BY <1>1, <1>2, <1>3, <1>4

(* A finished commit leaves nothing above the bound. *)
LEMMA ClosedBounded ==
  ASSUME TypeOK, NEW s \in Sessions, NEW c \in Nat, SessionBounded(s, c), session' = Closed(s)
  PROVE  SessionBounded(s, c)' /\ \A t \in Sessions \ {s} : session'[t] = session[t]
<1>1. session'[s] = [Idle EXCEPT !.held = session[s].held]
      /\ \A t \in Sessions \ {s} : session'[t] = session[t]
    BY DEF Closed, TypeOK, SessionsTyped
<1>2. session'[s].vv = Nothing /\ session'[s].held = session[s].held /\ session'[s].lamport = 0
    BY <1>1 DEF Idle
<1> QED BY <1>1, <1>2, NothingUnder DEF SessionBounded

LEMMA PublishCovers ==
  ASSUME TypeOK, TypeOK', NEW c \in Nat, Bounded(c), NEW s \in Sessions,
         Publish(s) \/ Conflict(s) \/ PublishFails(s) \/ PublishLosesAck(s)
  PROVE  Bounded(c)'
<1> DEFINE w == WriterOf[s]
<1>0. w \in Writers /\ SessionBounded(s, c)  BY HostAssumption DEF Bounded
<1>f. UNCHANGED <<host, reader, checkpointer, checkpoint>>
    BY DEF Publish, Conflict, PublishFails, PublishLosesAck
<1>1. SessionBounded(s, c)' /\ \A t \in Sessions \ {s} : session'[t] = session[t]
  <2>1. CASE Publish(s)
    <3>1. session'[s].vv = session[s].vv /\ session'[s].held = session[s].held
          /\ session'[s].lamport = session[s].lamport
          /\ \A t \in Sessions \ {s} : session'[t] = session[t]
        BY <2>1 DEF Publish, SessionState, TypeOK, SessionsTyped
    <3> QED BY <1>0, <3>1 DEF SessionBounded
  <2>2. CASE session' = Closed(s)  BY <1>0, <2>2, ClosedBounded
  <2> QED BY <2>1, <2>2 DEF Conflict, PublishFails, PublishLosesAck
<1>2. ASSUME NEW u \in Writers, NEW i \in DOMAIN chain'[u] PROVE Within(chain'[u][i], c)
  <2>1. CASE chain' = chain  BY <2>1 DEF Bounded
  <2>2. CASE AppendToRef(s)
    <3>1. Within(PatchOf(s), c)  BY <1>0, <2>2, PatchWithin DEF AppendToRef
    <3>2. chain' = [chain EXCEPT ![w] = Append(@, PatchOf(s))]
        BY <2>2, PublishAppends DEF AppendToRef
    <3>3. chain[u] \in Seq(Patch) /\ chain \in [Writers -> Seq(Patch)]
        BY DEF TypeOK, StoreTyped
    <3>4. CASE u # w  BY <1>0, <3>2, <3>3, <3>4 DEF Bounded
    <3>5. CASE u = w
      <4>1. chain'[u] = Append(chain[u], PatchOf(s))  BY <1>0, <3>2, <3>3, <3>5
      <4>2. \/ i \in DOMAIN chain[u] /\ chain'[u][i] = chain[u][i]
            \/ chain'[u][i] = PatchOf(s)
        <5>1. i \in 1..(Len(chain[u]) + 1) /\ Len(chain[u]) \in Nat  BY <1>2, <3>3, <4>1
        <5>2. CASE i = Len(chain[u]) + 1  BY <3>3, <4>1, <5>2
        <5>3. CASE i # Len(chain[u]) + 1  BY <3>3, <4>1, <5>1, <5>3
        <5> QED BY <5>2, <5>3
      <4> QED BY <3>1, <4>2 DEF Bounded
    <3> QED BY <3>4, <3>5
  <2> QED BY <2>1, <2>2 DEF Publish, Conflict, PublishFails, PublishLosesAck, store
<1> QED BY <1>1, <1>2, <1>f DEF Bounded, HostBounded, SessionBounded

(* Only the Writers of the host change, and they hold its bounded vector. *)
LEMMA DetachedBounded ==
  ASSUME TypeOK, NEW h \in Hosts, NEW c \in Nat, Bounded(c), NEW t \in Sessions
  PROVE  /\ Under(Detached(h)[t].vv, c) /\ Under(Detached(h)[t].held, c)
         /\ Detached(h)[t].lamport <= c
<1>1. SessionBounded(t, c) /\ HostBounded(h, c)  BY DEF Bounded
<1> QED BY <1>1, DetachedTyped, DetachedHeld DEF SessionBounded, HostBounded

LEMMA HookCovers ==
  ASSUME TypeOK, TypeOK', HeapCovered, NEW b \in Nat, Bounded(b), Bounded(b + Raise),
         NEW s \in Sessions,
         OnCommittedEager(s) \/ OnCommittedDirty(s) \/ FinishCommit(s)
  PROVE  Bounded(b + Raise)' /\ HeapCovered'
<1> DEFINE h == HostOf[s]
           w == WriterOf[s]
           c == b + Raise
<1>0. w \in Writers /\ h \in Hosts /\ MaxAdds \in Nat  BY HostAssumption
<1>n. c \in Nat /\ b + 1 <= c  BY <1>0 DEF Raise
<1>s. session[s] \in SessionState /\ SessionBounded(s, c) /\ session[s].lamport <= b
      /\ session[s].lamport \in Nat
    BY DEF TypeOK, SessionsTyped, Bounded, SessionBounded, SessionState
<1>h. host[h] \in HostState /\ HostBounded(h, b) /\ HostBounded(h, c)
    BY <1>0 DEF TypeOK, HostsTyped, Bounded
<1>v. \A u \in Writers : [host[h].vv EXCEPT ![w] = @ + 1][u] <= c
  <2> SUFFICES ASSUME NEW u \in Writers PROVE [host[h].vv EXCEPT ![w] = @ + 1][u] <= c  OBVIOUS
  <2>1. host[h].vv \in VersionVector  BY <1>h DEF HostState
  <2>2. host[h].vv[u] \in Nat /\ host[h].vv[u] <= b
      BY <1>h, <2>1 DEF VersionVector, HostBounded, Under
  <2>3. [host[h].vv EXCEPT ![w] = @ + 1][u] = IF u = w THEN host[h].vv[u] + 1 ELSE host[h].vv[u]
      BY <2>1 DEF VersionVector
  <2> QED BY <1>n, <2>2, <2>3
<1>m. /\ Max2(host[h].maxLamport, session[s].lamport) <= c
      /\ host[h].maxLamport \in Nat
      /\ host[h].maxLamport <= Max2(host[h].maxLamport, session[s].lamport)
      /\ session[s].lamport <= Max2(host[h].maxLamport, session[s].lamport)
      /\ Max2(host[h].maxLamport, session[s].lamport) \in Nat
    BY <1>h, <1>n, <1>s DEF HostBounded, HostState, Max2
<1>f. UNCHANGED <<chain, reader, checkpointer, checkpoint>>
    BY DEF OnCommittedEager, OnCommittedDirty, FinishCommit, store
<1> HIDE DEF c
<1>q. ASSUME HostBounded(h, c)', \A t \in Sessions : SessionBounded(t, c)',
             \A g \in Hosts \ {h} : host'[g] = host[g],
             \A i \in DOMAIN host'[h].objects : \A p \in host'[h].objects[i] :
                p.lamport <= host'[h].maxLamport
      PROVE  Bounded(c)' /\ HeapCovered'
  <2>1. \A g \in Hosts : HostBounded(g, c)'  BY <1>f, <1>q DEF Bounded, HostBounded, c
  <2> QED BY <1>f, <1>q, <2>1 DEF Bounded, HeapCovered, c
<1>l. ASSUME NEW i \in DOMAIN host[h].objects, NEW p \in host[h].objects[i]
      PROVE  p.lamport \in Nat /\ p.lamport <= host[h].maxLamport /\ p \in Patch
  <2>1. p \in Patch  BY <1>h, <1>l DEF HostState
  <2> QED BY <1>0, <1>l, <2>1 DEF HeapCovered, Patch
<1>1. CASE OnCommittedEager(s)
  <2>1. /\ host[h].cached \in DOMAIN host[h].objects /\ session[s].pc = "published"
        /\ \A g \in Hosts \ {h} : host'[g] = host[g]
        /\ host'[h].objects = [host[h].objects EXCEPT ![host[h].cached] = Applied(s)]
        /\ host'[h].maxLamport = Max2(host[h].maxLamport, session[s].lamport)
        /\ host'[h].vv = [host[h].vv EXCEPT ![w] = @ + 1]
        /\ session' = [session EXCEPT ![s] =
              [session[s] EXCEPT !.pc = "hashing", !.object = host[h].cached,
                                 !.frontier = Advanced(s)]]
      BY <1>1, EagerEffect
  <2>2. host[h].cached # 0
      BY <1>1 DEF OnCommittedEager, Clean
  <2>3. Applied(s) = host[h].objects[host[h].cached] \cup {PatchOf(s)}
      BY <2>2 DEF Applied, CachedState
  <2>4. DOMAIN host'[h].objects = DOMAIN host[h].objects
      /\ \A i \in DOMAIN host[h].objects : host'[h].objects[i] =
            IF i = host[h].cached THEN Applied(s) ELSE host[h].objects[i]
      BY <1>h, <2>1 DEF HostState
  <2>5. Within(PatchOf(s), c) /\ PatchOf(s).lamport = session[s].lamport
      BY <1>n, <1>s, <2>1, PatchWithin DEF PatchOf
  <2>6. \A i \in DOMAIN host'[h].objects : Below(host'[h].objects[i], c)
    <3> SUFFICES ASSUME NEW i \in DOMAIN host'[h].objects, NEW p \in host'[h].objects[i]
                 PROVE  Within(p, c)
        BY DEF Below
    <3>1. CASE p = PatchOf(s)  BY <2>5, <3>1
    <3>2. CASE p # PatchOf(s)
      <4>1. i \in DOMAIN host[h].objects /\ p \in host[h].objects[i]  BY <2>3, <2>4, <3>2
      <4> QED BY <1>h, <4>1 DEF HostBounded, Below
    <3> QED BY <3>1, <3>2
  <2>7. HostBounded(h, c)'
      BY <1>f, <1>h, <1>m, <1>v, <2>1, <2>6 DEF HostBounded, Under
  <2>8. \A t \in Sessions : SessionBounded(t, c)'
    <3>1. session'[s].vv = session[s].vv /\ session'[s].held = session[s].held
          /\ session'[s].lamport = session[s].lamport
          /\ \A t \in Sessions \ {s} : session'[t] = session[t]
        BY <1>s, <2>1 DEF SessionState, TypeOK, SessionsTyped
    <3> QED BY <3>1 DEF SessionBounded, Bounded, c
  <2>9. ASSUME NEW i \in DOMAIN host'[h].objects, NEW p \in host'[h].objects[i]
        PROVE  p.lamport <= host'[h].maxLamport
    <3>1. CASE p = PatchOf(s)  BY <1>m, <2>1, <2>5, <3>1
    <3>2. CASE p # PatchOf(s)
      <4>1. p \in host[h].objects[i] /\ i \in DOMAIN host[h].objects
          BY <2>3, <2>4, <2>9, <3>2
      <4> QED BY <1>l, <1>m, <2>1, <4>1
    <3> QED BY <3>1, <3>2
  <2> QED BY <1>q, <2>1, <2>7, <2>8, <2>9 DEF c
<1>2. CASE OnCommittedDirty(s)
  <2>1. /\ \A g \in Hosts \ {h} : host'[g] = host[g]
        /\ host'[h].objects = host[h].objects
        /\ host'[h].maxLamport = Max2(host[h].maxLamport, session[s].lamport)
        /\ host'[h].vv = [host[h].vv EXCEPT ![w] = @ + 1]
        /\ session' = Closed(s)
      BY <1>2, DirtyEffect DEF OnCommittedDirty
  <2>2. HostBounded(h, c)'  BY <1>f, <1>h, <1>m, <1>v, <2>1 DEF HostBounded, Under
  <2>3. \A t \in Sessions : SessionBounded(t, c)'
    <3>1. SessionBounded(s, c)' /\ \A t \in Sessions \ {s} : session'[t] = session[t]
        BY <1>n, <1>s, <2>1, ClosedBounded
    <3> QED BY <3>1 DEF SessionBounded, Bounded, c
  <2>4. ASSUME NEW i \in DOMAIN host'[h].objects, NEW p \in host'[h].objects[i]
        PROVE  p.lamport <= host'[h].maxLamport
      BY <1>l, <1>m, <2>1, <2>4
  <2> QED BY <1>q, <2>1, <2>2, <2>3, <2>4 DEF c
<1>3. CASE FinishCommit(s)
  <2> DEFINE o == session[s].object
  <2>1. /\ o \in DOMAIN host[h].objects
        /\ \A g \in Hosts \ {h} : host'[g] = host[g]
        /\ host'[h].objects = host[h].objects
        /\ host'[h].maxLamport = host[h].maxLamport
        /\ host'[h].vv = Observed(host[h].objects[o])
        /\ session' = [Detached(h) EXCEPT ![s] = [Idle EXCEPT !.held = Detached(h)[s].held]]
      BY <1>3, FinishEffect
  <2>2. host[h].objects[o] \in SUBSET Patch /\ Below(host[h].objects[o], c)
      BY <1>h, <2>1 DEF HostState, HostBounded
  <2>3. Under(host'[h].vv, c)  BY <1>n, <2>1, <2>2, ObservedCovers
  <2>4. HostBounded(h, c)'  BY <1>f, <1>h, <2>1, <2>3 DEF HostBounded
  <2>5. \A t \in Sessions : SessionBounded(t, c)'
    <3>1. Detached(h) \in [Sessions -> SessionState]  BY <1>0, DetachedTyped
    <3>2. session'[s].vv = Nothing /\ session'[s].held = Detached(h)[s].held
          /\ session'[s].lamport = 0 /\ \A t \in Sessions \ {s} : session'[t] = Detached(h)[t]
        BY <2>1, <3>1 DEF Idle
    <3>3. Bounded(c)  BY DEF c
    <3> QED BY <1>0, <1>n, <3>2, <3>3, DetachedBounded, NothingUnder DEF SessionBounded
  <2>6. ASSUME NEW i \in DOMAIN host'[h].objects, NEW p \in host'[h].objects[i]
        PROVE  p.lamport <= host'[h].maxLamport
      BY <1>l, <2>1, <2>6
  <2> QED BY <1>q, <2>1, <2>4, <2>5, <2>6 DEF c
<1> QED BY <1>1, <1>2, <1>3

(* What materialize() reduces comes from the chains and the checkpoint. *)
LEMMA ReducedBounded ==
  ASSUME TypeOK, NEW c \in Nat, Bounded(c), NEW f, NEW l PROVE Below(Reduced(f, l), c)
<1>1. Below(PatchesUpTo(f), c)  BY DEF Bounded, PatchesUpTo, Below
<1>2. Below(checkpoint.state, c)  BY DEF Bounded
<1>3. Reduced(f, l) \subseteq PatchesUpTo(f) \cup checkpoint.state
  <2>1. CASE l # 0  BY <2>1 DEF Reduced
  <2>2. CASE l = 0 /\ CheckpointSupports(f)  BY <2>2 DEF Reduced
  <2>3. CASE l = 0 /\ ~CheckpointSupports(f)  BY <2>3 DEF Reduced
  <2> QED BY <2>1, <2>2, <2>3
<1> QED BY <1>1, <1>2, <1>3 DEF Below

LEMMA InstallCovers ==
  ASSUME TypeOK, TypeOK', HeapCovered, NEW c \in Nat, Bounded(c), NEW h \in Hosts,
         MaterializeInstall(h)
  PROVE  Bounded(c)' /\ HeapCovered'
<1> DEFINE r == reader[h].result
           m == Max2(host[h].maxLamport, MaxObserved(r))
<1>1. /\ \A g \in Hosts \ {h} : host'[g] = host[g]
      /\ host'[h].objects = Append(host[h].objects, r)
      /\ host'[h].maxLamport = m
      /\ host'[h].vv = Observed(r)
      /\ session' = Detached(h)
    BY InstallEffect
<1>2. r \in SUBSET Patch /\ Below(r, c) /\ HostBounded(h, c) /\ host[h] \in HostState
    BY DEF TypeOK, ReadersTyped, ReaderState, Bounded, HostBounded, HostsTyped
<1>3. Under(Observed(r), c) /\ MaxObserved(r) <= c /\ \A p \in r : p.lamport <= MaxObserved(r)
    BY <1>2, ObservedCovers, MaxObservedCovers
<1>4. MaxObserved(r) \in Nat /\ host[h].maxLamport \in Nat
    BY <1>2, MaxObservedNat DEF HostState
<1>5. m \in Nat /\ m <= c /\ host[h].maxLamport <= m /\ MaxObserved(r) <= m
    BY <1>2, <1>3, <1>4 DEF HostBounded, Max2
<1>6. UNCHANGED <<chain, checkpointer, checkpoint>>
      /\ \A g \in Hosts : reader'[g].result \in {reader[g].result, {}}
  <2>1. UNCHANGED <<chain, checkpointer, checkpoint>>  BY DEF MaterializeInstall, store
  <2>2. reader' = [reader EXCEPT ![h] = IF reader[h].ceiling = 0
                                        THEN [reader[h] EXCEPT !.pc = "installed"]
                                        ELSE NotReading]
      BY DEF MaterializeInstall
  <2>3. reader \in [Hosts -> ReaderState]  BY DEF TypeOK, ReadersTyped
  <2>4. \A g \in Hosts \ {h} : reader'[g] = reader[g]  BY <2>2, <2>3
  <2>5. reader'[h].result \in {reader[h].result, {}}
      BY <2>2, <2>3 DEF NotReading, ReaderState
  <2> QED BY <2>1, <2>4, <2>5
<1> HIDE DEF m
<1>7. ASSUME NEW i \in DOMAIN host'[h].objects
      PROVE  \/ i \in DOMAIN host[h].objects /\ host'[h].objects[i] = host[h].objects[i]
             \/ host'[h].objects[i] = r
  <2>1. host[h].objects \in Seq(SUBSET Patch) /\ Len(host[h].objects) \in Nat
      BY <1>2 DEF HostState
  <2>2. i \in 1..(Len(host[h].objects) + 1)  BY <1>1, <1>2, <1>7, <2>1
  <2>3. CASE i = Len(host[h].objects) + 1  BY <1>1, <1>2, <2>1, <2>3
  <2>4. CASE i # Len(host[h].objects) + 1  BY <1>1, <1>2, <2>1, <2>2, <2>4
  <2> QED BY <2>3, <2>4
<1>8. HostBounded(h, c)'
  <2>1. \A i \in DOMAIN host'[h].objects : Below(host'[h].objects[i], c)
      BY <1>2, <1>7 DEF HostBounded
  <2>2. Below(reader'[h].result, c)  BY <1>2, <1>6 DEF Below
  <2> QED BY <1>1, <1>2, <1>3, <1>5, <1>6, <2>1, <2>2 DEF HostBounded
<1>9. ASSUME NEW g \in Hosts \ {h} PROVE HostBounded(g, c)'
  <2>1. HostBounded(g, c) /\ host'[g] = host[g] /\ checkpointer'[g] = checkpointer[g]
      BY <1>1, <1>6 DEF Bounded
  <2>2. Below(reader'[g].result, c)  BY <1>6, <2>1 DEF HostBounded, Below
  <2> QED BY <2>1, <2>2 DEF HostBounded
<1>10. \A t \in Sessions : SessionBounded(t, c)'
    BY <1>1, DetachedBounded DEF SessionBounded
<1>11. Bounded(c)'  BY <1>6, <1>8, <1>9, <1>10 DEF Bounded
<1>12. ASSUME NEW i \in DOMAIN host'[h].objects, NEW p \in host'[h].objects[i]
       PROVE  p.lamport <= host'[h].maxLamport
  <2>1. p \in Patch  BY <1>12, <1>2, <1>7 DEF HostState
  <2>2. p.lamport \in Nat  BY <2>1 DEF Patch
  <2>3. CASE p \in r  BY <1>1, <1>3, <1>4, <1>5, <2>2, <2>3
  <2>4. CASE p \notin r
    <3>1. p.lamport <= host[h].maxLamport  BY <1>7, <1>12, <2>4 DEF HeapCovered
    <3> QED BY <1>1, <1>4, <1>5, <2>2, <3>1
  <2> QED BY <2>3, <2>4
<1>13. HeapCovered'  BY <1>1, <1>12 DEF HeapCovered
<1> QED BY <1>11, <1>13

LEMMA ReadCovers ==
  ASSUME TypeOK, HeapCovered, NEW c \in Nat, Bounded(c), NEW h \in Hosts,
         \/ \E l \in Ceilings \cup {0} : MaterializeBegin(h, l)
         \/ MaterializeReduce(h) \/ MaterializeFrontier(h)
  PROVE  Bounded(c)' /\ HeapCovered'
<1>1. UNCHANGED <<chain, session, checkpointer, checkpoint>>
    BY DEF MaterializeBegin, MaterializeReduce, MaterializeFrontier, store
<1>2. \A g \in Hosts : /\ host'[g].objects = host[g].objects /\ host'[g].vv = host[g].vv
                       /\ host'[g].maxLamport = host[g].maxLamport
  <2>1. CASE host' = host  BY <2>1
  <2>2. CASE host' = [host EXCEPT ![h].lastFrontier = Heads]
      BY <2>2 DEF TypeOK, HostsTyped, HostState
  <2> QED BY <2>1, <2>2 DEF MaterializeBegin, MaterializeReduce, MaterializeFrontier
<1>3. ASSUME NEW g \in Hosts PROVE Below(reader'[g].result, c)
  <2>1. Below(reader[g].result, c)  BY DEF Bounded, HostBounded
  <2>2. reader \in [Hosts -> ReaderState]  BY DEF TypeOK, ReadersTyped
  <2>3. reader'[g] = reader[g] \/ reader'[g].result = {}
        \/ reader'[g].result = Reduced(reader[g].frontier, reader[g].ceiling)
    <3>1. CASE \E l \in Ceilings \cup {0} : MaterializeBegin(h, l)
        BY <2>2, <3>1 DEF MaterializeBegin
    <3>2. CASE MaterializeReduce(h)
      <4>1. reader[h] \in ReaderState  BY <2>2
      <4> QED BY <2>2, <3>2, <4>1 DEF MaterializeReduce, ReaderState
    <3>3. CASE MaterializeFrontier(h)  BY <2>2, <3>3 DEF MaterializeFrontier, NotReading
    <3> QED BY <3>1, <3>2, <3>3
  <2> QED BY <2>1, <2>3, ReducedBounded DEF Below
<1>4. \A g \in Hosts : HostBounded(g, c)'  BY <1>1, <1>2, <1>3 DEF Bounded, HostBounded
<1> QED BY <1>1, <1>2, <1>4 DEF Bounded, SessionBounded, HeapCovered

LEMMA CheckpointCovers ==
  ASSUME TypeOK, HeapCovered, NEW c \in Nat, Bounded(c), NEW h \in Hosts,
         CheckpointBegin(h) \/ CheckpointStep(h)
  PROVE  Bounded(c)' /\ HeapCovered'
<1>1. UNCHANGED <<chain, session, host, reader>>
    BY DEF CheckpointBegin, CheckpointStep, CheckpointCapture, CheckpointFails,
           CheckpointEncode, CheckpointPublish, CheckpointConflict, store
<1>2. checkpointer \in [Hosts -> CheckpointerState]  BY DEF TypeOK, CheckpointersTyped
<1>3. ASSUME NEW g \in Hosts
      PROVE  \/ checkpointer'[g].state = checkpointer[g].state
             \/ checkpointer'[g].state = {}
             \/ checkpointer[g].pc = "captured"
                /\ checkpointer'[g].state = host[g].objects[checkpointer[g].object]
  <2>1. checkpointer[g] \in CheckpointerState  BY <1>2
  <2>2. CASE CheckpointBegin(h)
      BY <1>2, <2>1, <2>2 DEF CheckpointBegin, NotCheckpointing, CheckpointerState
  <2>3. CASE CheckpointCapture(h)
      BY <1>2, <2>1, <2>3 DEF CheckpointCapture, CheckpointerState
  <2>4. CASE CheckpointFails(h) \/ CheckpointPublish(h) \/ CheckpointConflict(h)
      BY <1>2, <2>1, <2>4 DEF CheckpointFails, CheckpointPublish, CheckpointConflict,
         NotCheckpointing
  <2>5. CASE CheckpointEncode(h)
      BY <1>2, <2>1, <2>5 DEF CheckpointEncode, CheckpointerState
  <2> QED BY <2>2, <2>3, <2>4, <2>5 DEF CheckpointStep
<1>4. ASSUME NEW g \in Hosts PROVE HostBounded(g, c)'
  <2>1. HostBounded(g, c)  BY DEF Bounded
  <2>2. ASSUME checkpointer[g].pc = "captured"
        PROVE  Below(host[g].objects[checkpointer[g].object], c)
    <3>1. checkpointer[g].object \in DOMAIN host[g].objects
        BY <2>2 DEF TypeOK, CheckpointersTyped, CheckpointerState, HostsTyped, HostState
    <3> QED BY <2>1, <3>1 DEF HostBounded
  <2>3. Below(checkpointer'[g].state, c)  BY <1>3, <2>1, <2>2 DEF HostBounded, Below
  <2> QED BY <1>1, <2>1, <2>3 DEF HostBounded
<1>5. Below(checkpoint'.state, c)
  <2>1. CASE checkpoint' = checkpoint  BY <2>1 DEF Bounded
  <2>2. CASE checkpoint' = [frontier |-> checkpointer[h].frontier, state |-> checkpointer[h].state]
      BY <2>2 DEF Bounded, HostBounded
  <2> QED BY <2>1, <2>2
          DEF CheckpointBegin, CheckpointStep, CheckpointCapture, CheckpointFails,
              CheckpointEncode, CheckpointPublish, CheckpointConflict
<1> QED BY <1>1, <1>4, <1>5 DEF Bounded, SessionBounded, HeapCovered

LEMMA RestartCovers ==
  ASSUME TypeOK, HeapCovered, NEW c \in Nat, Bounded(c), NEW h \in Hosts, Restart(h)
  PROVE  Bounded(c)' /\ HeapCovered'
<1>1. UNCHANGED <<chain, checkpoint>>  BY DEF Restart, store
<1>2. \A g \in Hosts : HostBounded(g, c)'
  <2>1. HostBounded(h, c)'
      BY RestartEffect DEF HostBounded, Opened, NotReading, NotCheckpointing, Below, Under
  <2>2. \A g \in Hosts \ {h} : HostBounded(g, c)'  BY RestartEffect DEF Bounded, HostBounded
  <2> QED BY <2>1, <2>2
<1>3. \A t \in Sessions : SessionBounded(t, c)'
    BY RestartEffect, FreshBounded DEF SessionBounded, Bounded
<1>4. HeapCovered'
  <2>1. host'[h].objects = <<>>  BY RestartEffect DEF Opened
  <2> QED BY <2>1, RestartEffect DEF HeapCovered
<1> QED BY <1>1, <1>2, <1>3, <1>4 DEF Bounded

LEMMA CoverStep == TypeOK /\ TypeOK' /\ CoverInv /\ [Next]_vars => CoverInv'
<1> SUFFICES ASSUME TypeOK, TypeOK', CoverInv, [Next]_vars PROVE CoverInv'  OBVIOUS
<1>1. PICK b \in Nat : Bounded(b)  BY DEF CoverInv
<1>2. HeapCovered  BY DEF CoverInv
<1> DEFINE c == b + Raise
<1>3. MaxAdds \in Nat  BY HostAssumption
<1>4. c \in Nat /\ b <= c  BY <1>3 DEF Raise
<1>5. Bounded(b + Raise)  BY <1>1, <1>4, BoundRaised
<1>6. ASSUME Bounded(c)', HeapCovered' PROVE CoverInv'  BY <1>4, <1>6 DEF CoverInv
<1>7. ASSUME NEW s \in Sessions, OpenWriter(s) \/ BeginPatch(s) \/ CommitStep(s)
      PROVE  Bounded(c)' /\ HeapCovered'
  <2>1. CASE OpenWriter(s) \/ BeginPatch(s) \/ BuildPatch(s) \/ CheckHead(s)
    <3>1. HeapCovered'
        BY <1>2, <2>1 DEF OpenWriter, BeginPatch, BuildPatch, CheckHead, HeapCovered
    <3> QED BY <1>1, <1>5, <2>1, <3>1, BuildCovers
  <2>2. CASE Publish(s) \/ Conflict(s) \/ PublishFails(s) \/ PublishLosesAck(s)
    <3>1. HeapCovered'
        BY <1>2, <2>2 DEF Publish, Conflict, PublishFails, PublishLosesAck, HeapCovered
    <3>2. Bounded(b + Raise)'  BY <1>4, <1>5, <2>2, PublishCovers
    <3> QED BY <3>1, <3>2
  <2>3. CASE OnCommittedEager(s) \/ OnCommittedDirty(s) \/ FinishCommit(s)
      BY <1>1, <1>2, <1>5, <2>3, HookCovers
  <2>4. CASE HookFails(s)
    <3>1. UNCHANGED <<chain, host, reader, checkpointer, checkpoint>> /\ session' = Closed(s)
        BY <2>4 DEF HookFails
    <3>2. SessionBounded(s, b + Raise)' /\ \A t \in Sessions \ {s} : session'[t] = session[t]
        BY <1>4, <1>5, <3>1, ClosedBounded DEF Bounded
    <3>3. Bounded(b + Raise)'
        BY <1>5, <3>1, <3>2 DEF Bounded, HostBounded, SessionBounded
    <3>4. HeapCovered'  BY <1>2, <3>1 DEF HeapCovered
    <3> QED BY <3>3, <3>4
  <2> QED BY <1>7, <2>1, <2>2, <2>3, <2>4 DEF CommitStep
<1>8. ASSUME NEW h \in Hosts,
             \/ \E l \in Ceilings \cup {0} : MaterializeBegin(h, l)
             \/ ReadStep(h) \/ CheckpointBegin(h) \/ CheckpointStep(h) \/ Restart(h)
      PROVE  Bounded(c)' /\ HeapCovered'
  <2> USE <1>2, <1>4, <1>5
  <2> HIDE DEF c
  <2>0. Bounded(c)  BY DEF c
  <2>1. CASE CheckpointBegin(h) \/ CheckpointStep(h)  BY <2>0, <2>1, CheckpointCovers
  <2>2. CASE Restart(h)  BY <2>0, <2>2, RestartCovers
  <2>3. CASE MaterializeInstall(h)  BY <2>0, <2>3, InstallCovers
  <2>4. CASE \/ \E l \in Ceilings \cup {0} : MaterializeBegin(h, l)
             \/ MaterializeReduce(h) \/ MaterializeFrontier(h)
      BY <2>0, <2>4, ReadCovers
  <2> QED BY <1>8, <2>1, <2>2, <2>3, <2>4 DEF ReadStep
<1>9. CASE UNCHANGED vars
  <2>1. Bounded(c)' /\ HeapCovered'
      BY <1>2, <1>5, <1>9 DEF vars, Bounded, HostBounded, SessionBounded, HeapCovered
  <2> QED BY <1>6, <2>1
<1> QED BY <1>6, <1>7, <1>8, <1>9 DEF Next

LEMMA Covers == Spec => [](TypeOK /\ CoverInv)
<1>1. TypeOK /\ CoverInv /\ [Next]_vars => (TypeOK /\ CoverInv)'  BY TypesStep, CoverStep
<1>2. Init => TypeOK /\ CoverInv  BY TypesInit, CoverInit
<1> QED BY <1>1, <1>2, PTL DEF Spec

(* Only createPatch() or beginPatch() starts a patch. *)
LEMMA OnlyBegins ==
  ASSUME TypeOK, Next, NEW s \in Sessions, session[s].pc = "idle", session'[s].pc = "begun"
  PROVE  BeginPatch(s)
<1>0. \A t \in Sessions : session[t] \in SessionState /\ HostOf[t] \in Hosts
    BY HostAssumption DEF TypeOK, SessionsTyped
<1>1. ASSUME NEW t \in Sessions, OpenWriter(t) PROVE FALSE
    BY <1>0, <1>1 DEF OpenWriter, TypeOK, SessionsTyped
<1>2. ASSUME NEW t \in Sessions, BeginPatch(t) PROVE t = s
    BY <1>2 DEF BeginPatch, TypeOK, SessionsTyped
<1>3. ASSUME NEW t \in Sessions, BuildPatch(t) PROVE FALSE
  <2>1. PICK n \in 0..MaxAdds :
          session' = [session EXCEPT ![t].pc = "open",
                                     ![t].vv = [BuilderVector(t) EXCEPT ![WriterOf[t]] = @ + n],
                                     ![t].adds = (BuilderVector(t)[WriterOf[t]] + 1)
                                                 ..(BuilderVector(t)[WriterOf[t]] + n)]
      BY <1>3 DEF BuildPatch
  <2> QED BY <1>0, <2>1 DEF TypeOK, SessionsTyped, SessionState
<1>4. ASSUME NEW t \in Sessions, CheckHead(t) \/ Publish(t) PROVE FALSE
    BY <1>0, <1>4 DEF CheckHead, Publish, TypeOK, SessionsTyped, SessionState
<1>5. ASSUME NEW t \in Sessions, session' = Closed(t) PROVE FALSE
    BY <1>0, <1>5 DEF Closed, Idle, TypeOK, SessionsTyped
<1>6. ASSUME NEW t \in Sessions, OnCommittedEager(t) PROVE FALSE
    BY <1>0, <1>6 DEF OnCommittedEager, TypeOK, SessionsTyped, SessionState
<1>7. ASSUME NEW t \in Sessions, FinishCommit(t) PROVE FALSE
  <2>1. session' = [Detached(HostOf[t]) EXCEPT
                      ![t] = [Idle EXCEPT !.held = Detached(HostOf[t])[t].held]]
      BY <1>7 DEF FinishCommit
  <2>2. Detached(HostOf[t]) \in [Sessions -> SessionState]
        /\ \A u \in Sessions : Detached(HostOf[t])[u].pc = session[u].pc
      BY <1>0, DetachedTyped
  <2> QED BY <2>1, <2>2 DEF Idle
<1>8. ASSUME NEW h \in Hosts, MaterializeInstall(h) PROVE FALSE
    BY <1>8, DetachedTyped DEF MaterializeInstall
<1>9. ASSUME NEW h \in Hosts, Restart(h) PROVE FALSE
    BY <1>0, <1>9, FreshTyped DEF Restart
<1>10. ASSUME NEW h \in Hosts,
             \/ \E l \in Ceilings \cup {0} : MaterializeBegin(h, l)
             \/ MaterializeReduce(h) \/ MaterializeFrontier(h)
             \/ CheckpointBegin(h) \/ CheckpointStep(h)
       PROVE  FALSE
    BY <1>10 DEF MaterializeBegin, MaterializeReduce, MaterializeFrontier,
                 CheckpointBegin, CheckpointStep, CheckpointCapture, CheckpointFails,
                 CheckpointEncode, CheckpointPublish, CheckpointConflict
<1> QED
  BY <1>1, <1>2, <1>3, <1>4, <1>5, <1>6, <1>7, <1>8, <1>9, <1>10
  DEF Next, CommitStep, ReadStep, Conflict, PublishFails, PublishLosesAck, OnCommittedDirty,
      HookFails

(* A tick of createPatch() supersedes everything its author had read:        *)
(* materializations that install out of order, commits that re-install an    *)
(* older object after a hash, and crashes included.                          *)
THEOREM TicksCoverReads == Spec => LamportCoversReads
<1>1. TypeOK /\ CoverInv /\ [Next]_vars =>
        [\A s \in {x \in Sessions : Api[x] = "graph"} :
           session[s].pc = "idle" /\ session'[s].pc = "begun" =>
             \A p \in CachedState(HostOf[s]) : p.lamport < session'[s].lamport]_vars
  <2> SUFFICES ASSUME TypeOK, CoverInv, Next, NEW s \in Sessions, Api[s] = "graph",
                      session[s].pc = "idle", session'[s].pc = "begun",
                      NEW p \in CachedState(HostOf[s])
               PROVE  p.lamport < session'[s].lamport
      OBVIOUS
  <2> DEFINE h == HostOf[s]
  <2>1. BeginPatch(s)  BY OnlyBegins
  <2>2. h \in Hosts /\ WriterOf[s] \in Writers  BY HostAssumption
  <2>3. host[h] \in HostState /\ host[h].cached <= Len(host[h].objects)
      BY <2>2 DEF TypeOK, HostsTyped
  <2>4. host[h].cached \in DOMAIN host[h].objects /\ p \in host[h].objects[host[h].cached]
      BY <2>3 DEF CachedState, HostState
  <2>5. p \in Patch  BY <2>2, CachedStateTyped
  <2>6. p.lamport \in Nat /\ p.lamport <= host[h].maxLamport /\ host[h].maxLamport \in Nat
      BY <2>2, <2>3, <2>4, <2>5 DEF CoverInv, HeapCovered, Patch, HostState
  <2>7. session'[s].lamport = Max2(HeadLamport(WriterOf[s]), host[h].maxLamport) + 1
      BY <2>1 DEF BeginPatch, NextLamport, TypeOK, SessionsTyped, SessionState
  <2>8. HeadLamport(WriterOf[s]) \in Nat  BY <2>2, HeadLamportNat DEF TypeOK
  <2> QED BY <2>6, <2>7, <2>8 DEF Max2
<1> QED BY <1>1, Covers, PTL DEF Spec, LamportCoversReads

-----------------------------------------------------------------------------
(* One call at a time *)

(* What the cache theorems ask of a deployment: each process makes one call  *)
(* at a time, a writer id is used by one process, no answer of the store is  *)
(* lost and no hook fails, only live materializations, and checkpoints in a  *)
(* single process.                                                           *)
Alone == \A g, h \in Hosts : g = h

OneAtATime ==
  /\ "serial" \in Discipline
  /\ "lostAck" \notin Faults /\ "hook" \notin Faults
  /\ Ceilings = {}
  /\ \A s, t \in Sessions : WriterOf[s] = WriterOf[t] => HostOf[s] = HostOf[t]
  /\ MaxCheckpoints = 0 \/ Alone

(* PatchesUpTo, of any chains. *)
Reach(c, f) == UNION {{c[w][i] : i \in {j \in DOMAIN c[w] : j <= f[w]}} : w \in Writers}

InHeads(f) == f \in Frontier /\ \A w \in Writers : f[w] <= Len(chain[w])

Active(s) == session[s].pc \notin {"closed", "idle"}

(* The ref has moved and the host is being told. *)
Landed(s) == session[s].pc \in {"published", "hashing"}

Exclusive ==
  /\ \A h \in Hosts : reader[h].pc # "idle" => checkpointer[h].pc = "idle"
  /\ \A s \in Sessions : Active(s) =>
       /\ reader[HostOf[s]].pc = "idle" /\ checkpointer[HostOf[s]].pc = "idle"
       /\ \A t \in Sessions : HostOf[t] = HostOf[s] /\ Active(t) => t = s

(* Every patch of a chain was committed by a session of that writer. *)
Authored ==
  \A w \in Writers : \A i \in DOMAIN chain[w] :
     chain[w][i].by \in Sessions /\ WriterOf[chain[w][i].by] = w

(* A materialization sees all that its own process has published. *)
ReaderKnows(h) ==
  reader[h].pc # "idle" =>
    /\ InHeads(reader[h].frontier)
    /\ reader[h].ceiling = 0
    /\ \A s \in Sessions : HostOf[s] = h =>
         reader[h].frontier[WriterOf[s]] = Len(chain[WriterOf[s]])
    /\ reader[h].pc = "reduced" => reader[h].result = Reach(chain, reader[h].frontier)

(* A published patch is the tip of its chain until its commit ends. *)
AtTip(s) == Landed(s) => session[s].parent + 1 = Len(chain[WriterOf[s]])

(* The coordinate beside a clean cache is what is in it, and is up to date   *)
(* for the process's own writers, but for the patch being told of.           *)
CacheKnows(h) ==
  Clean(h) =>
    /\ InHeads(host[h].cachedFrontier)
    /\ (\A s \in Sessions : HostOf[s] = h => session[s].pc # "hashing") =>
         CachedState(h) = Reach(chain, host[h].cachedFrontier)
    /\ \A s \in Sessions : HostOf[s] = h =>
         /\ (\A t \in Sessions : WriterOf[t] = WriterOf[s] => ~Landed(t)) =>
              host[h].cachedFrontier[WriterOf[s]] = Len(chain[WriterOf[s]])
         /\ Landed(s) => host[h].cachedFrontier[WriterOf[s]] = session[s].parent

(* While the mutated state is hashed: what will be installed. *)
HashKnows(s) ==
  session[s].pc = "hashing" =>
    LET h == HostOf[s] IN
    /\ Clean(h)
    /\ session[s].object = host[h].cached
    /\ session[s].frontier = [host[h].cachedFrontier EXCEPT ![WriterOf[s]] = session[s].parent + 1]
    /\ CachedState(h) = Reach(chain, session[s].frontier)

CheckpointKnows ==
  checkpoint # NoCheckpoint =>
    InHeads(checkpoint.frontier) /\ checkpoint.state = Reach(chain, checkpoint.frontier)

CheckpointerKnows(h) ==
  checkpointer[h].pc # "idle" =>
    /\ Alone
    /\ checkpointer[h].frontier = Heads
    /\ checkpointer[h].pc = "captured" =>
         Clean(h) /\ checkpointer[h].object = host[h].cached
    /\ checkpointer[h].pc = "encoded" => checkpointer[h].state = Reach(chain, Heads)

SerialInv ==
  /\ Exclusive
  /\ Authored
  /\ \A h \in Hosts : ReaderKnows(h) /\ CacheKnows(h) /\ CheckpointerKnows(h)
  /\ \A s \in Sessions : AtTip(s) /\ HashKnows(s)
  /\ CheckpointKnows

-----------------------------------------------------------------------------
(* Frontiers and what they reach *)

LEMMA ReachMember ==
  ASSUME NEW c, NEW f, NEW p
  PROVE  p \in Reach(c, f) <=>
           \E w \in Writers : \E i \in DOMAIN c[w] : i <= f[w] /\ p = c[w][i]
BY DEF Reach

(* Appending to chains does not change what a frontier of theirs reaches. *)
LEMMA ReachStable ==
  ASSUME NEW c, NEW d, NEW f,
         \A w \in Writers : /\ c[w] \in Seq(Patch) /\ d[w] \in Seq(Patch)
                            /\ Len(c[w]) <= Len(d[w])
                            /\ \A i \in 1..Len(c[w]) : d[w][i] = c[w][i]
                            /\ f[w] \in Nat /\ f[w] <= Len(c[w])
  PROVE  Reach(d, f) = Reach(c, f)
<1>1. ASSUME NEW w \in Writers, NEW i
      PROVE  /\ i \in DOMAIN c[w] /\ i <= f[w] <=> i \in DOMAIN d[w] /\ i <= f[w]
             /\ i \in DOMAIN c[w] => d[w][i] = c[w][i]
  <2>1. c[w] \in Seq(Patch) /\ d[w] \in Seq(Patch) /\ Len(c[w]) <= Len(d[w])
        /\ f[w] \in Nat /\ f[w] <= Len(c[w])
      OBVIOUS
  <2>2. DOMAIN c[w] = 1..Len(c[w]) /\ DOMAIN d[w] = 1..Len(d[w])
        /\ Len(c[w]) \in Nat /\ Len(d[w]) \in Nat
      BY <2>1
  <2> QED BY <2>1, <2>2
<1>2. \A p : p \in Reach(d, f) <=> p \in Reach(c, f)
  <2> SUFFICES ASSUME NEW p PROVE p \in Reach(d, f) <=> p \in Reach(c, f)  OBVIOUS
  <2>1. ASSUME p \in Reach(d, f) PROVE p \in Reach(c, f)
    <3>1. PICK w \in Writers : \E i \in DOMAIN d[w] : i <= f[w] /\ p = d[w][i]
        BY <2>1, ReachMember
    <3>2. PICK i \in DOMAIN d[w] : i <= f[w] /\ p = d[w][i]  BY <3>1
    <3>3. i \in DOMAIN c[w] /\ p = c[w][i]  BY <1>1, <3>2
    <3> QED BY <3>2, <3>3, ReachMember
  <2>2. ASSUME p \in Reach(c, f) PROVE p \in Reach(d, f)
    <3>1. PICK w \in Writers : \E i \in DOMAIN c[w] : i <= f[w] /\ p = c[w][i]
        BY <2>2, ReachMember
    <3>2. PICK i \in DOMAIN c[w] : i <= f[w] /\ p = c[w][i]  BY <3>1
    <3>3. i \in DOMAIN d[w] /\ p = d[w][i]  BY <1>1, <3>2
    <3> QED BY <3>2, <3>3, ReachMember
  <2> QED BY <2>1, <2>2
<1> QED BY <1>2

(* Moving one tip by one adds one patch. *)
LEMMA ReachAdvance ==
  ASSUME NEW c \in [Writers -> Seq(Patch)], NEW f \in Frontier, NEW w \in Writers,
         f[w] + 1 <= Len(c[w])
  PROVE  Reach(c, [f EXCEPT ![w] = f[w] + 1]) = Reach(c, f) \cup {c[w][f[w] + 1]}
<1> DEFINE n == f[w] + 1
           g == [f EXCEPT ![w] = n]
<1>1. f[w] \in Nat /\ n \in Nat /\ c[w] \in Seq(Patch) /\ n \in DOMAIN c[w]
    BY DEF Frontier
<1>2. \A u \in Writers : g[u] = IF u = w THEN n ELSE f[u]  BY DEF Frontier
<1>3. \A u \in Writers : \A i \in DOMAIN c[u] :
        i <= g[u] <=> i <= f[u] \/ (u = w /\ i = n)
  <2> SUFFICES ASSUME NEW u \in Writers, NEW i \in DOMAIN c[u]
               PROVE  i <= g[u] <=> i <= f[u] \/ (u = w /\ i = n)
      OBVIOUS
  <2>1. i \in Nat /\ f[u] \in Nat  BY DEF Frontier
  <2> QED BY <1>1, <1>2, <2>1
<1> HIDE DEF n, g
<1>4. ASSUME NEW p PROVE p \in Reach(c, g) <=> p \in Reach(c, f) \/ p = c[w][n]
    BY <1>1, <1>2, <1>3, <1>4, ReachMember
<1> QED BY <1>4 DEF n, g

(* A later frontier reaches more. *)
LEMMA ReachMore ==
  ASSUME NEW c \in [Writers -> Seq(Patch)], NEW f \in Frontier, NEW g \in Frontier,
         \A w \in Writers : f[w] <= g[w]
  PROVE  Reach(c, f) \subseteq Reach(c, g)
<1> SUFFICES ASSUME NEW p, p \in Reach(c, f) PROVE p \in Reach(c, g)  OBVIOUS
<1>1. PICK w \in Writers : \E i \in DOMAIN c[w] : i <= f[w] /\ p = c[w][i]  BY ReachMember
<1>2. PICK i \in DOMAIN c[w] : i <= f[w] /\ p = c[w][i]  BY <1>1
<1>3. i \in Nat /\ f[w] \in Nat /\ g[w] \in Nat /\ f[w] <= g[w]  BY <1>1, <1>2 DEF Frontier
<1>4. i <= g[w]  BY <1>2, <1>3
<1> QED BY <1>2, <1>4, ReachMember

(* Frontiers that differ only at unborn writers reach the same. *)
LEMMA ReachSame ==
  ASSUME NEW c \in [Writers -> Seq(Patch)], NEW f, NEW g,
         \A w \in Writers : f[w] = g[w] \/ c[w] = <<>>
  PROVE  Reach(c, f) = Reach(c, g)
<1>1. \A w \in Writers : \A i \in DOMAIN c[w] : f[w] = g[w]
  <2> SUFFICES ASSUME NEW w \in Writers, NEW i \in DOMAIN c[w], c[w] = <<>> PROVE FALSE
      OBVIOUS
  <2>1. DOMAIN c[w] = 1..Len(c[w]) /\ Len(c[w]) = 0  OBVIOUS
  <2>2. \A x : x \notin 1..0  OBVIOUS
  <2> QED BY <2>1, <2>2
<1>2. ASSUME NEW p PROVE p \in Reach(c, f) <=> p \in Reach(c, g)
    BY <1>1, <1>2, ReachMember
<1> QED BY <1>2

(* A frontier within the heads, when chains grow. *)
LEMMA InHeadsGrows ==
  ASSUME TypeOK, TypeOK', Grows, NEW f, f \in Frontier,
         \A w \in Writers : f[w] <= Len(chain[w])
  PROVE  /\ \A w \in Writers : f[w] <= Len(chain'[w])
         /\ Reach(chain', f) = Reach(chain, f)
<1>1. \A w \in Writers : /\ chain[w] \in Seq(Patch) /\ chain'[w] \in Seq(Patch)
                         /\ Len(chain[w]) <= Len(chain'[w])
                         /\ \A i \in 1..Len(chain[w]) : chain'[w][i] = chain[w][i]
                         /\ f[w] \in Nat /\ f[w] <= Len(chain[w])
    BY DEF TypeOK, StoreTyped, Grows, Frontier
<1>2. \A w \in Writers : f[w] <= Len(chain'[w])
  <2> SUFFICES ASSUME NEW w \in Writers PROVE f[w] <= Len(chain'[w])  OBVIOUS
  <2>1. Len(chain[w]) \in Nat /\ Len(chain'[w]) \in Nat  BY <1>1
  <2> QED BY <1>1, <2>1
<1> QED BY <1>1, <1>2, ReachStable

-----------------------------------------------------------------------------
(* What a step does not touch *)

LEMMA ReaderKept ==
  ASSUME TypeOK, TypeOK', Grows, NEW h \in Hosts, ReaderKnows(h), reader'[h] = reader[h],
         \A s \in Sessions : HostOf[s] = h => Len(chain'[WriterOf[s]]) = Len(chain[WriterOf[s]])
  PROVE  ReaderKnows(h)'
<1> SUFFICES ASSUME reader[h].pc # "idle"
             PROVE  /\ InHeads(reader[h].frontier)'
                    /\ reader[h].ceiling = 0
                    /\ \A s \in Sessions : HostOf[s] = h =>
                         reader[h].frontier[WriterOf[s]] = Len(chain'[WriterOf[s]])
                    /\ reader[h].pc = "reduced" =>
                         reader[h].result = Reach(chain', reader[h].frontier)
    BY DEF ReaderKnows
<1>1. PICK f : f = reader[h].frontier  OBVIOUS
<1>2. f \in Frontier /\ \A w \in Writers : f[w] <= Len(chain[w])
    BY <1>1 DEF ReaderKnows, InHeads
<1>3. Reach(chain', f) = Reach(chain, f) /\ \A w \in Writers : f[w] <= Len(chain'[w])
    BY <1>2, InHeadsGrows
<1> QED BY <1>1, <1>2, <1>3 DEF ReaderKnows, InHeads

LEMMA CheckpointKept ==
  ASSUME TypeOK, TypeOK', Grows, CheckpointKnows, checkpoint' = checkpoint
  PROVE  CheckpointKnows'
<1> SUFFICES ASSUME checkpoint # NoCheckpoint
             PROVE  InHeads(checkpoint.frontier)'
                    /\ checkpoint.state = Reach(chain', checkpoint.frontier)
    BY DEF CheckpointKnows
<1>1. PICK f : f = checkpoint.frontier  OBVIOUS
<1>2. f \in Frontier /\ \A w \in Writers : f[w] <= Len(chain[w])
    BY <1>1 DEF CheckpointKnows, InHeads
<1>3. Reach(chain', f) = Reach(chain, f) /\ \A w \in Writers : f[w] <= Len(chain'[w])
    BY <1>2, InHeadsGrows
<1> QED BY <1>1, <1>2, <1>3 DEF CheckpointKnows, InHeads

(* The fields of a host that its cache invariant speaks of. *)
SameCache(h) ==
  /\ host'[h].cached = host[h].cached /\ host'[h].dirty = host[h].dirty
  /\ host'[h].objects = host[h].objects
  /\ host'[h].cachedFrontier = host[h].cachedFrontier

(* The sessions of a host, as its cache invariant sees them. *)
SameLanding(h) ==
  \A s \in Sessions : HostOf[s] = h =>
    /\ Landed(s)' <=> Landed(s)
    /\ session'[s].pc = "hashing" <=> session[s].pc = "hashing"
    /\ Landed(s) => session'[s].parent = session[s].parent
    /\ session[s].pc = "hashing" => /\ session'[s].object = session[s].object
                                    /\ session'[s].frontier = session[s].frontier

(* The chains that the sessions of a host write. *)
OwnChainsStay(h) ==
  \A s \in Sessions : HostOf[s] = h => Len(chain'[WriterOf[s]]) = Len(chain[WriterOf[s]])

LEMMA CacheKept ==
  ASSUME OneAtATime, TypeOK, TypeOK', Grows, NEW h \in Hosts, CacheKnows(h),
         SameCache(h), SameLanding(h), OwnChainsStay(h)
  PROVE  CacheKnows(h)'
<1> SUFFICES ASSUME Clean(h)'
             PROVE  /\ InHeads(host[h].cachedFrontier)'
                    /\ (\A s \in Sessions : HostOf[s] = h => session'[s].pc # "hashing") =>
                         CachedState(h)' = Reach(chain', host'[h].cachedFrontier)
                    /\ \A s \in Sessions : HostOf[s] = h =>
                       /\ (\A t \in Sessions : WriterOf[t] = WriterOf[s] => ~Landed(t)') =>
                            host'[h].cachedFrontier[WriterOf[s]] = Len(chain'[WriterOf[s]])
                       /\ Landed(s)' =>
                            host'[h].cachedFrontier[WriterOf[s]] = session'[s].parent
    BY DEF CacheKnows
<1>1. Clean(h)  BY DEF Clean, SameCache
<1>2. PICK f : f = host[h].cachedFrontier  OBVIOUS
<1>3. f \in Frontier /\ \A w \in Writers : f[w] <= Len(chain[w])
    BY <1>1, <1>2 DEF CacheKnows, InHeads
<1>4. Reach(chain', f) = Reach(chain, f) /\ \A w \in Writers : f[w] <= Len(chain'[w])
    BY <1>3, InHeadsGrows
<1>5. CachedState(h)' = CachedState(h) /\ host'[h].cachedFrontier = f
    BY <1>2 DEF CachedState, SameCache
<1>6. InHeads(host[h].cachedFrontier)'  BY <1>3, <1>4, <1>5 DEF InHeads
<1>7. ASSUME \A s \in Sessions : HostOf[s] = h => session'[s].pc # "hashing"
      PROVE  CachedState(h)' = Reach(chain', host'[h].cachedFrontier)
    BY <1>1, <1>2, <1>4, <1>5, <1>7 DEF CacheKnows, SameLanding
<1>8. ASSUME NEW s \in Sessions, HostOf[s] = h,
             \A t \in Sessions : WriterOf[t] = WriterOf[s] => ~Landed(t)'
      PROVE  host'[h].cachedFrontier[WriterOf[s]] = Len(chain'[WriterOf[s]])
  <2>1. \A t \in Sessions : WriterOf[t] = WriterOf[s] => HostOf[t] = h
      BY <1>8 DEF OneAtATime
  <2>2. \A t \in Sessions : WriterOf[t] = WriterOf[s] => ~Landed(t)
      BY <1>8, <2>1 DEF SameLanding
  <2> QED BY <1>1, <1>2, <1>5, <1>8, <2>2 DEF CacheKnows, OwnChainsStay
<1>9. ASSUME NEW s \in Sessions, HostOf[s] = h, Landed(s)'
      PROVE  host'[h].cachedFrontier[WriterOf[s]] = session'[s].parent
    BY <1>1, <1>2, <1>5, <1>9 DEF CacheKnows, SameLanding
<1> QED BY <1>6, <1>7, <1>8, <1>9

LEMMA TipKept ==
  ASSUME NEW h \in Hosts, SameLanding(h), OwnChainsStay(h), NEW s \in Sessions, HostOf[s] = h,
         AtTip(s)
  PROVE  AtTip(s)'
BY DEF AtTip, SameLanding, OwnChainsStay

LEMMA HashKept ==
  ASSUME TypeOK, TypeOK', Grows, NEW h \in Hosts, SameCache(h), SameLanding(h),
         NEW s \in Sessions, HostOf[s] = h, HashKnows(s), CacheKnows(h), AtTip(s)
  PROVE  HashKnows(s)'
<1> SUFFICES ASSUME session'[s].pc = "hashing"
             PROVE  /\ Clean(h)'
                    /\ session'[s].object = host'[h].cached
                    /\ session'[s].frontier = [host'[h].cachedFrontier EXCEPT
                                                 ![WriterOf[s]] = session'[s].parent + 1]
                    /\ CachedState(h)' = Reach(chain', session'[s].frontier)
    BY DEF HashKnows
<1>1. session[s].pc = "hashing" /\ Landed(s)  BY DEF SameLanding, Landed
<1>2. /\ Clean(h) /\ session[s].object = host[h].cached
      /\ session[s].frontier = [host[h].cachedFrontier EXCEPT
                                  ![WriterOf[s]] = session[s].parent + 1]
      /\ CachedState(h) = Reach(chain, session[s].frontier)
    BY <1>1 DEF HashKnows
<1>3. Clean(h)' /\ CachedState(h)' = CachedState(h)
    BY <1>2 DEF Clean, CachedState, SameCache
<1>4. session'[s].object = session[s].object /\ session'[s].frontier = session[s].frontier
      /\ session'[s].parent = session[s].parent
    BY <1>1 DEF SameLanding
<1>5. PICK g : g = host[h].cachedFrontier  OBVIOUS
<1>6. g \in Frontier /\ \A w \in Writers : g[w] <= Len(chain[w])
    BY <1>2, <1>5 DEF CacheKnows, InHeads
<1>7. WriterOf[s] \in Writers /\ session[s].parent \in Nat
    BY HostAssumption DEF TypeOK, SessionsTyped, SessionState
<1>8. PICK f : f = session[s].frontier  OBVIOUS
<1>9. session[s].parent + 1 = Len(chain[WriterOf[s]])  BY <1>1 DEF AtTip
<1>10. f = [g EXCEPT ![WriterOf[s]] = session[s].parent + 1]  BY <1>2, <1>5, <1>8
<1>11. f \in Frontier /\ \A w \in Writers : f[w] <= Len(chain[w])
  <2>1. Len(chain[WriterOf[s]]) \in Nat  BY <1>7 DEF TypeOK, StoreTyped
  <2> QED BY <1>6, <1>7, <1>9, <1>10, <2>1 DEF Frontier
<1>12. Reach(chain', f) = Reach(chain, f)  BY <1>11, InHeadsGrows
<1> QED BY <1>2, <1>3, <1>4, <1>8, <1>12 DEF SameCache

LEMMA CheckpointerKept ==
  ASSUME NEW h \in Hosts, CheckpointerKnows(h), checkpointer'[h] = checkpointer[h],
         host'[h].cached = host[h].cached, host'[h].dirty = host[h].dirty,
         chain' = chain \/ checkpointer[h].pc = "idle"
  PROVE  CheckpointerKnows(h)'
<1>1. CASE checkpointer[h].pc = "idle"  BY <1>1 DEF CheckpointerKnows
<1>2. CASE chain' = chain
  <2>1. Heads' = Heads  BY <1>2 DEF Heads
  <2> QED BY <1>2, <2>1 DEF CheckpointerKnows, Clean
<1> QED BY <1>1, <1>2

(* The other hosts see at most chains that are not theirs grow. *)
LEMMA SerialFrame ==
  ASSUME OneAtATime, TypeOK, TypeOK', Grows, SerialInv, Exclusive', Authored',
         NEW h \in Hosts,
         \A g \in Hosts \ {h} : /\ host'[g] = host[g] /\ reader'[g] = reader[g]
                                /\ checkpointer'[g] = checkpointer[g],
         \A t \in Sessions : HostOf[t] # h =>
            /\ session'[t] = session[t]
            /\ Len(chain'[WriterOf[t]]) = Len(chain[WriterOf[t]]),
         chain' = chain \/ (\A g \in Hosts : checkpointer[g].pc = "idle"),
         ReaderKnows(h)', CacheKnows(h)', CheckpointerKnows(h)', CheckpointKnows',
         \A t \in Sessions : HostOf[t] = h => AtTip(t)' /\ HashKnows(t)'
  PROVE  SerialInv'
<1>1. ASSUME NEW g \in Hosts \ {h}
      PROVE  /\ ReaderKnows(g)' /\ CacheKnows(g)' /\ CheckpointerKnows(g)'
             /\ \A t \in Sessions : HostOf[t] = g => AtTip(t)' /\ HashKnows(t)'
  <2>1. SameCache(g) /\ SameLanding(g) /\ OwnChainsStay(g)
      BY DEF SameCache, SameLanding, OwnChainsStay, Landed
  <2>2. ReaderKnows(g) /\ CacheKnows(g) /\ CheckpointerKnows(g)  BY DEF SerialInv
  <2>3. ReaderKnows(g)'  BY <2>1, <2>2, ReaderKept DEF OwnChainsStay
  <2>4. CacheKnows(g)'  BY <2>1, <2>2, CacheKept
  <2>5. CheckpointerKnows(g)'  BY <2>1, <2>2, CheckpointerKept DEF SameCache
  <2>6. \A t \in Sessions : HostOf[t] = g => AtTip(t)' /\ HashKnows(t)'
      BY <2>1, <2>2, TipKept, HashKept DEF SerialInv
  <2> QED BY <2>3, <2>4, <2>5, <2>6
<1>2. \A t \in Sessions : HostOf[t] \in Hosts  BY HostAssumption
<1> QED BY <1>1, <1>2 DEF SerialInv

-----------------------------------------------------------------------------
(* Steps keep SerialInv *)

(* Nothing starts but in a process that has nothing in flight. *)
LEMMA ExclusiveKept ==
  ASSUME Exclusive,
         \A h \in Hosts : /\ reader'[h].pc # "idle" => reader[h].pc # "idle"
                          /\ checkpointer'[h].pc # "idle" => checkpointer[h].pc # "idle",
         \A s \in Sessions : Active(s)' => Active(s)
  PROVE  Exclusive'
BY HostAssumption DEF Exclusive

LEMMA ExclusiveSession ==
  ASSUME Exclusive, NEW s \in Sessions, Quiet(HostOf[s]),
         reader' = reader, checkpointer' = checkpointer,
         \A t \in Sessions \ {s} : session'[t] = session[t]
  PROVE  Exclusive'
<1>1. \A t \in Sessions : HostOf[t] = HostOf[s] => ~Active(t)  BY DEF Quiet, Active
<1>2. reader[HostOf[s]].pc = "idle" /\ checkpointer[HostOf[s]].pc = "idle"  BY DEF Quiet
<1>3. \A t \in Sessions \ {s} : Active(t)' <=> Active(t)  BY DEF Active
<1> QED BY <1>1, <1>2, <1>3 DEF Exclusive

LEMMA ExclusiveHost ==
  ASSUME Exclusive, NEW h \in Hosts, Quiet(h), session' = session,
         \A g \in Hosts \ {h} : reader'[g] = reader[g] /\ checkpointer'[g] = checkpointer[g],
         reader'[h] = reader[h] \/ checkpointer'[h] = checkpointer[h]
  PROVE  Exclusive'
<1>1. \A t \in Sessions : HostOf[t] = h => ~Active(t)  BY DEF Quiet, Active
<1>2. reader[h].pc = "idle" /\ checkpointer[h].pc = "idle"  BY DEF Quiet
<1>3. \A t \in Sessions : Active(t)' <=> Active(t)  BY DEF Active
<1>4. \A t \in Sessions : HostOf[t] \in Hosts  BY HostAssumption
<1> QED BY <1>1, <1>2, <1>3, <1>4 DEF Exclusive

(* A session moves, and has not published. *)
LEMMA QuietSession ==
  ASSUME OneAtATime, TypeOK, TypeOK', SerialInv, NEW s \in Sessions,
         UNCHANGED <<chain, host, reader, checkpointer, checkpoint>>,
         \A t \in Sessions \ {s} : session'[t] = session[t],
         ~Landed(s), ~Landed(s)',
         (Active(s)' => Active(s)) \/ Quiet(HostOf[s])
  PROVE  SerialInv'
<1> DEFINE h == HostOf[s]
<1>0. h \in Hosts /\ Grows  BY HostAssumption DEF Grows, TypeOK, StoreTyped
<1>1. Exclusive'
  <2>1. CASE Quiet(h)  BY <2>1, ExclusiveSession DEF SerialInv
  <2>2. CASE Active(s)' => Active(s)
    <3>1. \A t \in Sessions : Active(t)' => Active(t)  BY <2>2 DEF Active
    <3> QED BY <3>1, ExclusiveKept DEF SerialInv
  <2> QED BY <2>1, <2>2
<1>2. Authored'  BY DEF SerialInv, Authored
<1>3. SameCache(h) /\ SameLanding(h) /\ OwnChainsStay(h)
    BY DEF SameCache, SameLanding, OwnChainsStay, Landed
<1>4. ReaderKnows(h) /\ CacheKnows(h) /\ CheckpointerKnows(h)  BY <1>0 DEF SerialInv
<1>5. ReaderKnows(h)'  BY <1>0, <1>3, <1>4, ReaderKept DEF OwnChainsStay
<1>6. CacheKnows(h)'  BY <1>0, <1>3, <1>4, CacheKept
<1>7. CheckpointerKnows(h)'  BY <1>0, <1>4, CheckpointerKept
<1>8. \A t \in Sessions : HostOf[t] = h => AtTip(t)' /\ HashKnows(t)'
    BY <1>0, <1>3, <1>4, TipKept, HashKept DEF SerialInv
<1>9. CheckpointKnows'  BY <1>0, CheckpointKept DEF SerialInv
<1> HIDE DEF h
<1>10. \A t \in Sessions : HostOf[t] # h => session'[t] = session[t]  BY DEF h
<1> QED BY <1>0, <1>1, <1>2, <1>5, <1>6, <1>7, <1>8, <1>9, <1>10, SerialFrame

LEMMA SerialBuild ==
  ASSUME OneAtATime, TypeOK, TypeOK', SerialInv, NEW s \in Sessions,
         \/ OpenWriter(s) \/ BeginPatch(s) \/ BuildPatch(s) \/ CheckHead(s)
         \/ Conflict(s) \/ PublishFails(s)
  PROVE  SerialInv'
<1>0. session \in [Sessions -> SessionState]  BY DEF TypeOK, SessionsTyped
<1>1. UNCHANGED <<chain, host, reader, checkpointer, checkpoint>>
      /\ \A t \in Sessions \ {s} : session'[t] = session[t]
    BY <1>0 DEF OpenWriter, BeginPatch, BuildPatch, CheckHead, Conflict, PublishFails, Closed,
       store
<1>2. /\ session[s].pc \in {"closed", "idle", "begun", "open", "checked"}
      /\ session'[s].pc \in {"idle", "begun", "open", "checked"}
      /\ session'[s].pc = "idle" \/ session[s].pc \notin {"closed", "idle"}
         \/ Quiet(HostOf[s])
  <2> USE <1>0
  <2>1. CASE OpenWriter(s)  BY <2>1 DEF OpenWriter, SessionState
  <2>2. CASE BeginPatch(s)
      BY <2>2 DEF BeginPatch, SessionState, MayStart, OneAtATime
  <2>3. CASE BuildPatch(s)
    <3>1. PICK n \in 0..MaxAdds :
            session' = [session EXCEPT ![s].pc = "open",
                                       ![s].vv = [BuilderVector(s) EXCEPT ![WriterOf[s]] = @ + n],
                                       ![s].adds = (BuilderVector(s)[WriterOf[s]] + 1)
                                                   ..(BuilderVector(s)[WriterOf[s]] + n)]
        BY <2>3 DEF BuildPatch
    <3>2. session'[s].pc = "open"  BY <3>1 DEF SessionState
    <3>3. session[s].pc = "begun"  BY <2>3 DEF BuildPatch
    <3> QED BY <3>2, <3>3
  <2>4. CASE CheckHead(s)  BY <2>4 DEF CheckHead, SessionState
  <2>5. CASE Conflict(s) \/ PublishFails(s)
      BY <2>5 DEF Conflict, PublishFails, Closed, Idle
  <2> QED BY <2>1, <2>2, <2>3, <2>4, <2>5
<1>3. ~Landed(s) /\ ~Landed(s)' /\ ((Active(s)' => Active(s)) \/ Quiet(HostOf[s]))
    BY <1>2 DEF Landed, Active
<1> QED BY <1>1, <1>3, QuietSession

(* A chain grows by a patch of this process: the others do not write it, and *)
(* the cache falls one behind until the process is told.                     *)
LEMMA SerialPublish ==
  ASSUME OneAtATime, TypeOK, TypeOK', ChainInv, SerialInv, NEW s \in Sessions, Publish(s)
  PROVE  SerialInv'
<1> DEFINE h == HostOf[s]
           w == WriterOf[s]
<1>0. h \in Hosts /\ w \in Writers /\ chain \in [Writers -> Seq(Patch)]
      /\ session \in [Sessions -> SessionState]
    BY HostAssumption DEF TypeOK, StoreTyped, SessionsTyped
<1>1. Grows /\ chain' = [chain EXCEPT ![w] = Append(@, PatchOf(s))]
    BY AppendStep DEF Publish
<1>2. /\ session[s].pc = "checked" /\ session[s].parent = Len(chain[w])
      /\ session'[s].pc = "published" /\ session'[s].parent = session[s].parent
      /\ \A t \in Sessions \ {s} : session'[t] = session[t]
      /\ UNCHANGED <<host, reader, checkpointer, checkpoint>>
    BY <1>0 DEF Publish, AppendToRef, HeadUnmoved, SessionState
<1>3. \A t \in Sessions \ {s} : HostOf[t] = h => ~Active(t)
    BY <1>2 DEF SerialInv, Exclusive, Active
<1>4. reader[h].pc = "idle" /\ checkpointer[h].pc = "idle"
    BY <1>2 DEF SerialInv, Exclusive, Active
<1>5. PatchOf(s) \in Patch /\ PatchOf(s).by = s
    BY <1>2, PatchOfPatch DEF PatchOf, TypeOK
<1>6. chain'[w] = Append(chain[w], PatchOf(s)) /\ \A u \in Writers \ {w} : chain'[u] = chain[u]
    BY <1>0, <1>1
<1>7. Len(chain'[w]) = Len(chain[w]) + 1 /\ Len(chain[w]) \in Nat
      /\ chain'[w][Len(chain[w]) + 1] = PatchOf(s)
      /\ DOMAIN chain'[w] = 1..(Len(chain[w]) + 1)
      /\ \A i \in 1..Len(chain[w]) : i \in DOMAIN chain[w] /\ chain'[w][i] = chain[w][i]
    BY <1>0, <1>5, <1>6
<1>8. \A t \in Sessions : WriterOf[t] = w => HostOf[t] = h  BY DEF OneAtATime
<1>9. \A t \in Sessions : WriterOf[t] \in Writers /\ HostOf[t] \in Hosts  BY HostAssumption
<1>10. Exclusive'
  <2>1. \A t \in Sessions : Active(t)' => Active(t)  BY <1>2 DEF Active
  <2> QED BY <1>2, <2>1, ExclusiveKept DEF SerialInv
<1>11. Authored'
  <2> SUFFICES ASSUME NEW u \in Writers, NEW i \in DOMAIN chain'[u]
               PROVE  chain'[u][i].by \in Sessions /\ WriterOf[chain'[u][i].by] = u
      BY DEF Authored
  <2>1. CASE u # w  BY <1>6, <2>1 DEF SerialInv, Authored
  <2>2. CASE u = w /\ i = Len(chain[w]) + 1  BY <1>5, <1>7, <2>2
  <2>3. CASE u = w /\ i # Len(chain[w]) + 1
    <3>1. i \in 1..Len(chain[w])  BY <1>7, <2>3
    <3> QED BY <1>7, <2>3, <3>1 DEF SerialInv, Authored
  <2> QED BY <2>1, <2>2, <2>3
<1>12. \A g \in Hosts : checkpointer[g].pc = "idle"
    BY <1>0, <1>4 DEF SerialInv, CheckpointerKnows, Alone
<1>13. \A t \in Sessions : WriterOf[t] # w => Len(chain'[WriterOf[t]]) = Len(chain[WriterOf[t]])
    BY <1>6, <1>9
<1> HIDE DEF h, w
<1>14. ReaderKnows(h)'  BY <1>2, <1>4 DEF ReaderKnows
<1>15. CheckpointerKnows(h)'  BY <1>2, <1>4 DEF CheckpointerKnows
<1>16. CheckpointKnows'  BY <1>1, <1>2, CheckpointKept DEF SerialInv
<1>17. ASSUME NEW t \in Sessions, HostOf[t] = h PROVE AtTip(t)' /\ HashKnows(t)'
  <2>1. CASE t = s  BY <1>2, <1>7, <2>1 DEF AtTip, HashKnows, Landed, w
  <2>2. CASE t # s
    <3>1. session'[t].pc \in {"closed", "idle"}  BY <1>2, <1>3, <1>17, <2>2 DEF Active
    <3> QED BY <3>1 DEF AtTip, HashKnows, Landed
  <2> QED BY <2>1, <2>2
<1>18. CacheKnows(h)'
  <2> SUFFICES ASSUME Clean(h)'
               PROVE  /\ InHeads(host[h].cachedFrontier)'
                      /\ CachedState(h)' = Reach(chain', host'[h].cachedFrontier)
                      /\ \A t \in Sessions : HostOf[t] = h =>
                         /\ (\A u \in Sessions : WriterOf[u] = WriterOf[t] => ~Landed(u)') =>
                              host'[h].cachedFrontier[WriterOf[t]] = Len(chain'[WriterOf[t]])
                         /\ Landed(t)' =>
                              host'[h].cachedFrontier[WriterOf[t]] = session'[t].parent
      BY DEF CacheKnows
  <2>1. Clean(h) /\ CachedState(h)' = CachedState(h)  BY <1>2 DEF Clean, CachedState
  <2>2. PICK f : f = host[h].cachedFrontier  OBVIOUS
  <2>3. f \in Frontier /\ \A u \in Writers : f[u] <= Len(chain[u])
      BY <1>0, <2>1, <2>2 DEF SerialInv, CacheKnows, InHeads
  <2>4. Reach(chain', f) = Reach(chain, f) /\ \A u \in Writers : f[u] <= Len(chain'[u])
      BY <1>1, <2>3, InHeadsGrows
  <2>5. \A t \in Sessions : HostOf[t] = h => ~Landed(t)
      BY <1>2, <1>3 DEF Landed, Active
  <2>6. CachedState(h) = Reach(chain, f)
      BY <1>0, <2>1, <2>2, <2>5 DEF SerialInv, CacheKnows, Landed
  <2>7. \A t \in Sessions : HostOf[t] = h => f[WriterOf[t]] = Len(chain[WriterOf[t]])
    <3> SUFFICES ASSUME NEW t \in Sessions, HostOf[t] = h
                 PROVE  f[WriterOf[t]] = Len(chain[WriterOf[t]])
        OBVIOUS
    <3>1. \A u \in Sessions : WriterOf[u] = WriterOf[t] => ~Landed(u)
        BY <2>5 DEF OneAtATime
    <3> QED BY <1>0, <2>1, <2>2, <3>1 DEF SerialInv, CacheKnows
  <2>8. Landed(s)' /\ \A t \in Sessions \ {s} : HostOf[t] = h => ~Landed(t)'
      BY <1>2, <2>5 DEF Landed
  <2>9. ASSUME NEW t \in Sessions, HostOf[t] = h,
               \A u \in Sessions : WriterOf[u] = WriterOf[t] => ~Landed(u)'
        PROVE  f[WriterOf[t]] = Len(chain'[WriterOf[t]])
    <3>1. WriterOf[t] # w  BY <2>8, <2>9 DEF w
    <3> QED BY <1>13, <2>7, <2>9, <3>1
  <2>10. ASSUME NEW t \in Sessions, HostOf[t] = h, Landed(t)'
         PROVE  f[WriterOf[t]] = session'[t].parent
    <3>1. t = s  BY <2>8, <2>10
    <3> QED BY <1>2, <2>7, <2>10, <3>1 DEF w
  <2>11. host'[h].cachedFrontier = f  BY <1>2, <2>2
  <2>12. InHeads(host[h].cachedFrontier)'  BY <2>3, <2>4, <2>11 DEF InHeads
  <2> QED BY <2>1, <2>4, <2>6, <2>9, <2>10, <2>11, <2>12
<1>19. \A t \in Sessions : HostOf[t] # h =>
          session'[t] = session[t] /\ Len(chain'[WriterOf[t]]) = Len(chain[WriterOf[t]])
    BY <1>2, <1>8, <1>13 DEF h
<1> QED BY <1>0, <1>1, <1>2, <1>10, <1>11, <1>12, <1>14, <1>15, <1>16, <1>17, <1>18, <1>19,
           SerialFrame

(* The cached object takes the patch that was published; what will be        *)
(* installed is known before the hash is there.                              *)
LEMMA SerialEager ==
  ASSUME OneAtATime, TypeOK, TypeOK', ChainInv, SerialInv, NEW s \in Sessions,
         OnCommittedEager(s)
  PROVE  SerialInv'
<1> DEFINE h == HostOf[s]
           w == WriterOf[s]
<1>0. h \in Hosts /\ w \in Writers /\ chain \in [Writers -> Seq(Patch)]
      /\ session \in [Sessions -> SessionState] /\ host[h] \in HostState
    BY HostAssumption DEF TypeOK, StoreTyped, SessionsTyped, HostsTyped
<1>1. /\ Clean(h) /\ session[s].pc = "published"
      /\ host[h].cached \in DOMAIN host[h].objects
      /\ \A g \in Hosts \ {h} : host'[g] = host[g]
      /\ host'[h].objects = [host[h].objects EXCEPT ![host[h].cached] = Applied(s)]
      /\ host'[h].cached = host[h].cached
      /\ host'[h].dirty = host[h].dirty
      /\ host'[h].cachedFrontier = host[h].cachedFrontier
      /\ session' = [session EXCEPT ![s] =
           [session[s] EXCEPT !.pc = "hashing", !.object = host[h].cached,
                              !.frontier = Advanced(s)]]
    BY EagerEffect
<1>2. /\ session'[s].pc = "hashing" /\ session'[s].object = host[h].cached
      /\ session'[s].frontier = Advanced(s) /\ session'[s].parent = session[s].parent
      /\ \A t \in Sessions \ {s} : session'[t] = session[t]
    BY <1>0, <1>1 DEF SessionState
<1>3. UNCHANGED <<chain, reader, checkpointer, checkpoint>>  BY DEF OnCommittedEager, store
<1>4. Grows  BY <1>0, <1>3 DEF Grows
<1>5. Landed(s) /\ Active(s)  BY <1>1 DEF Landed, Active
<1>6. \A t \in Sessions \ {s} : HostOf[t] = h => ~Active(t) /\ ~Landed(t)
    BY <1>5 DEF SerialInv, Exclusive, Active, Landed
<1>7. reader[h].pc = "idle" /\ checkpointer[h].pc = "idle"
    BY <1>5 DEF SerialInv, Exclusive
<1>8. session[s].parent \in Nat /\ session[s].parent + 1 = Len(chain[w])
      /\ chain[w][session[s].parent + 1] = PatchOf(s)
    BY <1>0, <1>1, <1>5 DEF SerialInv, AtTip, ChainInv, InFlight, SessionState
<1>9. PICK f : f = host[h].cachedFrontier  OBVIOUS
<1>10. /\ f \in Frontier /\ \A u \in Writers : f[u] <= Len(chain[u])
       /\ CachedState(h) = Reach(chain, f) /\ f[w] = session[s].parent
  <2>1. CacheKnows(h)  BY <1>0 DEF SerialInv
  <2>2. \A t \in Sessions : HostOf[t] = h => session[t].pc # "hashing"
      BY <1>1, <1>6 DEF Landed
  <2> QED BY <1>1, <1>5, <1>9, <2>1, <2>2 DEF CacheKnows, InHeads
<1>11. CachedState(h)' = Applied(s)
  <2>1. host[h].cached # 0  BY <1>1 DEF Clean
  <2>2. host'[h].objects[host'[h].cached] = Applied(s)
      BY <1>0, <1>1 DEF HostState
  <2> QED BY <1>1, <2>1, <2>2 DEF CachedState
<1> DEFINE n == f[w] + 1
           k == [f EXCEPT ![w] = n]
<1>12. Advanced(s) = k
  <2>1. f # Nothing
    <3>1. DOMAIN f = Writers /\ DOMAIN Nothing = {}  BY <1>10 DEF Frontier, Nothing
    <3> QED BY <1>0, <3>1
  <2> QED BY <1>9, <1>10, <2>1 DEF Advanced
<1>13. Applied(s) = Reach(chain, k)
  <2>1. f[w] + 1 <= Len(chain[w])  BY <1>8, <1>10
  <2>2. Reach(chain, k) = Reach(chain, f) \cup {chain[w][f[w] + 1]}
    <3> HIDE DEF w
    <3>1. w \in Writers /\ chain \in [Writers -> Seq(Patch)] /\ f \in Frontier  BY <1>0, <1>10
    <3>2. Reach(chain, [f EXCEPT ![w] = f[w] + 1]) = Reach(chain, f) \cup {chain[w][f[w] + 1]}
        BY <2>1, <3>1, ReachAdvance, Zenon
    <3> QED BY <3>2
  <2> QED BY <1>8, <1>10, <2>2 DEF Applied
<1> HIDE DEF h, w, n, k
<1>14. Exclusive'
  <2>1. \A t \in Sessions : Active(t)' => Active(t)  BY <1>2, <1>5 DEF Active
  <2> QED BY <1>3, <2>1, ExclusiveKept DEF SerialInv
<1>15. Authored'  BY <1>3 DEF SerialInv, Authored
<1>16. ReaderKnows(h)' /\ CheckpointerKnows(h)'
    BY <1>3, <1>7 DEF ReaderKnows, CheckpointerKnows
<1>17. CheckpointKnows'  BY <1>3, <1>4, CheckpointKept DEF SerialInv
<1>18. Landed(s)' /\ \A t \in Sessions \ {s} : HostOf[t] = h => ~Landed(t)'
    BY <1>2, <1>6 DEF Landed
<1>19. CacheKnows(h)'
  <2>1. InHeads(host[h].cachedFrontier)'  BY <1>1, <1>3, <1>9, <1>10 DEF InHeads
  <2>2. ~(\A t \in Sessions : HostOf[t] = h => session'[t].pc # "hashing")  BY <1>2 DEF h
  <2>3. ASSUME NEW t \in Sessions, HostOf[t] = h,
               \A u \in Sessions : WriterOf[u] = WriterOf[t] => ~Landed(u)'
        PROVE  host'[h].cachedFrontier[WriterOf[t]] = Len(chain'[WriterOf[t]])
    <3>1. WriterOf[t] # w  BY <1>18, <2>3 DEF w
    <3>2. \A u \in Sessions : WriterOf[u] = WriterOf[t] => u # s /\ HostOf[u] = h
        BY <2>3, <3>1 DEF OneAtATime, w
    <3>3. \A u \in Sessions : WriterOf[u] = WriterOf[t] => ~Landed(u)  BY <1>6, <3>2
    <3> QED BY <1>0, <1>1, <1>3, <2>3, <3>3 DEF SerialInv, CacheKnows
  <2>4. ASSUME NEW t \in Sessions, HostOf[t] = h, Landed(t)'
        PROVE  host'[h].cachedFrontier[WriterOf[t]] = session'[t].parent
    <3>1. t = s  BY <1>18, <2>4
    <3> QED BY <1>1, <1>2, <1>9, <1>10, <3>1 DEF w
  <2> QED BY <2>1, <2>2, <2>3, <2>4 DEF CacheKnows
<1>20. ASSUME NEW t \in Sessions, HostOf[t] = h PROVE AtTip(t)' /\ HashKnows(t)'
  <2>1. CASE t # s
    <3>1. ~Landed(t)'  BY <1>18, <1>20, <2>1
    <3> QED BY <3>1 DEF AtTip, HashKnows, Landed
  <2>2. CASE t = s
    <3>1. AtTip(s)'  BY <1>2, <1>3, <1>8 DEF AtTip, w
    <3>2. Clean(h)'  BY <1>1 DEF Clean
    <3>3. session'[s].frontier = [host'[h].cachedFrontier EXCEPT ![w] = session'[s].parent + 1]
        BY <1>1, <1>2, <1>9, <1>10, <1>12 DEF k, n
    <3>4. CachedState(h)' = Reach(chain', session'[s].frontier)
        BY <1>2, <1>3, <1>11, <1>12, <1>13
    <3> QED BY <1>1, <1>2, <2>2, <3>1, <3>2, <3>3, <3>4 DEF HashKnows, h, w
  <2> QED BY <2>1, <2>2
<1>21. \A t \in Sessions : HostOf[t] # h => session'[t] = session[t]  BY <1>2 DEF h
<1> QED BY <1>0, <1>1, <1>3, <1>4, <1>14, <1>15, <1>16, <1>17, <1>19, <1>20, <1>21, SerialFrame

(* A dirty cache claims nothing. *)
LEMMA SerialDirty ==
  ASSUME OneAtATime, TypeOK, TypeOK', SerialInv, NEW s \in Sessions, OnCommittedDirty(s)
  PROVE  SerialInv'
<1> DEFINE h == HostOf[s]
<1>0. h \in Hosts /\ chain \in [Writers -> Seq(Patch)] /\ session \in [Sessions -> SessionState]
    BY HostAssumption DEF TypeOK, StoreTyped, SessionsTyped
<1>1. /\ session[s].pc = "published"
      /\ \A g \in Hosts \ {h} : host'[g] = host[g]
      /\ host'[h].dirty = TRUE
      /\ session' = [session EXCEPT ![s] = [Idle EXCEPT !.held = session[s].held]]
    BY DirtyEffect
<1>2. session'[s].pc = "idle" /\ \A t \in Sessions \ {s} : session'[t] = session[t]
    BY <1>0, <1>1 DEF Idle
<1>3. UNCHANGED <<chain, reader, checkpointer, checkpoint>>  BY DEF OnCommittedDirty
<1>4. Grows  BY <1>0, <1>3 DEF Grows
<1>5. Active(s)  BY <1>1 DEF Active
<1>6. \A t \in Sessions \ {s} : HostOf[t] = h => ~Active(t)
    BY <1>5 DEF SerialInv, Exclusive
<1>7. reader[h].pc = "idle" /\ checkpointer[h].pc = "idle"
    BY <1>5 DEF SerialInv, Exclusive
<1> HIDE DEF h
<1>8. Exclusive'
  <2>1. \A t \in Sessions : Active(t)' => Active(t)  BY <1>2 DEF Active
  <2> QED BY <1>3, <2>1, ExclusiveKept DEF SerialInv
<1>9. Authored'  BY <1>3 DEF SerialInv, Authored
<1>10. ReaderKnows(h)' /\ CheckpointerKnows(h)'
    BY <1>3, <1>7 DEF ReaderKnows, CheckpointerKnows
<1>11. CheckpointKnows'  BY <1>3, <1>4, CheckpointKept DEF SerialInv
<1>12. CacheKnows(h)'  BY <1>1 DEF CacheKnows, Clean
<1>13. \A t \in Sessions : HostOf[t] = h => AtTip(t)' /\ HashKnows(t)'
    BY <1>2, <1>6 DEF AtTip, HashKnows, Landed, Active
<1>14. \A t \in Sessions : HostOf[t] # h => session'[t] = session[t]  BY <1>2 DEF h
<1> QED BY <1>0, <1>1, <1>3, <1>4, <1>8, <1>9, <1>10, <1>11, <1>12, <1>13, <1>14, SerialFrame

LEMMA SerialFinish ==
  ASSUME OneAtATime, TypeOK, TypeOK', SerialInv, NEW s \in Sessions, FinishCommit(s)
  PROVE  SerialInv'
<1> DEFINE h == HostOf[s]
           w == WriterOf[s]
           o == session[s].object
<1>0. h \in Hosts /\ w \in Writers /\ chain \in [Writers -> Seq(Patch)]
      /\ session \in [Sessions -> SessionState]
    BY HostAssumption DEF TypeOK, StoreTyped, SessionsTyped
<1>1. /\ session[s].pc = "hashing"
      /\ \A g \in Hosts \ {h} : host'[g] = host[g]
      /\ host'[h].objects = host[h].objects
      /\ host'[h].cached = o
      /\ host'[h].dirty = FALSE
      /\ host'[h].cachedFrontier = session[s].frontier
      /\ session' = [Detached(h) EXCEPT ![s] = [Idle EXCEPT !.held = Detached(h)[s].held]]
    BY FinishEffect
<1>2. session'[s].pc = "idle"
      /\ \A t \in Sessions \ {s} : session'[t] = Detached(h)[t] /\ session'[t].pc = session[t].pc
    BY <1>0, <1>1, DetachedTyped DEF Idle
<1>3. UNCHANGED <<chain, reader, checkpointer, checkpoint>>  BY DEF FinishCommit
<1>4. Grows  BY <1>0, <1>3 DEF Grows
<1>5. Active(s) /\ Landed(s)  BY <1>1 DEF Active, Landed
<1>6. \A t \in Sessions \ {s} : HostOf[t] = h => ~Active(t)
    BY <1>5 DEF SerialInv, Exclusive
<1>7. reader[h].pc = "idle" /\ checkpointer[h].pc = "idle"
    BY <1>5 DEF SerialInv, Exclusive
<1>8. session[s].parent \in Nat /\ session[s].parent + 1 = Len(chain[w])
    BY <1>0, <1>5 DEF SerialInv, AtTip, SessionState
<1>9. PICK f : f = host[h].cachedFrontier  OBVIOUS
<1>10. PICK k : k = session[s].frontier  OBVIOUS
<1>11. /\ Clean(h) /\ o = host[h].cached /\ k = [f EXCEPT ![w] = session[s].parent + 1]
       /\ CachedState(h) = Reach(chain, k)
    BY <1>1, <1>9, <1>10 DEF SerialInv, HashKnows
<1>12. f \in Frontier /\ \A u \in Writers : f[u] <= Len(chain[u])
    BY <1>0, <1>9, <1>11 DEF SerialInv, CacheKnows, InHeads
<1>13. k \in Frontier /\ k[w] = Len(chain[w]) /\ \A u \in Writers \ {w} : k[u] = f[u]
    BY <1>0, <1>8, <1>11, <1>12 DEF Frontier
<1>14. \A u \in Writers : k[u] <= Len(chain[u])
  <2>1. Len(chain[w]) \in Nat  BY <1>0
  <2> QED BY <1>12, <1>13, <2>1
<1>15. CachedState(h)' = CachedState(h)  BY <1>1, <1>11 DEF CachedState
<1>16. \A t \in Sessions : HostOf[t] # h => session'[t] = session[t]
    BY <1>2 DEF Detached
<1> HIDE DEF h, w, o
<1>17. Exclusive'
  <2>1. \A t \in Sessions : Active(t)' => Active(t)  BY <1>2 DEF Active
  <2> QED BY <1>3, <2>1, ExclusiveKept DEF SerialInv
<1>18. Authored'  BY <1>3 DEF SerialInv, Authored
<1>19. ReaderKnows(h)' /\ CheckpointerKnows(h)'
    BY <1>3, <1>7 DEF ReaderKnows, CheckpointerKnows
<1>20. CheckpointKnows'  BY <1>3, <1>4, CheckpointKept DEF SerialInv
<1>21. \A t \in Sessions : HostOf[t] = h => ~Landed(t)' /\ session'[t].pc # "hashing"
    BY <1>2, <1>6 DEF Landed, Active
<1>22. \A t \in Sessions : HostOf[t] = h => AtTip(t)' /\ HashKnows(t)'
    BY <1>21 DEF AtTip, HashKnows
<1>23. CacheKnows(h)'
  <2>1. InHeads(host[h].cachedFrontier)'  BY <1>1, <1>3, <1>10, <1>13, <1>14 DEF InHeads
  <2>2. CachedState(h)' = Reach(chain', host'[h].cachedFrontier)
      BY <1>1, <1>3, <1>10, <1>11, <1>15
  <2>3. ASSUME NEW t \in Sessions, HostOf[t] = h PROVE k[WriterOf[t]] = Len(chain[WriterOf[t]])
    <3>1. CASE WriterOf[t] = w  BY <1>13, <3>1
    <3>2. CASE WriterOf[t] # w
      <4>1. \A u \in Sessions : WriterOf[u] = WriterOf[t] => u # s /\ HostOf[u] = h
          BY <2>3, <3>2 DEF OneAtATime, w
      <4>2. \A u \in Sessions : WriterOf[u] = WriterOf[t] => ~Landed(u)
          BY <1>6, <4>1 DEF Landed, Active
      <4>3. f[WriterOf[t]] = Len(chain[WriterOf[t]])
          BY <1>0, <1>9, <1>11, <2>3, <4>2 DEF SerialInv, CacheKnows
      <4> QED BY <1>13, <3>2, <4>3, HostAssumption
    <3> QED BY <3>1, <3>2
  <2> QED BY <1>1, <1>3, <1>10, <1>21, <2>1, <2>2, <2>3 DEF CacheKnows
<1> QED BY <1>0, <1>1, <1>3, <1>4, <1>16, <1>17, <1>18, <1>19, <1>20, <1>22, <1>23, SerialFrame

(* Steps of a host that has no commit in progress leave its sessions as far  *)
(* as the invariant sees them, and the chains.                               *)
LEMMA SerialHostStep ==
  ASSUME OneAtATime, TypeOK, TypeOK', SerialInv, Exclusive', NEW h \in Hosts, chain' = chain,
         \A g \in Hosts \ {h} : /\ host'[g] = host[g] /\ reader'[g] = reader[g]
                                /\ checkpointer'[g] = checkpointer[g],
         \A t \in Sessions : /\ HostOf[t] # h => session'[t] = session[t]
                             /\ HostOf[t] = h => ~Landed(t)',
         ReaderKnows(h)', CacheKnows(h)', CheckpointerKnows(h)', CheckpointKnows'
  PROVE  SerialInv'
<1>1. Grows  BY DEF Grows, TypeOK, StoreTyped
<1>2. Authored'  BY DEF SerialInv, Authored
<1>3. \A t \in Sessions : HostOf[t] = h => AtTip(t)' /\ HashKnows(t)'
    BY DEF AtTip, HashKnows, Landed
<1> QED BY <1>1, <1>2, <1>3, SerialFrame

(* A process that reads or checkpoints has no commit in progress. *)
LEMMA NoneLanded ==
  ASSUME SerialInv, NEW h \in Hosts,
         reader[h].pc # "idle" \/ checkpointer[h].pc # "idle" \/ Quiet(h)
  PROVE  \A t \in Sessions : HostOf[t] = h => ~Active(t) /\ ~Landed(t)
BY DEF SerialInv, Exclusive, Quiet, Active, Landed

(* With checkpoints exact, starting from one or not makes no difference. *)
LEMMA ReducedIsReach ==
  ASSUME TypeOK, CheckpointKnows, NEW f, f \in Frontier PROVE Reduced(f, 0) = Reach(chain, f)
<1>0. chain \in [Writers -> Seq(Patch)]  BY DEF TypeOK, StoreTyped
<1>1. CASE CheckpointSupports(f)
  <2>1. PICK g : g = checkpoint.frontier  OBVIOUS
  <2>2. g \in Frontier /\ checkpoint.state = Reach(chain, g) /\ \A w \in Writers : g[w] <= f[w]
      BY <1>1, <2>1 DEF CheckpointSupports, CheckpointKnows, InHeads
  <2>3. Reach(chain, g) \subseteq Reach(chain, f)  BY <1>0, <2>2, ReachMore
  <2>4. Reduced(f, 0) = checkpoint.state \cup (PatchesUpTo(f) \ PatchesUpTo(checkpoint.frontier))
      BY <1>1 DEF Reduced
  <2>5. PatchesUpTo(f) = Reach(chain, f) /\ PatchesUpTo(checkpoint.frontier) = Reach(chain, g)
      BY <2>1 DEF PatchesUpTo, Reach
  <2> QED BY <2>2, <2>3, <2>4, <2>5
<1>2. CASE ~CheckpointSupports(f)
  <2>1. Reduced(f, 0) = PatchesUpTo(f)  BY <1>2 DEF Reduced
  <2> QED BY <2>1 DEF PatchesUpTo, Reach
<1> QED BY <1>1, <1>2

LEMMA SerialRead ==
  ASSUME OneAtATime, TypeOK, TypeOK', SerialInv, NEW h \in Hosts,
         \/ \E c \in Ceilings \cup {0} : MaterializeBegin(h, c)
         \/ MaterializeReduce(h) \/ MaterializeFrontier(h)
  PROVE  SerialInv'
<1>0. chain \in [Writers -> Seq(Patch)] /\ reader \in [Hosts -> ReaderState]
      /\ host \in [Hosts -> HostState]
    BY DEF TypeOK, StoreTyped, ReadersTyped, HostsTyped
<1>1. UNCHANGED <<chain, session, checkpointer, checkpoint>>
    BY DEF MaterializeBegin, MaterializeReduce, MaterializeFrontier, store
<1>2. Grows  BY <1>0, <1>1 DEF Grows
<1>3. (\A g \in Hosts : SameCache(g)) /\ \A g \in Hosts \ {h} : host'[g] = host[g]
  <2>1. CASE host' = host  BY <2>1 DEF SameCache
  <2>2. CASE host' = [host EXCEPT ![h].lastFrontier = Heads]
      BY <1>0, <2>2 DEF SameCache, HostState
  <2> QED BY <2>1, <2>2 DEF MaterializeBegin, MaterializeReduce, MaterializeFrontier
<1>4. SameLanding(h) /\ OwnChainsStay(h)
    BY <1>1 DEF SameLanding, OwnChainsStay, Landed
<1>5. CacheKnows(h)'  BY <1>2, <1>3, <1>4, CacheKept DEF SerialInv
<1>6. CheckpointerKnows(h)'  BY <1>1, <1>3, CheckpointerKept DEF SerialInv, SameCache
<1>7. CheckpointKnows'  BY <1>1, <1>2, CheckpointKept DEF SerialInv
<1>q. ASSUME Exclusive', ReaderKnows(h)', \A g \in Hosts \ {h} : reader'[g] = reader[g],
             reader[h].pc # "idle" \/ Quiet(h)
      PROVE  SerialInv'
  <2>1. \A t \in Sessions : HostOf[t] = h => ~Landed(t)'
      BY <1>1, <1>q, NoneLanded DEF Landed
  <2> QED BY <1>1, <1>3, <1>5, <1>6, <1>7, <1>q, <2>1, SerialHostStep
<1>8. ASSUME NEW c \in Ceilings \cup {0}, MaterializeBegin(h, c) PROVE SerialInv'
  <2>1. c = 0  BY DEF OneAtATime
  <2>2. Quiet(h)  BY <1>8 DEF MaterializeBegin, MayStart, OneAtATime
  <2>3. reader' = [reader EXCEPT ![h] = [pc |-> "reading", frontier |-> Heads,
                                          ceiling |-> c, result |-> {}]]
      BY <1>8 DEF MaterializeBegin
  <2>4. /\ reader'[h].pc = "reading" /\ reader'[h].frontier = Heads /\ reader'[h].ceiling = 0
        /\ \A g \in Hosts \ {h} : reader'[g] = reader[g]
      BY <1>0, <2>1, <2>3
  <2>5. Exclusive'  BY <1>1, <2>2, <2>4, ExclusiveHost DEF SerialInv
  <2>6. Heads \in Frontier /\ \A w \in Writers : Heads[w] = Len(chain[w]) /\ Len(chain[w]) \in Nat
      BY <1>0, HeadsFrontier DEF Heads, TypeOK
  <2>7. InHeads(reader[h].frontier)'  BY <1>1, <2>4, <2>6 DEF InHeads
  <2>8. ReaderKnows(h)'
      BY <1>1, <2>4, <2>6, <2>7, HostAssumption DEF ReaderKnows
  <2> QED BY <1>q, <2>2, <2>4, <2>5, <2>8
<1>9. CASE MaterializeReduce(h)
  <2>1. /\ reader[h].pc = "reading"
        /\ reader' = [reader EXCEPT ![h].pc = "reduced",
                        ![h].result = Reduced(reader[h].frontier, reader[h].ceiling)]
      BY <1>9 DEF MaterializeReduce
  <2>2. reader[h] \in ReaderState  BY <1>0
  <2>3. /\ reader'[h].pc = "reduced" /\ reader'[h].frontier = reader[h].frontier
        /\ reader'[h].ceiling = reader[h].ceiling
        /\ reader'[h].result = Reduced(reader[h].frontier, reader[h].ceiling)
        /\ \A g \in Hosts \ {h} : reader'[g] = reader[g]
      BY <1>0, <2>1, <2>2 DEF ReaderState
  <2>4. Exclusive'
    <3>1. \A g \in Hosts : reader'[g].pc # "idle" => reader[g].pc # "idle"
        BY <2>1, <2>3
    <3>2. \A t \in Sessions : Active(t)' => Active(t)  BY <1>1 DEF Active
    <3> QED BY <1>1, <3>1, <3>2, ExclusiveKept DEF SerialInv
  <2>5. ReaderKnows(h)  BY DEF SerialInv
  <2>6. PICK f : f = reader[h].frontier  OBVIOUS
  <2>7. f \in Frontier /\ reader[h].ceiling = 0  BY <2>1, <2>5, <2>6 DEF ReaderKnows, InHeads
  <2>8. reader'[h].result = Reach(chain, f)
      BY <2>3, <2>6, <2>7, ReducedIsReach DEF SerialInv
  <2>9. InHeads(reader[h].frontier)'  BY <1>1, <2>1, <2>3, <2>5 DEF ReaderKnows, InHeads
  <2>10. ReaderKnows(h)'
      BY <1>1, <2>1, <2>3, <2>5, <2>6, <2>8, <2>9 DEF ReaderKnows
  <2> QED BY <1>q, <2>1, <2>3, <2>4, <2>10
<1>10. CASE MaterializeFrontier(h)
  <2>1. reader[h].pc = "installed" /\ reader' = [reader EXCEPT ![h] = NotReading]
      BY <1>10 DEF MaterializeFrontier
  <2>2. reader'[h].pc = "idle" /\ \A g \in Hosts \ {h} : reader'[g] = reader[g]
      BY <1>0, <2>1 DEF NotReading
  <2>3. Exclusive'
    <3>1. \A g \in Hosts : reader'[g].pc # "idle" => reader[g].pc # "idle"  BY <2>2
    <3>2. \A t \in Sessions : Active(t)' => Active(t)  BY <1>1 DEF Active
    <3> QED BY <1>1, <3>1, <3>2, ExclusiveKept DEF SerialInv
  <2>4. ReaderKnows(h)'  BY <2>2 DEF ReaderKnows
  <2> QED BY <1>q, <2>1, <2>2, <2>3, <2>4
<1> QED BY <1>8, <1>9, <1>10

LEMMA SerialInstall ==
  ASSUME OneAtATime, TypeOK, TypeOK', SerialInv, NEW h \in Hosts, MaterializeInstall(h)
  PROVE  SerialInv'
<1> DEFINE n == Len(host[h].objects) + 1
<1>0. chain \in [Writers -> Seq(Patch)] /\ reader \in [Hosts -> ReaderState]
      /\ host[h] \in HostState
    BY DEF TypeOK, StoreTyped, ReadersTyped, HostsTyped
<1>1. /\ reader[h].pc = "reduced"
      /\ \A g \in Hosts \ {h} : host'[g] = host[g]
      /\ host'[h].objects = Append(host[h].objects, reader[h].result)
      /\ host'[h].cached = n /\ n # 0
      /\ host'[h].dirty = FALSE
      /\ host'[h].cachedFrontier = reader[h].frontier
      /\ session' = Detached(h)
    BY InstallEffect
<1>2. UNCHANGED <<chain, checkpointer, checkpoint>>  BY DEF MaterializeInstall, store
<1>3. Grows  BY <1>0, <1>2 DEF Grows
<1>4. PICK f : f = reader[h].frontier  OBVIOUS
<1>5. /\ f \in Frontier /\ \A w \in Writers : f[w] <= Len(chain[w])
      /\ reader[h].ceiling = 0
      /\ reader[h].result = Reach(chain, f)
      /\ \A s \in Sessions : HostOf[s] = h => f[WriterOf[s]] = Len(chain[WriterOf[s]])
    BY <1>1, <1>4 DEF SerialInv, ReaderKnows, InHeads
<1>6. /\ reader'[h].pc = "installed" /\ reader'[h].frontier = f /\ reader'[h].ceiling = 0
      /\ \A g \in Hosts \ {h} : reader'[g] = reader[g]
  <2>1. reader' = [reader EXCEPT ![h] = IF reader[h].ceiling = 0
                                        THEN [reader[h] EXCEPT !.pc = "installed"]
                                        ELSE NotReading]
      BY DEF MaterializeInstall
  <2>2. reader[h] \in ReaderState  BY <1>0
  <2> QED BY <1>0, <1>4, <1>5, <2>1, <2>2 DEF ReaderState
<1>7. \A t \in Sessions : session'[t].pc = session[t].pc  BY <1>1, DetachedTyped
<1>8. \A t \in Sessions : HostOf[t] # h => session'[t] = session[t]  BY <1>1 DEF Detached
<1>9. \A t \in Sessions : HostOf[t] = h => ~Landed(t)'
    BY <1>1, <1>7, NoneLanded DEF Landed
<1>10. Exclusive'
  <2>1. \A t \in Sessions : Active(t)' => Active(t)  BY <1>7 DEF Active
  <2>2. \A g \in Hosts : reader'[g].pc # "idle" => reader[g].pc # "idle"  BY <1>1, <1>6
  <2> QED BY <1>2, <2>1, <2>2, ExclusiveKept DEF SerialInv
<1>11. CachedState(h)' = Reach(chain, f)
  <2>1. host[h].objects \in Seq(SUBSET Patch) /\ reader[h].result \in SUBSET Patch
      BY <1>0 DEF HostState, ReaderState
  <2>2. host'[h].objects[n] = reader[h].result  BY <1>1, <2>1
  <2> QED BY <1>1, <1>5, <2>2 DEF CachedState
<1> HIDE DEF n
<1>12. ReaderKnows(h)'
  <2>1. InHeads(reader[h].frontier)'  BY <1>2, <1>5, <1>6 DEF InHeads
  <2> QED BY <1>2, <1>5, <1>6, <2>1 DEF ReaderKnows
<1>13. CacheKnows(h)'
  <2>1. InHeads(host[h].cachedFrontier)'  BY <1>1, <1>2, <1>4, <1>5 DEF InHeads
  <2> QED BY <1>1, <1>2, <1>4, <1>5, <1>9, <1>11, <2>1 DEF CacheKnows
<1>14. CheckpointerKnows(h)'
  <2>1. checkpointer'[h].pc = "idle"  BY <1>1, <1>2 DEF SerialInv, Exclusive
  <2> QED BY <2>1 DEF CheckpointerKnows
<1>15. CheckpointKnows'  BY <1>2, <1>3, CheckpointKept DEF SerialInv
<1> QED BY <1>1, <1>2, <1>6, <1>8, <1>9, <1>10, <1>12, <1>13, <1>14, <1>15, SerialHostStep

(* Alone and with a clean cache, a process holds the whole graph. *)
LEMMA AloneIsWhole ==
  ASSUME TypeOK, SerialInv, Alone, NEW h \in Hosts, Clean(h),
         \A t \in Sessions : HostOf[t] = h => ~Landed(t)
  PROVE  CachedState(h) = Reach(chain, Heads)
<1>0. chain \in [Writers -> Seq(Patch)]  BY DEF TypeOK, StoreTyped
<1>1. PICK f : f = host[h].cachedFrontier  OBVIOUS
<1>2. \A t \in Sessions : HostOf[t] = h /\ ~Landed(t)  BY HostAssumption DEF Alone
<1>3. CachedState(h) = Reach(chain, f)
    BY <1>1, <1>2 DEF SerialInv, CacheKnows, Landed
<1>4. \A t \in Sessions : f[WriterOf[t]] = Len(chain[WriterOf[t]])
    BY <1>1, <1>2 DEF SerialInv, CacheKnows
<1>5. ASSUME NEW w \in Writers PROVE f[w] = Heads[w] \/ chain[w] = <<>>
  <2>1. CASE chain[w] # <<>>
    <3>1. chain[w] \in Seq(Patch)  BY <1>0
    <3>2. 1 \in DOMAIN chain[w]  BY <2>1, <3>1
    <3>3. PICK t \in Sessions : WriterOf[t] = w  BY <3>2 DEF SerialInv, Authored
    <3> QED BY <1>4, <3>3 DEF Heads
  <2> QED BY <2>1
<1> QED BY <1>0, <1>3, <1>5, ReachSame

LEMMA SerialCheckpoint ==
  ASSUME OneAtATime, TypeOK, TypeOK', SerialInv, NEW h \in Hosts,
         CheckpointBegin(h) \/ CheckpointStep(h)
  PROVE  SerialInv'
<1>0. chain \in [Writers -> Seq(Patch)] /\ checkpointer \in [Hosts -> CheckpointerState]
      /\ checkpointer[h] \in CheckpointerState
    BY DEF TypeOK, StoreTyped, CheckpointersTyped
<1>1. UNCHANGED <<chain, session, host, reader>>
    BY DEF CheckpointBegin, CheckpointStep, CheckpointCapture, CheckpointFails,
           CheckpointEncode, CheckpointPublish, CheckpointConflict, store
<1>2. Grows  BY <1>0, <1>1 DEF Grows
<1>3. SameCache(h) /\ SameLanding(h) /\ OwnChainsStay(h)
    BY <1>1 DEF SameCache, SameLanding, OwnChainsStay, Landed
<1>4. CacheKnows(h)'  BY <1>2, <1>3, CacheKept DEF SerialInv
<1>5. ReaderKnows(h)'  BY <1>1, <1>2, <1>3, ReaderKept DEF SerialInv, OwnChainsStay
<1>6. Heads' = Heads  BY <1>1 DEF Heads
<1>q. ASSUME Exclusive', CheckpointerKnows(h)', CheckpointKnows',
             \A g \in Hosts \ {h} : checkpointer'[g] = checkpointer[g],
             checkpointer[h].pc # "idle" \/ Quiet(h)
      PROVE  SerialInv'
  <2>1. \A t \in Sessions : HostOf[t] = h => ~Landed(t)'
      BY <1>1, <1>q, NoneLanded DEF Landed
  <2> QED BY <1>1, <1>4, <1>5, <1>q, <2>1, SerialHostStep
<1>e. ASSUME checkpointer[h].pc # "idle",
             \A g \in Hosts \ {h} : checkpointer'[g] = checkpointer[g]
      PROVE  Exclusive'
  <2>1. \A g \in Hosts : checkpointer'[g].pc # "idle" => checkpointer[g].pc # "idle"  BY <1>e
  <2>2. \A t \in Sessions : Active(t)' => Active(t)  BY <1>1 DEF Active
  <2> QED BY <1>1, <2>1, <2>2, ExclusiveKept DEF SerialInv
<1>7. CASE CheckpointBegin(h)
  <2>1. checkpointer' = [checkpointer EXCEPT ![h] =
           [NotCheckpointing EXCEPT !.pc = "frontier", !.frontier = Heads]]
      BY <1>7 DEF CheckpointBegin
  <2>2. /\ checkpointer'[h].pc = "frontier" /\ checkpointer'[h].frontier = Heads
        /\ \A g \in Hosts \ {h} : checkpointer'[g] = checkpointer[g]
      BY <1>0, <2>1 DEF NotCheckpointing
  <2>3. Quiet(h) /\ checkpoint' = checkpoint
      BY <1>7 DEF CheckpointBegin, MayStart, OneAtATime
  <2>4. Alone
    <3>1. checkpoints \in Nat /\ checkpoints < MaxCheckpoints
        BY <1>7 DEF CheckpointBegin, TypeOK, StoreTyped
    <3>2. MaxCheckpoints # 0  BY <3>1
    <3> QED BY <3>2 DEF OneAtATime
  <2>5. Exclusive'  BY <1>1, <2>2, <2>3, ExclusiveHost DEF SerialInv
  <2>6. CheckpointerKnows(h)'  BY <1>6, <2>2, <2>4 DEF CheckpointerKnows
  <2>7. CheckpointKnows'  BY <1>2, <2>3, CheckpointKept DEF SerialInv
  <2> QED BY <1>q, <2>2, <2>3, <2>5, <2>6, <2>7
<1>8. CASE CheckpointCapture(h)
  <2>1. /\ checkpointer[h].pc = "frontier" /\ Clean(h) /\ checkpoint' = checkpoint
        /\ checkpointer' = [checkpointer EXCEPT ![h].pc = "captured", ![h].object = host[h].cached]
      BY <1>8 DEF CheckpointCapture
  <2>2. /\ checkpointer'[h].pc = "captured" /\ checkpointer'[h].object = host[h].cached
        /\ checkpointer'[h].frontier = checkpointer[h].frontier
        /\ \A g \in Hosts \ {h} : checkpointer'[g] = checkpointer[g]
      BY <1>0, <2>1 DEF CheckpointerState
  <2>3. Clean(h)'  BY <1>1, <2>1 DEF Clean
  <2>4. CheckpointerKnows(h)'
      BY <1>1, <1>6, <2>1, <2>2, <2>3 DEF SerialInv, CheckpointerKnows
  <2>5. CheckpointKnows'  BY <1>2, <2>1, CheckpointKept DEF SerialInv
  <2> QED BY <1>e, <1>q, <2>1, <2>2, <2>4, <2>5
<1>9. CASE CheckpointFails(h) \/ CheckpointConflict(h)
  <2>1. /\ checkpointer[h].pc # "idle" /\ checkpoint' = checkpoint
        /\ checkpointer' = [checkpointer EXCEPT ![h] = NotCheckpointing]
      BY <1>9 DEF CheckpointFails, CheckpointConflict
  <2>2. checkpointer'[h].pc = "idle" /\ \A g \in Hosts \ {h} : checkpointer'[g] = checkpointer[g]
      BY <1>0, <2>1 DEF NotCheckpointing
  <2>3. CheckpointerKnows(h)'  BY <2>2 DEF CheckpointerKnows
  <2>4. CheckpointKnows'  BY <1>2, <2>1, CheckpointKept DEF SerialInv
  <2> QED BY <1>e, <1>q, <2>1, <2>2, <2>3, <2>4
<1>10. CASE CheckpointEncode(h)
  <2>1. /\ checkpointer[h].pc = "captured" /\ checkpoint' = checkpoint
        /\ checkpointer' = [checkpointer EXCEPT
             ![h].pc = "encoded", ![h].state = host[h].objects[checkpointer[h].object],
             ![h].expected = checkpoint]
      BY <1>10 DEF CheckpointEncode
  <2>2. /\ checkpointer'[h].pc = "encoded"
        /\ checkpointer'[h].state = host[h].objects[checkpointer[h].object]
        /\ checkpointer'[h].frontier = checkpointer[h].frontier
        /\ \A g \in Hosts \ {h} : checkpointer'[g] = checkpointer[g]
      BY <1>0, <2>1 DEF CheckpointerState
  <2>3. Alone /\ Clean(h) /\ checkpointer[h].object = host[h].cached
        /\ checkpointer[h].frontier = Heads
      BY <2>1 DEF SerialInv, CheckpointerKnows
  <2>4. checkpointer'[h].state = CachedState(h)
      BY <2>2, <2>3 DEF CachedState, Clean
  <2>5. \A t \in Sessions : HostOf[t] = h => ~Landed(t)  BY <2>1, NoneLanded
  <2>6. checkpointer'[h].state = Reach(chain, Heads)  BY <2>3, <2>4, <2>5, AloneIsWhole
  <2>7. CheckpointerKnows(h)'
      BY <1>1, <1>6, <2>2, <2>3, <2>6 DEF CheckpointerKnows
  <2>8. CheckpointKnows'  BY <1>2, <2>1, CheckpointKept DEF SerialInv
  <2> QED BY <1>e, <1>q, <2>1, <2>2, <2>7, <2>8
<1>11. CASE CheckpointPublish(h)
  <2>1. /\ checkpointer[h].pc = "encoded"
        /\ checkpoint' = [frontier |-> checkpointer[h].frontier, state |-> checkpointer[h].state]
        /\ checkpointer' = [checkpointer EXCEPT ![h] = NotCheckpointing]
      BY <1>11 DEF CheckpointPublish
  <2>2. checkpointer'[h].pc = "idle" /\ \A g \in Hosts \ {h} : checkpointer'[g] = checkpointer[g]
      BY <1>0, <2>1 DEF NotCheckpointing
  <2>3. CheckpointerKnows(h)'  BY <2>2 DEF CheckpointerKnows
  <2>4. checkpoint'.frontier = Heads /\ checkpoint'.state = Reach(chain, Heads)
      BY <2>1 DEF SerialInv, CheckpointerKnows
  <2>5. Heads \in Frontier /\ \A w \in Writers : Heads[w] = Len(chain[w]) /\ Len(chain[w]) \in Nat
      BY <1>0, HeadsFrontier DEF Heads, TypeOK
  <2>6. InHeads(checkpoint.frontier)'  BY <1>1, <2>4, <2>5 DEF InHeads
  <2>7. CheckpointKnows'  BY <1>1, <2>4, <2>6 DEF CheckpointKnows
  <2> QED BY <1>e, <1>q, <2>1, <2>2, <2>3, <2>7
<1> QED BY <1>7, <1>8, <1>9, <1>10, <1>11 DEF CheckpointStep

(* A crash leaves a process with nothing in memory to be wrong about. *)
LEMMA SerialRestart ==
  ASSUME OneAtATime, TypeOK, TypeOK', SerialInv, NEW h \in Hosts, Restart(h)
  PROVE  SerialInv'
<1>0. chain \in [Writers -> Seq(Patch)]  BY DEF TypeOK, StoreTyped
<1>1. UNCHANGED <<chain, checkpoint>>  BY DEF Restart, store
<1>2. Grows  BY <1>0, <1>1 DEF Grows
<1>3. reader'[h].pc = "idle" /\ checkpointer'[h].pc = "idle" /\ host'[h].cached = 0
    BY RestartEffect DEF NotReading, NotCheckpointing, Opened
<1>4. \A t \in Sessions : IF HostOf[t] = h THEN session'[t].pc \in {"closed", "idle"}
                          ELSE session'[t] = session[t]
    BY RestartEffect, FreshTyped
<1>5. Exclusive'
  <2>1. \A g \in Hosts : /\ reader'[g].pc # "idle" => reader[g].pc # "idle"
                         /\ checkpointer'[g].pc # "idle" => checkpointer[g].pc # "idle"
      BY <1>3, RestartEffect
  <2>2. \A t \in Sessions : Active(t)' => Active(t)  BY <1>4 DEF Active
  <2> QED BY <2>1, <2>2, ExclusiveKept DEF SerialInv
<1>6. ReaderKnows(h)' /\ CacheKnows(h)' /\ CheckpointerKnows(h)'
    BY <1>3 DEF ReaderKnows, CacheKnows, CheckpointerKnows, Clean
<1>7. CheckpointKnows'  BY <1>1, <1>2, CheckpointKept DEF SerialInv
<1>8. \A t \in Sessions : HostOf[t] = h => ~Landed(t)'  BY <1>4 DEF Landed
<1> QED BY <1>1, <1>4, <1>5, <1>6, <1>7, <1>8, RestartEffect, SerialHostStep

LEMMA SerialInitially == Init => SerialInv
<1> SUFFICES ASSUME Init PROVE SerialInv  OBVIOUS
<1>1. \A s \in Sessions : session[s].pc \in {"closed", "idle"}
    BY FreshTyped DEF Init
<1>2. \A h \in Hosts : reader[h].pc = "idle" /\ checkpointer[h].pc = "idle" /\ host[h].cached = 0
    BY DEF Init, NotReading, NotCheckpointing, Opened
<1>3. Exclusive  BY <1>1, <1>2 DEF Exclusive, Active
<1>4. Authored
  <2>1. \A w \in Writers : chain[w] = <<>>  BY DEF Init
  <2> QED BY <2>1 DEF Authored
<1>5. \A h \in Hosts : ReaderKnows(h) /\ CacheKnows(h) /\ CheckpointerKnows(h)
    BY <1>2 DEF ReaderKnows, CacheKnows, CheckpointerKnows, Clean
<1>6. \A s \in Sessions : AtTip(s) /\ HashKnows(s)
    BY <1>1 DEF AtTip, HashKnows, Landed
<1>7. CheckpointKnows  BY DEF Init, CheckpointKnows
<1> QED BY <1>3, <1>4, <1>5, <1>6, <1>7 DEF SerialInv

LEMMA SerialStep ==
  ASSUME OneAtATime
  PROVE  TypeOK /\ TypeOK' /\ ChainInv /\ SerialInv /\ [Next]_vars => SerialInv'
<1> SUFFICES ASSUME TypeOK, TypeOK', ChainInv, SerialInv, [Next]_vars PROVE SerialInv'
    OBVIOUS
<1>1. ASSUME NEW s \in Sessions, OpenWriter(s) \/ BeginPatch(s) \/ CommitStep(s)
      PROVE  SerialInv'
  <2>1. ~PublishLosesAck(s) /\ ~HookFails(s)  BY DEF PublishLosesAck, HookFails, OneAtATime
  <2> QED BY <1>1, <2>1, SerialBuild, SerialPublish, SerialEager, SerialDirty, SerialFinish
          DEF CommitStep
<1>2. ASSUME NEW h \in Hosts,
             \/ \E c \in Ceilings \cup {0} : MaterializeBegin(h, c)
             \/ ReadStep(h) \/ CheckpointBegin(h) \/ CheckpointStep(h) \/ Restart(h)
      PROVE  SerialInv'
    BY <1>2, SerialRead, SerialInstall, SerialCheckpoint, SerialRestart DEF ReadStep
<1>3. CASE UNCHANGED vars
  <2> USE <1>3 DEF vars, SerialInv
  <2>1. Exclusive' /\ Authored'  BY DEF Exclusive, Authored, Active
  <2>2. Heads' = Heads /\ \A f : InHeads(f)' <=> InHeads(f)  BY DEF Heads, InHeads
  <2>3. \A h \in Hosts : /\ Clean(h)' <=> Clean(h)
                         /\ CachedState(h)' = CachedState(h)
      BY DEF Clean, CachedState
  <2>4. \A h \in Hosts : ReaderKnows(h)'  BY DEF ReaderKnows, InHeads
  <2>5. \A h \in Hosts : CacheKnows(h)'  BY <2>3 DEF CacheKnows, InHeads, Landed
  <2>6. \A h \in Hosts : CheckpointerKnows(h)'  BY <2>2, <2>3 DEF CheckpointerKnows
  <2>7. \A s \in Sessions : AtTip(s)' /\ HashKnows(s)'
      BY <2>3, HostAssumption DEF AtTip, HashKnows, Landed
  <2>8. CheckpointKnows'  BY DEF CheckpointKnows, InHeads
  <2> QED BY <2>1, <2>4, <2>5, <2>6, <2>7, <2>8
<1> QED BY <1>1, <1>2, <1>3 DEF Next

LEMMA SerialHolds == ASSUME OneAtATime PROVE Spec => [](TypeOK /\ ChainInv /\ SerialInv)
<1>1. TypeOK /\ ChainInv /\ SerialInv /\ [Next]_vars => (TypeOK /\ ChainInv /\ SerialInv)'
    BY TypesStep, ChainsStep, SerialStep
<1>2. Init => TypeOK /\ ChainInv /\ SerialInv  BY TypesInit, ChainsInit, SerialInitially
<1> QED BY <1>1, <1>2, PTL DEF Spec

LEMMA QuietLanded ==
  ASSUME NEW h \in Hosts, Quiet(h) PROVE \A s \in Sessions : HostOf[s] = h => ~Landed(s)
BY DEF Quiet, Landed

(* Between calls, the coordinate beside a clean cache names exactly what is  *)
(* in it, though the cached object is mutated in place, a hash is awaited    *)
(* before the coordinate moves, and a materialization may start from a       *)
(* checkpoint.                                                               *)
THEOREM CacheIsItsFrontier == ASSUME OneAtATime PROVE Spec => []CacheMatchesFrontier
<1>1. SerialInv => CacheMatchesFrontier
  <2> SUFFICES ASSUME SerialInv, NEW h \in Hosts, Clean(h), Quiet(h)
               PROVE  CachedState(h) = PatchesUpTo(host[h].cachedFrontier)
      BY DEF CacheMatchesFrontier
  <2>1. \A s \in Sessions : HostOf[s] = h => session[s].pc # "hashing"
      BY DEF Quiet
  <2>2. CachedState(h) = Reach(chain, host[h].cachedFrontier)
      BY <2>1 DEF SerialInv, CacheKnows
  <2> QED BY <2>2 DEF Reach, PatchesUpTo
<1> QED BY <1>1, SerialHolds, PTL

(* A clean cache holds all that was committed through its process, whichever *)
(* of its sessions committed it and whatever other processes do.             *)
LEMMA OwnInCache ==
  ASSUME OneAtATime, TypeOK, SerialInv, NEW h \in Hosts, Clean(h), Quiet(h),
         NEW w \in Writers, NEW i \in DOMAIN chain[w], HostOf[chain[w][i].by] = h
  PROVE  chain[w][i] \in CachedState(h)
<1>1. PICK f : f = host[h].cachedFrontier  OBVIOUS
<1>2. PICK s \in Sessions : HostOf[s] = h /\ WriterOf[s] = w
    BY DEF SerialInv, Authored
<1>3. \A t \in Sessions : WriterOf[t] = WriterOf[s] => ~Landed(t)
    BY <1>2, QuietLanded DEF OneAtATime
<1>4. f[w] = Len(chain[w])  BY <1>1, <1>2, <1>3 DEF SerialInv, CacheKnows
<1>5. CachedState(h) = Reach(chain, f)
    BY <1>1 DEF SerialInv, CacheKnows, Quiet
<1>6. i <= f[w]  BY <1>4 DEF TypeOK, StoreTyped
<1> QED BY <1>5, <1>6, ReachMember

(* A patch that a process has committed is in its cache whenever that cache  *)
(* counts as clean, after incremental application, a replay or a checkpoint. *)
THEOREM OwnWritesStayVisible == ASSUME OneAtATime PROVE Spec => []OwnWritesVisible
<1>1. TypeOK /\ ChainInv /\ SerialInv => OwnWritesVisible
  <2> SUFFICES ASSUME TypeOK, ChainInv, SerialInv, NEW h \in Hosts, Clean(h), Quiet(h),
                      NEW a \in acked, HostOf[a.patch.by] = h
               PROVE  a.patch \in CachedState(h)
      BY DEF OwnWritesVisible
  <2>1. a.writer \in Writers  BY DEF TypeOK, StoreTyped
  <2>2. a.at \in DOMAIN chain[a.writer] /\ chain[a.writer][a.at] = a.patch
      BY DEF ChainInv, NoLostCommit
  <2> QED BY <2>1, <2>2, OwnInCache
<1> QED BY <1>1, SerialHolds, PTL

(* A process through which the whole graph was written, and that reports its *)
(* cache fresh, has the whole graph in it.                                   *)
THEOREM FreshIsWhole == ASSUME OneAtATime PROVE Spec => []FreshIsComplete
<1>1. TypeOK /\ ChainInv /\ SerialInv => FreshIsComplete
  <2> SUFFICES ASSUME TypeOK, ChainInv, SerialInv, NEW h \in Hosts, Clean(h), Quiet(h),
                      \A p \in PatchesUpTo(Heads) : HostOf[p.by] = h,
                      NEW p \in PatchesUpTo(Heads)
               PROVE  p \in CachedState(h)
      BY DEF FreshIsComplete
  <2>1. PICK w \in Writers : \E i \in DOMAIN chain[w] : p = chain[w][i]
      BY DEF PatchesUpTo
  <2>2. PICK i \in DOMAIN chain[w] : p = chain[w][i]  BY <2>1
  <2>3. HostOf[chain[w][i].by] = h  BY <2>2
  <2> QED BY <2>1, <2>2, <2>3, OwnInCache
<1> QED BY <1>1, SerialHolds, PTL

(* A checkpoint holds every patch under the frontier it is stored with,      *)
(* though the frontier is read before the state is captured.                 *)
THEOREM CheckpointsHoldTheirFrontier == ASSUME OneAtATime PROVE Spec => []CheckpointSound
<1>1. SerialInv => CheckpointSound
  <2> SUFFICES ASSUME SerialInv, checkpoint # NoCheckpoint
               PROVE  PatchesUpTo(checkpoint.frontier) \subseteq checkpoint.state
      BY DEF CheckpointSound
  <2>1. checkpoint.state = Reach(chain, checkpoint.frontier)
      BY DEF SerialInv, CheckpointKnows
  <2> QED BY <2>1 DEF Reach, PatchesUpTo
<1> QED BY <1>1, SerialHolds, PTL

-----------------------------------------------------------------------------
(* Dots *)

MaterializedWrites ==
  OneAtATime /\ "materialized" \in Discipline /\ \A s \in Sessions : Api[s] = "graph"

(* The adds of a patch lie between the counters of the chain before it and its own. *)
DotsAscend ==
  \A w \in Writers : \A j \in DOMAIN chain[w] : \A d \in chain[w][j].adds :
     /\ d <= chain[w][j].context[w]
     /\ \A i \in DOMAIN chain[w] : i < j => chain[w][i].context[w] < d

(* The vector of a clean cache covers what is in it. *)
VectorCovers(h) ==
  Clean(h) /\ (\A s \in Sessions : HostOf[s] = h => ~Landed(s)) =>
    \A p \in CachedState(h) : \A w \in Writers : p.context[w] <= host[h].vv[w]

BuilderAscends(s) ==
  LET w == WriterOf[s] IN
  /\ session[s].held = Nothing
  /\ session[s].pc = "begun" => Clean(HostOf[s])
  /\ session[s].pc \in {"open", "checked"} =>
       \A d \in session[s].adds :
          /\ d <= session[s].vv[w]
          /\ \A i \in DOMAIN chain[w] : chain[w][i].context[w] < d

DotsInv ==
  /\ DotsAscend
  /\ \A h \in Hosts : VectorCovers(h)
  /\ \A s \in Sessions : BuilderAscends(s)

(* The parts of DotsInv that a step leaves alone. *)
LEMMA AscendKept ==
  ASSUME NEW s \in Sessions, BuilderAscends(s), session'[s] = session[s],
         chain'[WriterOf[s]] = chain[WriterOf[s]],
         session[s].pc = "begun" => Clean(HostOf[s])'
  PROVE  BuilderAscends(s)'
BY DEF BuilderAscends

LEMMA VectorKept ==
  ASSUME NEW h \in Hosts, VectorCovers(h),
         host'[h].cached = host[h].cached, host'[h].dirty = host[h].dirty,
         host'[h].objects = host[h].objects, host'[h].vv = host[h].vv,
         \A s \in Sessions : HostOf[s] = h => (~Landed(s)' => ~Landed(s))
  PROVE  VectorCovers(h)'
<1> SUFFICES ASSUME Clean(h)', \A s \in Sessions : HostOf[s] = h => ~Landed(s)'
             PROVE  \A p \in CachedState(h)' : \A w \in Writers : p.context[w] <= host'[h].vv[w]
    BY DEF VectorCovers
<1>1. Clean(h) /\ CachedState(h)' = CachedState(h)  BY DEF Clean, CachedState
<1> QED BY <1>1 DEF VectorCovers

(* At the start of a patch everything of its writer is in the cache, under   *)
(* the vector the builder clones.                                            *)
LEMMA VectorAboveChain ==
  ASSUME MaterializedWrites, TypeOK, SerialInv, DotsInv, NEW s \in Sessions,
         session[s].pc = "begun"
  PROVE  \A i \in DOMAIN chain[WriterOf[s]] :
            chain[WriterOf[s]][i].context[WriterOf[s]] <= host[HostOf[s]].vv[WriterOf[s]]
<1> DEFINE h == HostOf[s]
           w == WriterOf[s]
<1> SUFFICES ASSUME NEW i \in DOMAIN chain[w] PROVE chain[w][i].context[w] <= host[h].vv[w]
    OBVIOUS
<1>0. h \in Hosts /\ w \in Writers /\ OneAtATime  BY HostAssumption DEF MaterializedWrites
<1>1. Clean(h)  BY DEF DotsInv, BuilderAscends
<1>2. Active(s) /\ ~Landed(s)  BY DEF Active, Landed
<1>3. \A t \in Sessions : HostOf[t] = h => ~Landed(t)
    BY <1>2 DEF SerialInv, Exclusive, Active, Landed
<1>4. PICK f : f = host[h].cachedFrontier  OBVIOUS
<1>5. \A t \in Sessions : WriterOf[t] = w => ~Landed(t)  BY <1>0, <1>3 DEF OneAtATime
<1>6. CacheKnows(h) /\ VectorCovers(h)  BY <1>0 DEF SerialInv, DotsInv
<1>7. CachedState(h) = Reach(chain, f) /\ f[w] = Len(chain[w])
    BY <1>1, <1>3, <1>4, <1>5, <1>6 DEF CacheKnows, Landed
<1>8. i <= f[w]  BY <1>0, <1>7 DEF TypeOK, StoreTyped
<1>9. chain[w][i] \in CachedState(h)  BY <1>0, <1>7, <1>8, ReachMember
<1> QED BY <1>0, <1>1, <1>3, <1>6, <1>9 DEF VectorCovers

(* A step of a session that leaves hosts and chains alone. *)
LEMMA DotsSession ==
  ASSUME DotsInv, NEW s \in Sessions, UNCHANGED <<chain, host>>,
         \A t \in Sessions \ {s} : session'[t] = session[t],
         ~Landed(s), BuilderAscends(s)'
  PROVE  DotsInv'
<1>1. \A h \in Hosts : VectorCovers(h)'  BY VectorKept DEF DotsInv, Landed
<1>2. \A t \in Sessions : Clean(HostOf[t])' <=> Clean(HostOf[t])  BY DEF Clean
<1>3. \A t \in Sessions \ {s} : BuilderAscends(t)'
    BY <1>2, AscendKept DEF DotsInv, BuilderAscends
<1> QED BY <1>1, <1>3 DEF DotsInv, DotsAscend

LEMMA DotsBuild ==
  ASSUME MaterializedWrites, TypeOK, TypeOK', SerialInv, DotsInv, NEW s \in Sessions,
         \/ OpenWriter(s) \/ BeginPatch(s) \/ BuildPatch(s) \/ CheckHead(s)
         \/ Conflict(s) \/ PublishFails(s)
  PROVE  DotsInv'
<1> DEFINE w == WriterOf[s]
<1>0. session \in [Sessions -> SessionState] /\ session[s] \in SessionState
      /\ HostOf[s] \in Hosts /\ w \in Writers
    BY HostAssumption DEF TypeOK, SessionsTyped
<1>1. UNCHANGED <<chain, host>>
      /\ \A t \in Sessions \ {s} : session'[t] = session[t]
    BY <1>0 DEF OpenWriter, BeginPatch, BuildPatch, CheckHead, Conflict, PublishFails, Closed,
       store
<1>2. ~Landed(s)
    BY DEF OpenWriter, BeginPatch, BuildPatch, CheckHead, Conflict, PublishFails, Landed
<1>b. BuilderAscends(s)  BY DEF DotsInv
<1>c. Clean(HostOf[s])' <=> Clean(HostOf[s])  BY <1>1 DEF Clean
<1>3. BuilderAscends(s)'
  <2>1. CASE OpenWriter(s)
    <3>1. session'[s].pc = "idle" /\ session'[s].held = session[s].held
        BY <1>0, <2>1 DEF OpenWriter, SessionState
    <3> QED BY <1>b, <3>1 DEF BuilderAscends
  <2>2. CASE BeginPatch(s)
    <3>1. session'[s].pc = "begun" /\ session'[s].held = session[s].held
        BY <1>0, <2>2 DEF BeginPatch, SessionState
    <3>2. Clean(HostOf[s])'  BY <1>c, <2>2 DEF BeginPatch, MaterializedWrites
    <3> QED BY <1>b, <3>1, <3>2 DEF BuilderAscends
  <2>3. CASE BuildPatch(s)
    <3> DEFINE vv == host[HostOf[s]].vv
    <3>0. BuilderVector(s) = vv  BY <1>b DEF BuilderAscends, BuilderVector
    <3>1. PICK n \in 0..MaxAdds :
            session' = [session EXCEPT ![s].pc = "open",
                                       ![s].vv = [vv EXCEPT ![w] = @ + n],
                                       ![s].adds = (vv[w] + 1)..(vv[w] + n)]
        BY <2>3, <3>0 DEF BuildPatch
    <3>2. vv \in VersionVector  BY <1>0 DEF TypeOK, HostsTyped, HostState
    <3>3. \A i \in DOMAIN chain[w] : chain[w][i].context[w] <= vv[w]
        BY <2>3, VectorAboveChain DEF BuildPatch
    <3> HIDE DEF vv
    <3>4. /\ session'[s].pc = "open" /\ session'[s].held = session[s].held
          /\ session'[s].vv = [vv EXCEPT ![w] = @ + n]
          /\ session'[s].adds = (vv[w] + 1)..(vv[w] + n)
        BY <1>0, <3>1 DEF SessionState
    <3>5. vv[w] \in Nat /\ n \in Nat /\ session'[s].vv[w] = vv[w] + n
        BY <1>0, <3>2, <3>4, HostAssumption DEF VersionVector
    <3>6. ASSUME NEW d \in session'[s].adds
          PROVE  d <= session'[s].vv[w] /\ \A i \in DOMAIN chain[w] : chain[w][i].context[w] < d
      <4>1. d \in Nat /\ d <= vv[w] + n /\ vv[w] < d  BY <3>4, <3>5, <3>6
      <4>2. ASSUME NEW i \in DOMAIN chain[w] PROVE chain[w][i].context[w] < d
        <5>1. chain[w][i] \in Patch  BY <1>0 DEF TypeOK, StoreTyped
        <5>2. chain[w][i].context[w] \in Nat  BY <1>0, <5>1 DEF Patch, VersionVector
        <5> QED BY <3>3, <3>5, <4>1, <4>2, <5>2
      <4> QED BY <3>5, <4>1, <4>2
    <3> QED BY <1>1, <1>b, <3>4, <3>6 DEF BuilderAscends
  <2>4. CASE CheckHead(s)
    <3>1. /\ session[s].pc = "open" /\ session'[s].pc = "checked"
          /\ session'[s].held = session[s].held
          /\ session'[s].vv = session[s].vv /\ session'[s].adds = session[s].adds
        BY <1>0, <2>4 DEF CheckHead, SessionState
    <3> QED BY <1>1, <1>b, <3>1 DEF BuilderAscends
  <2>5. CASE Conflict(s) \/ PublishFails(s)
    <3>1. session' = Closed(s)  BY <2>5 DEF Conflict, PublishFails
    <3>2. session'[s].pc = "idle" /\ session'[s].held = session[s].held
        BY <1>0, <3>1 DEF Closed, Idle
    <3> QED BY <1>b, <3>2 DEF BuilderAscends
  <2> QED BY <2>1, <2>2, <2>3, <2>4, <2>5
<1> QED BY <1>1, <1>2, <1>3, DotsSession

(* A session that builds nothing. *)
LEMMA NothingBuilt ==
  ASSUME NEW t \in Sessions, session'[t].held = Nothing,
         session'[t].pc \notin {"begun", "open", "checked"}
  PROVE  BuilderAscends(t)'
BY DEF BuilderAscends

(* A step of one process that leaves the chains alone. *)
LEMMA DotsHost ==
  ASSUME DotsInv, NEW h \in Hosts, UNCHANGED chain,
         \A g \in Hosts \ {h} : host'[g] = host[g],
         \A t \in Sessions : HostOf[t] # h => session'[t] = session[t],
         VectorCovers(h)',
         \A t \in Sessions : HostOf[t] = h => BuilderAscends(t)'
  PROVE  DotsInv'
<1>1. \A g \in Hosts \ {h} : VectorCovers(g)'
  <2> SUFFICES ASSUME NEW g \in Hosts \ {h} PROVE VectorCovers(g)'  OBVIOUS
  <2>1. \A s \in Sessions : HostOf[s] = g => (~Landed(s)' => ~Landed(s))  BY DEF Landed
  <2> QED BY <2>1, VectorKept DEF DotsInv
<1>2. ASSUME NEW t \in Sessions, HostOf[t] # h PROVE BuilderAscends(t)'
  <2>1. HostOf[t] \in Hosts \ {h}  BY <1>2, HostAssumption
  <2>2. Clean(HostOf[t])' <=> Clean(HostOf[t])  BY <2>1 DEF Clean
  <2>3. BuilderAscends(t) /\ (session[t].pc = "begun" => Clean(HostOf[t]))
      BY DEF DotsInv, BuilderAscends
  <2> QED BY <1>2, <2>2, <2>3, AscendKept
<1>3. DotsAscend'  BY DEF DotsInv, DotsAscend
<1> QED BY <1>1, <1>2, <1>3 DEF DotsInv

LEMMA DotsPublish ==
  ASSUME MaterializedWrites, TypeOK, TypeOK', ChainInv, SerialInv, DotsInv,
         NEW s \in Sessions, Publish(s)
  PROVE  DotsInv'
<1> DEFINE h == HostOf[s]
           w == WriterOf[s]
           n == Len(chain[w])
<1>0. h \in Hosts /\ w \in Writers /\ chain \in [Writers -> Seq(Patch)]
      /\ chain[w] \in Seq(Patch) /\ session \in [Sessions -> SessionState] /\ OneAtATime
    BY HostAssumption DEF TypeOK, StoreTyped, SessionsTyped, MaterializedWrites
<1>1. chain' = [chain EXCEPT ![w] = Append(@, PatchOf(s))]  BY AppendStep DEF Publish
<1>2. /\ session[s].pc = "checked" /\ session'[s].pc = "published"
      /\ session'[s].held = session[s].held
      /\ \A t \in Sessions \ {s} : session'[t] = session[t]
      /\ UNCHANGED host
    BY <1>0 DEF Publish, AppendToRef, SessionState
<1>3. \A t \in Sessions \ {s} : HostOf[t] = h => ~Active(t)
    BY <1>2 DEF SerialInv, Exclusive, Active
<1>4. PatchOf(s) \in Patch  BY <1>2, PatchOfPatch DEF TypeOK
<1>5. chain'[w] = Append(chain[w], PatchOf(s)) /\ \A u \in Writers \ {w} : chain'[u] = chain[u]
    BY <1>0, <1>1
<1>6. n \in Nat /\ chain'[w][n + 1] = PatchOf(s) /\ DOMAIN chain'[w] = 1..(n + 1)
      /\ DOMAIN chain[w] = 1..n /\ \A i \in 1..n : chain'[w][i] = chain[w][i]
    BY <1>0, <1>4, <1>5
<1>7. PatchOf(s).context = session[s].vv /\ PatchOf(s).adds = session[s].adds  BY DEF PatchOf
<1>8. BuilderAscends(s)  BY DEF DotsInv
<1> HIDE DEF h, w, n
<1>9. DotsAscend'
  <2> SUFFICES ASSUME NEW u \in Writers, NEW j \in DOMAIN chain'[u], NEW d \in chain'[u][j].adds
               PROVE  /\ d <= chain'[u][j].context[u]
                      /\ \A i \in DOMAIN chain'[u] : i < j => chain'[u][i].context[u] < d
      BY DEF DotsAscend
  <2>1. CASE u # w
    <3>1. chain'[u] = chain[u]  BY <1>5, <2>1
    <3> QED BY <3>1 DEF DotsInv, DotsAscend
  <2>2. CASE u = w /\ j = n + 1
    <3>1. d \in session[s].adds /\ chain'[u][j].context[u] = session[s].vv[w]
        BY <1>6, <1>7, <2>2
    <3>2. d <= session[s].vv[w] /\ \A i \in DOMAIN chain[w] : chain[w][i].context[w] < d
        BY <1>2, <1>8, <3>1 DEF BuilderAscends, w
    <3>3. ASSUME NEW i \in DOMAIN chain'[u], i < j PROVE chain'[u][i].context[u] < d
      <4>1. i \in 1..n  BY <1>6, <2>2, <3>3
      <4> QED BY <1>6, <2>2, <3>2, <4>1
    <3> QED BY <3>1, <3>2, <3>3
  <2>3. CASE u = w /\ j # n + 1
    <3>1. j \in 1..n /\ chain'[u][j] = chain[w][j]  BY <1>6, <2>3
    <3>2. d <= chain[w][j].context[w]
          /\ \A i \in DOMAIN chain[w] : i < j => chain[w][i].context[w] < d
        BY <1>0, <1>6, <3>1 DEF DotsInv, DotsAscend
    <3>3. ASSUME NEW i \in DOMAIN chain'[u], i < j PROVE chain'[u][i].context[u] < d
      <4>1. i \in 1..n  BY <1>6, <2>3, <3>1, <3>3
      <4> QED BY <1>6, <2>3, <3>2, <3>3, <4>1
    <3> QED BY <2>3, <3>1, <3>2, <3>3
  <2> QED BY <2>1, <2>2, <2>3
<1>10. \A g \in Hosts : VectorCovers(g)'
  <2>1. Landed(s)' /\ \A t \in Sessions : Landed(t) => Landed(t)'  BY <1>2 DEF Landed
  <2> QED BY <1>2, <2>1, VectorKept DEF DotsInv
<1>11. ASSUME NEW t \in Sessions PROVE BuilderAscends(t)'
  <2>0. BuilderAscends(t) /\ session[t].held = Nothing  BY DEF DotsInv, BuilderAscends
  <2>1. CASE t = s  BY <1>2, <2>0, <2>1, NothingBuilt
  <2>2. CASE t # s /\ HostOf[t] = h
    <3>1. session'[t] = session[t] /\ session[t].pc \in {"closed", "idle"}
        BY <1>2, <1>3, <2>2 DEF Active
    <3> QED BY <2>0, <3>1, NothingBuilt
  <2>3. CASE t # s /\ HostOf[t] # h
    <3>1. WriterOf[t] \in Writers \ {w}  BY <1>0, <2>3, HostAssumption DEF OneAtATime, h, w
    <3>2. chain'[WriterOf[t]] = chain[WriterOf[t]] /\ session'[t] = session[t]
        BY <1>2, <1>5, <2>3, <3>1
    <3>3. session[t].pc = "begun" => Clean(HostOf[t])'
        BY <1>2, <2>0 DEF BuilderAscends, Clean
    <3> QED BY <2>0, <3>2, <3>3, AscendKept
  <2> QED BY <2>1, <2>2, <2>3
<1> QED BY <1>9, <1>10, <1>11 DEF DotsInv

(* Whatever is installed comes with its own observed frontier. *)
LEMMA InstalledCovers ==
  ASSUME CoverInv, NEW S \in SUBSET Patch, NEW h \in Hosts,
         \/ \E i \in DOMAIN host[h].objects : S = host[h].objects[i]
         \/ S = reader[h].result
  PROVE  \A p \in S : \A w \in Writers : p.context[w] <= Observed(S)[w]
<1>1. PICK b \in Nat : Bounded(b)  BY DEF CoverInv
<1>2. Below(S, b)  BY <1>1 DEF Bounded, HostBounded
<1> QED BY <1>2, ObservedCovers

LEMMA DotsHook ==
  ASSUME MaterializedWrites, TypeOK, TypeOK', CoverInv, SerialInv, DotsInv,
         NEW s \in Sessions, OnCommittedEager(s) \/ OnCommittedDirty(s) \/ FinishCommit(s)
  PROVE  DotsInv'
<1> DEFINE h == HostOf[s]
<1>0. h \in Hosts /\ session \in [Sessions -> SessionState] /\ session[s] \in SessionState
    BY HostAssumption DEF TypeOK, SessionsTyped
<1>1. UNCHANGED chain  BY DEF OnCommittedEager, OnCommittedDirty, FinishCommit, store
<1>2. Landed(s) /\ Active(s)
    BY DEF OnCommittedEager, OnCommittedDirty, FinishCommit, Committed, Landed, Active
<1>3. \A t \in Sessions \ {s} : HostOf[t] = h => session[t].pc \in {"closed", "idle"}
    BY <1>2 DEF SerialInv, Exclusive, Active
<1>4. \A t \in Sessions : session[t].held = Nothing /\ Api[t] = "graph"
    BY DEF DotsInv, BuilderAscends, MaterializedWrites
<1>5. \A t \in Sessions : Detached(h)[t] = session[t]  BY <1>4 DEF Detached
<1>6. /\ session'[s].pc \in {"idle", "hashing"} /\ session'[s].held = Nothing
      /\ \A t \in Sessions \ {s} : session'[t] = session[t]
      /\ \A g \in Hosts \ {h} : host'[g] = host[g]
  <2>1. CASE OnCommittedEager(s)
    <3>1. session' = [session EXCEPT ![s] =
              [session[s] EXCEPT !.pc = "hashing", !.object = host[h].cached,
                                 !.frontier = Advanced(s)]]
        BY <2>1, EagerEffect
    <3> QED BY <1>0, <1>4, <2>1, <3>1, EagerEffect DEF SessionState
  <2>2. CASE OnCommittedDirty(s)
    <3>1. session' = [session EXCEPT ![s] = [Idle EXCEPT !.held = session[s].held]]
        BY <2>2, DirtyEffect
    <3> QED BY <1>0, <1>4, <2>2, <3>1, DirtyEffect DEF Idle
  <2>3. CASE FinishCommit(s)
    <3>1. session' = [Detached(h) EXCEPT ![s] = [Idle EXCEPT !.held = Detached(h)[s].held]]
        BY <2>3, FinishEffect
    <3>2. DOMAIN Detached(h) = Sessions  BY DEF Detached
    <3>3. session'[s] = [Idle EXCEPT !.held = session[s].held]
          /\ \A t \in Sessions \ {s} : session'[t] = session[t]
        BY <1>5, <3>1, <3>2
    <3> QED BY <1>0, <1>4, <2>3, <3>3, FinishEffect, ZenonT(40) DEF Idle
  <2> QED BY <2>1, <2>2, <2>3
<1>7. \A t \in Sessions : HostOf[t] = h => BuilderAscends(t)'
    BY <1>3, <1>4, <1>6, NothingBuilt
<1>8. VectorCovers(h)'
  <2>1. CASE OnCommittedEager(s)
    <3>1. session' = [session EXCEPT ![s] =
              [session[s] EXCEPT !.pc = "hashing", !.object = host[h].cached,
                                 !.frontier = Advanced(s)]]
        BY <2>1, EagerEffect
    <3>2. session'[s].pc = "hashing"  BY <1>0, <3>1 DEF SessionState
    <3> QED BY <3>2 DEF VectorCovers, Landed
  <2>2. CASE OnCommittedDirty(s)  BY <2>2, DirtyEffect DEF VectorCovers, Clean
  <2>3. CASE FinishCommit(s)
    <3>1. PICK o : o = session[s].object  OBVIOUS
    <3>2. /\ o \in DOMAIN host[h].objects /\ host'[h].objects = host[h].objects
          /\ host'[h].cached = o /\ host'[h].vv = Observed(host[h].objects[o])
        BY <2>3, <3>1, FinishEffect
    <3>3. o # 0 /\ host[h].objects[o] \in SUBSET Patch
        BY <1>0, <3>2 DEF TypeOK, HostsTyped, HostState
    <3>4. CachedState(h)' = host[h].objects[o]  BY <3>2, <3>3 DEF CachedState
    <3>5. \A p \in host[h].objects[o] : \A w \in Writers :
             p.context[w] <= Observed(host[h].objects[o])[w]
        BY <1>0, <3>2, <3>3, InstalledCovers
    <3> QED BY <3>2, <3>4, <3>5 DEF VectorCovers
  <2> QED BY <2>1, <2>2, <2>3
<1>9. \A t \in Sessions : HostOf[t] # h => session'[t] = session[t]  BY <1>6
<1> HIDE DEF h
<1> QED BY <1>0, <1>1, <1>6, <1>7, <1>8, <1>9, DotsHost

LEMMA DotsInstall ==
  ASSUME MaterializedWrites, TypeOK, TypeOK', CoverInv, SerialInv, DotsInv,
         NEW h \in Hosts, MaterializeInstall(h)
  PROVE  DotsInv'
<1>1. UNCHANGED chain  BY DEF MaterializeInstall, store
<1>2. PICK r : r = reader[h].result  OBVIOUS
<1>3. /\ reader[h].pc = "reduced" /\ \A g \in Hosts \ {h} : host'[g] = host[g]
      /\ host'[h].objects = Append(host[h].objects, r)
      /\ host'[h].cached = Len(host[h].objects) + 1
      /\ host'[h].vv = Observed(r)
      /\ session' = Detached(h)
    BY <1>2, InstallEffect
<1>4. r \in SUBSET Patch /\ host[h].objects \in Seq(SUBSET Patch)
    BY <1>2 DEF TypeOK, ReadersTyped, ReaderState, HostsTyped, HostState
<1>5. \A t \in Sessions : session[t].held = Nothing /\ Api[t] = "graph"
    BY DEF DotsInv, BuilderAscends, MaterializedWrites
<1>6. \A t \in Sessions : session'[t] = session[t]  BY <1>3, <1>5 DEF Detached
<1>7. \A t \in Sessions : HostOf[t] = h => session[t].pc \in {"closed", "idle"}
    BY <1>3 DEF SerialInv, Exclusive, Active
<1>8. \A t \in Sessions : HostOf[t] = h => BuilderAscends(t)'
    BY <1>5, <1>6, <1>7, NothingBuilt
<1>9. CachedState(h)' = r  BY <1>3, <1>4 DEF CachedState
<1>10. \A p \in r : \A w \in Writers : p.context[w] <= Observed(r)[w]
    BY <1>2, <1>4, InstalledCovers
<1>11. VectorCovers(h)'  BY <1>3, <1>9, <1>10 DEF VectorCovers
<1> QED BY <1>1, <1>3, <1>6, <1>8, <1>11, DotsHost

(* The other steps of a process touch neither its cache nor its sessions. *)
LEMMA DotsElsewhere ==
  ASSUME TypeOK, DotsInv, NEW h \in Hosts,
         \/ \E c \in Ceilings \cup {0} : MaterializeBegin(h, c)
         \/ MaterializeReduce(h) \/ MaterializeFrontier(h)
         \/ CheckpointBegin(h) \/ CheckpointStep(h)
  PROVE  DotsInv'
<1>1. UNCHANGED <<chain, session>>
    BY DEF MaterializeBegin, MaterializeReduce, MaterializeFrontier, CheckpointBegin,
           CheckpointStep, CheckpointCapture, CheckpointFails, CheckpointEncode,
           CheckpointPublish, CheckpointConflict, store
<1>2. \A g \in Hosts : /\ host'[g].cached = host[g].cached /\ host'[g].dirty = host[g].dirty
                       /\ host'[g].objects = host[g].objects /\ host'[g].vv = host[g].vv
  <2>1. CASE MaterializeFrontier(h)
    <3>1. host' = [host EXCEPT ![h] = [host[h] EXCEPT !.lastFrontier = Heads]]
        BY <2>1 DEF MaterializeFrontier
    <3>2. host \in [Hosts -> HostState]  BY DEF TypeOK, HostsTyped
    <3> QED BY <3>1, <3>2 DEF HostState
  <2>2. CASE ~MaterializeFrontier(h)
    <3>1. host' = host
        BY <2>2 DEF MaterializeBegin, MaterializeReduce, CheckpointBegin,
           CheckpointStep, CheckpointCapture, CheckpointFails, CheckpointEncode,
           CheckpointPublish, CheckpointConflict
    <3> QED BY <3>1
  <2> QED BY <2>1, <2>2
<1>3. \A g \in Hosts : VectorCovers(g)'  BY <1>1, <1>2, VectorKept DEF DotsInv, Landed
<1>4. ASSUME NEW t \in Sessions PROVE BuilderAscends(t)'
  <2>1. Clean(HostOf[t])' <=> Clean(HostOf[t])  BY <1>2, HostAssumption DEF Clean
  <2>2. BuilderAscends(t) /\ (session[t].pc = "begun" => Clean(HostOf[t]))
      BY DEF DotsInv, BuilderAscends
  <2> QED BY <1>1, <2>1, <2>2, AscendKept
<1>5. DotsAscend'  BY <1>1 DEF DotsInv, DotsAscend
<1> QED BY <1>3, <1>4, <1>5 DEF DotsInv

LEMMA FreshBuildsNothing ==
  ASSUME NEW t \in Sessions PROVE Fresh(t).held = Nothing /\ Fresh(t).pc \in {"closed", "idle"}
BY DEF Fresh, Idle

LEMMA DotsRestart ==
  ASSUME TypeOK, DotsInv, NEW h \in Hosts, Restart(h)
  PROVE  DotsInv'
<1>1. UNCHANGED chain  BY DEF Restart, store
<1>2. host'[h].cached = 0  BY RestartEffect DEF Opened
<1>3. VectorCovers(h)'  BY <1>2 DEF VectorCovers, Clean
<1>4. \A t \in Sessions : HostOf[t] = h => BuilderAscends(t)'
    BY RestartEffect, FreshBuildsNothing, NothingBuilt
<1> QED BY <1>1, <1>3, <1>4, RestartEffect, DotsHost

LEMMA DotsInitially == Init => DotsInv
<1> SUFFICES ASSUME Init PROVE DotsInv  OBVIOUS
<1>1. \A w \in Writers : chain[w] = <<>>  BY DEF Init
<1>2. \A h \in Hosts : host[h].cached = 0  BY DEF Init, Opened
<1>3. DotsAscend  BY <1>1 DEF DotsAscend
<1>4. \A h \in Hosts : VectorCovers(h)  BY <1>2 DEF VectorCovers, Clean
<1>5. \A s \in Sessions : session[s].held = Nothing /\ session[s].pc \in {"closed", "idle"}
    BY FreshBuildsNothing DEF Init
<1>6. \A s \in Sessions : BuilderAscends(s)  BY <1>5 DEF BuilderAscends
<1> QED BY <1>3, <1>4, <1>6 DEF DotsInv

LEMMA DotsStep ==
  ASSUME MaterializedWrites
  PROVE  TypeOK /\ TypeOK' /\ ChainInv /\ CoverInv /\ SerialInv /\ DotsInv /\ [Next]_vars => DotsInv'
<1> SUFFICES ASSUME TypeOK, TypeOK', ChainInv, CoverInv, SerialInv, DotsInv, [Next]_vars
             PROVE  DotsInv'
    OBVIOUS
<1>1. ASSUME NEW s \in Sessions, OpenWriter(s) \/ BeginPatch(s) \/ CommitStep(s)
      PROVE  DotsInv'
  <2>1. ~PublishLosesAck(s) /\ ~HookFails(s)
      BY DEF PublishLosesAck, HookFails, OneAtATime, MaterializedWrites
  <2> QED BY <1>1, <2>1, DotsBuild, DotsPublish, DotsHook DEF CommitStep
<1>2. ASSUME NEW h \in Hosts,
             \/ \E c \in Ceilings \cup {0} : MaterializeBegin(h, c)
             \/ ReadStep(h) \/ CheckpointBegin(h) \/ CheckpointStep(h) \/ Restart(h)
      PROVE  DotsInv'
    BY <1>2, DotsElsewhere, DotsInstall, DotsRestart DEF ReadStep
<1>3. CASE UNCHANGED vars
  <2>1. UNCHANGED <<chain, host, session>>  BY <1>3 DEF vars
  <2>2. \A h \in Hosts : VectorCovers(h)'  BY <2>1, VectorKept DEF DotsInv, Landed
  <2>3. \A t \in Sessions : BuilderAscends(t)'  BY <2>1 DEF DotsInv, BuilderAscends, Clean
  <2>4. DotsAscend'  BY <2>1 DEF DotsInv, DotsAscend
  <2> QED BY <2>2, <2>3, <2>4 DEF DotsInv
<1> QED BY <1>1, <1>2, <1>3 DEF Next

(* A writer never uses one dot (writer, counter) in two of its patches, when *)
(* each process writes through createPatch() on a clean cache, one call at a *)
(* time: the counter it continues from covers every patch of its chain.      *)
THEOREM DotsStayUnique == ASSUME MaterializedWrites PROVE Spec => []DotsUnique
<1> DEFINE Inv == TypeOK /\ ChainInv /\ CoverInv /\ SerialInv /\ DotsInv
<1>0. OneAtATime  BY DEF MaterializedWrites
<1>1. Init => Inv
    BY TypesInit, ChainsInit, CoverInit, SerialInitially, DotsInitially
<1>2. Inv /\ [Next]_vars => Inv'
    BY <1>0, TypesStep, ChainsStep, CoverStep, SerialStep, DotsStep
<1>3. Inv => DotsUnique
  <2> SUFFICES ASSUME TypeOK, ChainInv, DotsInv,
                      NEW p \in PatchesUpTo(Heads), NEW q \in PatchesUpTo(Heads),
                      p # q, p.writer = q.writer, NEW d \in p.adds, d \in q.adds
               PROVE  FALSE
      BY DEF DotsUnique
  <2>1. PICK w \in Writers : \E i \in DOMAIN chain[w] : p = chain[w][i]  BY DEF PatchesUpTo
  <2>2. PICK i \in DOMAIN chain[w] : p = chain[w][i]  BY <2>1
  <2>3. PICK u \in Writers : \E j \in DOMAIN chain[u] : q = chain[u][j]  BY DEF PatchesUpTo
  <2>4. PICK j \in DOMAIN chain[u] : q = chain[u][j]  BY <2>3
  <2>5. u = w  BY <2>2, <2>4 DEF ChainInv, OwnChains
  <2>6. chain[w] \in Seq(Patch) /\ i \in Nat /\ j \in Nat /\ i # j
    <3>1. chain[w] \in Seq(Patch)  BY DEF TypeOK, StoreTyped
    <3> QED BY <2>2, <2>4, <2>5, <3>1
  <2>7. p \in Patch /\ q \in Patch  BY <2>2, <2>4, <2>5, <2>6
  <2>8. p.context[w] \in Nat /\ q.context[w] \in Nat /\ d \in Nat
      BY <2>7 DEF Patch, VersionVector
  <2>9. d <= p.context[w] /\ d <= q.context[w]
      BY <2>2, <2>4, <2>5 DEF DotsInv, DotsAscend
  <2>10. (i < j => p.context[w] < d) /\ (j < i => q.context[w] < d)
      BY <2>2, <2>4, <2>5 DEF DotsInv, DotsAscend
  <2> QED BY <2>6, <2>8, <2>9, <2>10
<1> QED BY <1>1, <1>2, <1>3, PTL DEF Spec
=============================================================================
