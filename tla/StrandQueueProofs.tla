------------------------- MODULE StrandQueueProofs -------------------------
(***************************************************************************)
(* What the compare-and-swap on the overlay's head guarantees for any      *)
(* number of processes, calls and failures: a returned patch stays in the  *)
(* overlay, and a recorded tick is one uninterrupted run of patches.  That *)
(* argument (OverlayInv) is about heads only: nothing is used of what the  *)
(* sort of the queue or classifyQueuedIntents return.                      *)
(*                                                                         *)
(* What the descriptor guarantees while calls neither overlap nor fail     *)
(* (OrderlyInv): no intent is lost and none is committed twice, and ticks  *)
(* drain the intents whose numbers are equally wide in the order of the    *)
(* calls.  It needs what the sorts and the fold return: SortedQueue,       *)
(* SortedAgain (the sorts at load and at the tick change nothing) and      *)
(* AdmittedAreQueued, by induction over the queue.                         *)
(***************************************************************************)
EXTENDS StrandQueue, TLAPS, WellFoundedInduction, FiniteSetTheorems

IsSequence(o) == \E S : o \in Seq(S)

Fields == {"kind", "proc", "by", "phase", "desc", "head", "item", "done", "tick", "rev"}

\* A call is a record, with a head and a position that are numbers.
HasShape(c) == DOMAIN c = Fields /\ c.head \in Nat /\ c.done \in Nat

\* A call that is about to commit has read a head the overlay has reached.
HeadReached(c) == c.phase \in {"work", "commit"} => c.head <= Len(overlay)

\* The patch of a patching call that writes its descriptor is in the overlay.
PatchLanded(c) ==
    c.phase \in {"write", "publish"} /\ c.kind \in Patching
        => \E k \in 1 .. Len(overlay) : overlay[k] = c.item

\* What a tick has committed so far follows its base without a gap.
TickLanded(c) ==
    c.phase \in {"commit", "write", "publish"} /\ c.kind = "tick"
        => /\ c.tick.base \in Nat
           /\ c.tick.base + c.done <= Len(overlay)
           /\ \A k \in 1 .. c.done : overlay[c.tick.base + k] = c.tick.admitted[k]

\* A tick commits onto its own last patch, and writes when it has them all.
TickPosition(c) ==
    /\ c.phase \in {"idle", "load", "hydrate", "work"} => c.done = 0
    /\ c.phase = "commit" => c.kind = "tick" /\ c.head = c.tick.base + c.done
    /\ c.phase \in {"write", "publish"} /\ c.kind = "tick" => c.done = Len(c.tick.admitted)

CallOK(c) == HasShape(c) /\ HeadReached(c) /\ PatchLanded(c) /\ TickLanded(c) /\ TickPosition(c)

RecordOK(r) ==
    /\ r.base \in Nat /\ Len(r.admitted) \in Nat
    /\ r.base + Len(r.admitted) <= Len(overlay)
    /\ \A k \in 1 .. Len(r.admitted) : overlay[r.base + k] = r.admitted[k]

OverlayInv ==
    /\ IsSequence(overlay)
    /\ DOMAIN call = Slots
    /\ \A s \in Slots : CallOK(call[s])
    /\ ReturnedPatchStays
    /\ \A r \in records : RecordOK(r)

\* The overlay keeps its patches in their places.
Grows ==
    /\ IsSequence(overlay')
    /\ Len(overlay) \in Nat /\ Len(overlay') \in Nat /\ Len(overlay) <= Len(overlay')
    /\ \A k \in 1 .. Len(overlay) : overlay'[k] = overlay[k]

-----------------------------------------------------------------------------
(* A successful append keeps every patch at its place and adds one at the  *)
(* end, where the call's head pointed.                                     *)
LEMMA ExtendedGrows ==
    ASSUME IsSequence(overlay), NEW head \in Nat, NEW patch, overlay' \in Extended(head, patch)
    PROVE  /\ Grows
           /\ head = Len(overlay)
           /\ Len(overlay') = Len(overlay) + 1
           /\ overlay'[Len(overlay) + 1] = patch
<1>1. head = Len(overlay) /\ overlay' = Append(overlay, patch)
  BY DEF Extended
<1>2. PICK S : overlay \in Seq(S)
  BY DEF IsSequence
<1>3. overlay \in Seq(S \cup {patch})
  BY <1>2
<1>4. Append(overlay, patch) \in Seq(S \cup {patch})
  BY <1>3
<1>5. IsSequence(overlay')
  BY <1>1, <1>4 DEF IsSequence
<1> QED
  BY <1>1, <1>3, <1>5 DEF Grows

LEMMA UnchangedGrows ==
    ASSUME IsSequence(overlay), overlay' = overlay
    PROVE  Grows
<1>1. Len(overlay) \in Nat
  BY DEF IsSequence
<1> QED
  BY <1>1 DEF Grows

(* Growth of the overlay disturbs no call and no record.                   *)
LEMMA GrowthKeepsCalls ==
    ASSUME Grows, NEW c, CallOK(c)
    PROVE  /\ c.phase \in {"work", "commit"} => c.head <= Len(overlay')
           /\ c.phase \in {"write", "publish"} /\ c.kind \in Patching
                 => \E k \in 1 .. Len(overlay') : overlay'[k] = c.item
           /\ c.phase \in {"commit", "write", "publish"} /\ c.kind = "tick"
                 => /\ c.tick.base \in Nat
                    /\ c.tick.base + c.done <= Len(overlay')
                    /\ \A k \in 1 .. c.done : overlay'[c.tick.base + k] = c.tick.admitted[k]
<1>1. ASSUME c.phase \in {"work", "commit"} PROVE c.head <= Len(overlay')
  BY <1>1 DEF CallOK, HeadReached, HasShape, Grows
<1>2. ASSUME c.phase \in {"write", "publish"}, c.kind \in Patching
      PROVE  \E k \in 1 .. Len(overlay') : overlay'[k] = c.item
  BY <1>2 DEF CallOK, PatchLanded, Grows
<1>3. ASSUME c.phase \in {"commit", "write", "publish"}, c.kind = "tick"
      PROVE  /\ c.tick.base \in Nat
             /\ c.tick.base + c.done <= Len(overlay')
             /\ \A k \in 1 .. c.done : overlay'[c.tick.base + k] = c.tick.admitted[k]
  BY <1>3 DEF CallOK, TickLanded, HasShape, Grows
<1> QED
  BY <1>1, <1>2, <1>3

LEMMA GrowthKeepsRecords ==
    ASSUME Grows, NEW r, RecordOK(r)
    PROVE  /\ r.base \in Nat /\ Len(r.admitted) \in Nat
           /\ r.base + Len(r.admitted) <= Len(overlay')
           /\ \A k \in 1 .. Len(r.admitted) : overlay'[r.base + k] = r.admitted[k]
<1>1. r.base \in Nat /\ Len(r.admitted) \in Nat /\ r.base + Len(r.admitted) <= Len(overlay)
  BY DEF RecordOK
<1>2. r.base + Len(r.admitted) <= Len(overlay')
  BY <1>1 DEF Grows
<1>3. ASSUME NEW k \in 1 .. Len(r.admitted) PROVE overlay'[r.base + k] = r.admitted[k]
  <2>1. r.base + k \in 1 .. Len(overlay)
    BY <1>1 DEF Grows
  <2>2. overlay'[r.base + k] = overlay[r.base + k]
    BY <2>1 DEF Grows
  <2> QED
    BY <2>2 DEF RecordOK
<1> QED
  BY <1>1, <1>2, <1>3

(* A step of one call preserves the invariant when it leaves that call in  *)
(* order, and returns and records only what is in the overlay.             *)
LEMMA OneCallMoves ==
    ASSUME OverlayInv, Grows, NEW s \in Slots,
           DOMAIN call' = Slots, \A t \in Slots \ {s} : call'[t] = call[t],
           CallOK(call[s])',
           \A p \in patched' : p \in patched \/ \E k \in 1 .. Len(overlay') : overlay'[k] = p,
           \A r \in records' : r \in records \/ RecordOK(r)
    PROVE  OverlayInv'
<1>1. ASSUME NEW t \in Slots PROVE CallOK(call[t])'
  <2>1. CASE t = s
    BY <2>1
  <2>2. CASE t # s
    <3>1. call'[t] = call[t] /\ CallOK(call[t])
      BY <2>2 DEF OverlayInv
    <3>2. HasShape(call[t])' /\ TickPosition(call[t])'
      BY <3>1 DEF CallOK, HasShape, TickPosition
    <3>3. HeadReached(call[t])' /\ PatchLanded(call[t])' /\ TickLanded(call[t])'
      BY <3>1, GrowthKeepsCalls DEF HeadReached, PatchLanded, TickLanded
    <3> QED
      BY <3>2, <3>3 DEF CallOK
  <2> QED
    BY <2>1, <2>2
<1>2. ReturnedPatchStays'
  BY DEF OverlayInv, ReturnedPatchStays, Grows
<1>3. ASSUME NEW r \in records' PROVE RecordOK(r)'
  <2>1. RecordOK(r)
    BY <1>3 DEF OverlayInv
  <2> QED
    BY <2>1, GrowthKeepsRecords DEF RecordOK
<1> QED
  BY <1>1, <1>2, <1>3 DEF OverlayInv, Grows

-----------------------------------------------------------------------------
LEMMA InitOverlay == Init => OverlayInv
<1> SUFFICES ASSUME Init PROVE OverlayInv
  OBVIOUS
<1>1. IsSequence(overlay)
  <2>1. overlay \in Seq({})
    BY DEF Init
  <2> QED
    BY <2>1 DEF IsSequence
<1>2. ASSUME NEW s \in Slots PROVE CallOK(call[s])
  <2>1. call[s] = Idle
    BY DEF Init
  <2> QED
    BY <2>1 DEF Idle, CallOK, HasShape, HeadReached, PatchLanded, TickLanded, TickPosition,
       Fields
<1>3. DOMAIN call = Slots
  BY DEF Init
<1> QED
  BY <1>1, <1>2, <1>3 DEF OverlayInv, Init, ReturnedPatchStays

(* A call that ends leaves an idle slot.                                   *)
LEMMA EndedCall ==
    ASSUME OverlayInv, NEW s \in Slots, Ends(s)
    PROVE  /\ DOMAIN call' = Slots /\ \A t \in Slots \ {s} : call'[t] = call[t]
           /\ CallOK(call[s])'
<1>1. call' = [call EXCEPT ![s] = Idle] /\ DOMAIN call = Slots
  BY DEF Ends, OverlayInv
<1>2. call'[s] = Idle
  BY <1>1
<1>3. CallOK(call[s])'
  BY <1>2 DEF Idle, CallOK, HasShape, HeadReached, PatchLanded, TickLanded, TickPosition, Fields
<1> QED
  BY <1>1, <1>3

LEMMA NextOverlay == OverlayInv /\ [Next]_vars => OverlayInv'
<1> SUFFICES ASSUME OverlayInv, [Next]_vars PROVE OverlayInv'
  OBVIOUS
<1>d. DOMAIN call = Slots /\ IsSequence(overlay)
  BY DEF OverlayInv
<1>u. ASSUME overlay' = overlay PROVE Grows
  BY <1>d, <1>u, UnchangedGrows
<1>k. ASSUME NEW s \in Slots PROVE CallOK(call[s])
  BY DEF OverlayInv
<1>1. ASSUME NEW s \in Slots, NEW p \in Processes, NEW kind \in Kinds, Start(s, p, kind) PROVE OverlayInv'
  <2>1. CallOK(call[s])'
    BY <1>1, <1>d DEF Start, Idle, CallOK, HasShape, HeadReached, PatchLanded, TickLanded,
       TickPosition, Fields
  <2> QED
    BY <1>1, <1>d, <1>u, <2>1, OneCallMoves DEF Start
<1>2. ASSUME NEW s \in Slots, LoadDescriptor(s) PROVE OverlayInv'
  <2>1. CallOK(call[s])'
    BY <1>2, <1>d, <1>k DEF LoadDescriptor, CallOK, HasShape, HeadReached, PatchLanded,
       TickLanded, TickPosition, Fields
  <2> QED
    BY <1>2, <1>d, <1>u, <2>1, OneCallMoves DEF LoadDescriptor
<1>3. ASSUME NEW s \in Slots, Hydrate(s) PROVE OverlayInv'
  <2>1. Grows
    BY <1>3, <1>u DEF Hydrate
  <2>2. CallOK(call[s])'
    BY <1>3, <1>d, <1>k, <2>1 DEF Hydrate, CallOK, HasShape, HeadReached, PatchLanded,
       TickLanded, TickPosition, Fields, Grows
  <2> QED
    BY <1>3, <1>d, <2>1, <2>2, OneCallMoves DEF Hydrate
<1>4. ASSUME NEW s \in Slots, NotWritable(s) PROVE OverlayInv'
  BY <1>4, <1>u, EndedCall, OneCallMoves DEF NotWritable
<1>5. ASSUME NEW s \in Slots, CallFails(s) PROVE OverlayInv'
  BY <1>5, <1>u, EndedCall, OneCallMoves DEF CallFails
<1>6. ASSUME NEW s \in Slots, CommitConflict(s) PROVE OverlayInv'
  BY <1>6, <1>u, EndedCall, OneCallMoves DEF CommitConflict
<1>7. ASSUME NEW s \in Slots, NEW fp \in Footprints, BuildQueuedIntent(s, fp) PROVE OverlayInv'
  <2>1. CallOK(call[s])'
    BY <1>7, <1>d, <1>k DEF BuildQueuedIntent, Patching, CallOK, HasShape, HeadReached,
       PatchLanded, TickLanded, TickPosition, Fields
  <2> QED
    BY <1>7, <1>d, <1>u, <2>1, OneCallMoves DEF BuildQueuedIntent
<1>8. ASSUME NEW s \in Slots, NEW fp \in Footprints, CommitPatch(s, fp) PROVE OverlayInv'
  <2> DEFINE patch == [id |-> 0, by |-> call[s].by, fp |-> fp]
  <2>1. /\ call[s].kind \in Patching /\ overlay' \in Extended(call[s].head, patch)
        /\ call' = [call EXCEPT ![s].item = patch, ![s].phase = "write"]
        /\ patched' = patched /\ records' = records
    BY <1>8 DEF CommitPatch
  <2>2. call[s].head \in Nat
    BY <1>k DEF CallOK, HasShape
  <2> HIDE DEF patch
  <2>3. /\ Grows /\ Len(overlay') = Len(overlay) + 1
        /\ overlay'[Len(overlay) + 1] = patch
    BY <1>d, <2>1, <2>2, ExtendedGrows
  <2>4. HasShape(call[s])' /\ HeadReached(call[s])' /\ TickLanded(call[s])' /\ TickPosition(call[s])'
    BY <1>d, <1>k, <2>1 DEF CallOK, Patching, HasShape, HeadReached, TickLanded, TickPosition,
       Fields
  <2>5. PatchLanded(call[s])'
    <3>1. Len(overlay') \in 1 .. Len(overlay') /\ overlay'[Len(overlay')] = patch
      BY <2>3 DEF Grows
    <3>2. call'[s].item = patch
      BY <1>d, <1>k, <2>1 DEF CallOK, HasShape, Fields
    <3> QED
      BY <3>1, <3>2 DEF PatchLanded
  <2> QED
    BY <1>d, <2>1, <2>3, <2>4, <2>5, OneCallMoves DEF CallOK
<1>9. ASSUME NEW s \in Slots, BeginTick(s) PROVE OverlayInv'
  <2>1. Grows
    BY <1>9, <1>u DEF BeginTick
  <2> DEFINE queued == Sorted(call[s].desc.queue)
             tick == [index |-> call[s].desc.ticks + 1, base |-> call[s].head,
                      drained |-> queued, admitted |-> Classify(queued).admitted,
                      rejected |-> Classify(queued).rejected]
  <2>2. call' = [call EXCEPT ![s].tick = tick, ![s].phase = "commit"] /\ call[s].phase = "work"
        /\ call[s].kind = "tick"
    BY <1>9 DEF BeginTick
  <2>3. tick.base = call[s].head
    OBVIOUS
  <2> HIDE DEF tick
  <2>4. /\ DOMAIN call'[s] = Fields /\ call'[s].phase = "commit" /\ call'[s].kind = "tick"
        /\ call'[s].head = call[s].head /\ call'[s].done = call[s].done /\ call'[s].tick = tick
    BY <1>d, <1>k, <2>2 DEF CallOK, HasShape, Fields
  <2>5. overlay' = overlay /\ call[s].done = 0 /\ call[s].head \in Nat /\ call[s].head <= Len(overlay)
    BY <1>9, <1>k, <2>2 DEF BeginTick, CallOK, HasShape, HeadReached, TickPosition
  <2>6. HasShape(call[s])' /\ HeadReached(call[s])' /\ PatchLanded(call[s])' /\ TickPosition(call[s])'
    BY <2>3, <2>4, <2>5 DEF HasShape, HeadReached, PatchLanded, TickPosition
  <2>7. TickLanded(call[s])'
    <3>1. call'[s].tick.base = call[s].head /\ 1 .. call'[s].done = {}
      BY <2>3, <2>4, <2>5
    <3> QED
      BY <2>4, <2>5, <3>1 DEF TickLanded
  <2> QED
    BY <1>9, <1>d, <2>1, <2>2, <2>6, <2>7, OneCallMoves DEF BeginTick, CallOK
<1>10. ASSUME NEW s \in Slots, CommitAdmitted(s) PROVE OverlayInv'
  <2> DEFINE patch == call[s].tick.admitted[call[s].done + 1]
  <2>1. /\ call[s].phase = "commit" /\ overlay' \in Extended(call[s].head, patch)
        /\ call' = [call EXCEPT ![s].head = call[s].head + 1, ![s].done = call[s].done + 1]
        /\ patched' = patched /\ records' = records
    BY <1>10 DEF CommitAdmitted
  <2>2. /\ call[s].head \in Nat /\ call[s].done \in Nat /\ call[s].kind = "tick"
        /\ call[s].head = call[s].tick.base + call[s].done /\ call[s].tick.base \in Nat
    BY <1>k, <2>1 DEF CallOK, HasShape, TickPosition, TickLanded
  <2> HIDE DEF patch
  <2>3. /\ Grows /\ Len(overlay') = Len(overlay) + 1 /\ call[s].head = Len(overlay)
        /\ overlay'[Len(overlay) + 1] = patch
    BY <1>d, <2>1, <2>2, ExtendedGrows
  <2>4. /\ DOMAIN call'[s] = Fields /\ call'[s].phase = "commit" /\ call'[s].kind = "tick"
        /\ call'[s].head = call[s].head + 1 /\ call'[s].done = call[s].done + 1
        /\ call'[s].tick = call[s].tick
    BY <1>d, <1>k, <2>1, <2>2 DEF CallOK, HasShape, Fields
  <2>5. HasShape(call[s])' /\ HeadReached(call[s])' /\ PatchLanded(call[s])' /\ TickPosition(call[s])'
    BY <2>2, <2>3, <2>4 DEF HasShape, HeadReached, PatchLanded, TickPosition, Grows
  <2>6. ASSUME NEW k \in 1 .. call[s].done + 1
        PROVE  overlay'[call[s].tick.base + k] = call[s].tick.admitted[k]
    <3>1. CASE k = call[s].done + 1
      BY <3>1, <2>2, <2>3 DEF patch
    <3>2. CASE k \in 1 .. call[s].done
      BY <3>2, <1>k, <2>1, <2>2, <2>3, GrowthKeepsCalls
    <3> QED
      BY <3>1, <3>2, <2>2
  <2>7. TickLanded(call[s])'
    <3>1. call'[s].tick.base = call[s].tick.base /\ call'[s].tick.admitted = call[s].tick.admitted
      BY <2>4
    <3>2. call[s].tick.base + (call[s].done + 1) <= Len(overlay')
      BY <2>2, <2>3 DEF Grows
    <3> QED
      BY <2>2, <2>4, <2>6, <3>1, <3>2 DEF TickLanded
  <2> QED
    BY <1>d, <2>1, <2>3, <2>5, <2>7, OneCallMoves DEF CallOK
<1>11. ASSUME NEW s \in Slots, PersistTick(s) PROVE OverlayInv'
  <2>1. /\ DOMAIN call'[s] = Fields /\ call'[s].phase = "write" /\ call'[s].kind = call[s].kind
        /\ call'[s].head = call[s].head /\ call'[s].done = call[s].done /\ call'[s].tick = call[s].tick
    BY <1>11, <1>d, <1>k DEF PersistTick, CallOK, HasShape, Fields
  <2>2. /\ overlay' = overlay /\ call[s].phase = "commit" /\ call[s].kind = "tick"
        /\ call[s].done = Len(call[s].tick.admitted)
    BY <1>11, <1>k DEF PersistTick, CallOK, TickPosition
  <2>3. HasShape(call[s])' /\ HeadReached(call[s])' /\ PatchLanded(call[s])' /\ TickPosition(call[s])'
    BY <1>k, <2>1, <2>2 DEF Patching, CallOK, HasShape, HeadReached, PatchLanded, TickPosition
  <2>4. TickLanded(call[s])'
    BY <1>k, <2>1, <2>2 DEF CallOK, TickLanded
  <2> QED
    BY <1>11, <1>d, <1>u, <2>3, <2>4, OneCallMoves DEF PersistTick, CallOK
<1>12. ASSUME NEW s \in Slots, NEW override, Braid(s, override) PROVE OverlayInv'
  <2>1. /\ DOMAIN call'[s] = Fields /\ call'[s].phase = "write" /\ call'[s].kind = "braid"
        /\ call'[s].head = call[s].head /\ call'[s].done = call[s].done
    BY <1>12, <1>d, <1>k DEF Braid, CallOK, HasShape, Fields
  <2>2. CallOK(call[s])'
    BY <1>k, <2>1 DEF Patching, CallOK, HasShape, HeadReached, PatchLanded, TickLanded,
       TickPosition
  <2> QED
    BY <1>12, <1>d, <1>u, <2>2, OneCallMoves DEF Braid
<1>13. ASSUME NEW s \in Slots, ReadRevision(s) PROVE OverlayInv'
  <2>1. /\ DOMAIN call'[s] = Fields /\ call'[s].phase = "publish" /\ call'[s].kind = call[s].kind
        /\ call'[s].head = call[s].head /\ call'[s].done = call[s].done /\ call'[s].tick = call[s].tick
        /\ call'[s].item = call[s].item
    BY <1>13, <1>d, <1>k DEF ReadRevision, CallOK, HasShape, Fields
  <2>2. overlay' = overlay /\ call[s].phase = "write"
    BY <1>13 DEF ReadRevision
  <2>3. HasShape(call[s])' /\ HeadReached(call[s])' /\ TickPosition(call[s])'
    BY <1>k, <2>1, <2>2 DEF CallOK, HasShape, HeadReached, TickPosition
  <2>4. PatchLanded(call[s])'
    BY <1>k, <2>1, <2>2 DEF CallOK, PatchLanded
  <2>5. TickLanded(call[s])'
    BY <1>k, <2>1, <2>2 DEF CallOK, TickLanded
  <2> QED
    BY <1>13, <1>d, <1>u, <2>3, <2>4, <2>5, OneCallMoves DEF ReadRevision, CallOK
<1>a. ASSUME NEW s \in Slots, call[s].phase = "publish", call[s].kind \in Patching
      PROVE  \E k \in 1 .. Len(overlay) : overlay[k] = call[s].item
  BY <1>a, <1>k DEF CallOK, PatchLanded
<1>14. ASSUME NEW s \in Slots, NEW answered, Publish(s, answered) PROVE OverlayInv'
  <2>1. Ends(s) /\ overlay' = overlay /\ call[s].phase = "publish"
    BY <1>14 DEF Publish
  <2>2. \A p \in patched' : p \in patched \/ \E k \in 1 .. Len(overlay') : overlay'[k] = p
    BY <1>14, <1>a, <2>1 DEF Publish, Answers
  <2>3. ASSUME NEW r \in records', r \notin records PROVE RecordOK(r)
    <3>1. r = call[s].tick /\ call[s].kind = "tick"
      BY <1>14, <2>3 DEF Publish
    <3> QED
      BY <1>k, <2>1, <3>1 DEF CallOK, HasShape, TickLanded, TickPosition, RecordOK
  <2> QED
    BY <1>u, <2>1, <2>2, <2>3, EndedCall, OneCallMoves
<1>15. ASSUME NEW s \in Slots, PublishConflict(s) PROVE OverlayInv'
  <2>1. Ends(s) /\ overlay' = overlay /\ call[s].phase = "publish" /\ records' = records
    BY <1>15 DEF PublishConflict
  <2>2. \A p \in patched' : p \in patched \/ \E k \in 1 .. Len(overlay') : overlay'[k] = p
    BY <1>15, <1>a, <2>1 DEF PublishConflict, Answers
  <2> QED
    BY <1>u, <2>1, <2>2, EndedCall, OneCallMoves
<1>q. ASSUME NEW s \in Slots, DescriptorWriteFails(s) PROVE OverlayInv'
  <2>1. Ends(s) /\ overlay' = overlay /\ records' = records
        /\ call[s].phase \in {"write", "publish"} /\ call[s].kind \in Patching
    BY <1>q DEF DescriptorWriteFails
  <2>2. \A p \in patched' : p \in patched \/ \E k \in 1 .. Len(overlay') : overlay'[k] = p
    BY <1>q, <1>k, <2>1 DEF DescriptorWriteFails, Answers, CallOK, PatchLanded
  <2> QED
    BY <1>u, <2>1, <2>2, EndedCall, OneCallMoves
<1>16. CASE UNCHANGED vars
  BY <1>16 DEF vars, OverlayInv, CallOK, HasShape, HeadReached, PatchLanded, TickLanded,
     TickPosition,
               RecordOK, ReturnedPatchStays
<1> QED
  BY <1>1, <1>2, <1>3, <1>4, <1>5, <1>6, <1>7, <1>8, <1>9, <1>10, <1>11, <1>12, <1>13, <1>14,
     <1>15, <1>16, <1>q
     DEF Next, Step

-----------------------------------------------------------------------------
(* A patch that patchStrand or a builder's commit has returned is in the   *)
(* overlay from then on, for any processes, calls and failures: appendPatch *)
(* publishes against the head the patch was built on.                      *)
THEOREM ReturnedPatchesStay == Spec => []ReturnedPatchStays
<1>1. Spec => []OverlayInv
  BY InitOverlay, NextOverlay, PTL DEF Spec
<1>2. OverlayInv => ReturnedPatchStays
  BY DEF OverlayInv
<1> QED
  BY <1>1, <1>2, PTL

(* The patches a recorded tick admitted stand in the overlay one after the *)
(* other, from the head the tick was computed on: commitAdmittedQueued-    *)
(* Intents chains its commits, and a foreign commit makes the tick throw.  *)
THEOREM TicksAreContiguous == Spec => []TickIsContiguous
<1>1. Spec => []OverlayInv
  BY InitOverlay, NextOverlay, PTL DEF Spec
<1>2. OverlayInv => TickIsContiguous
  BY DEF OverlayInv, RecordOK, TickIsContiguous
<1> QED
  BY <1>1, <1>2, PTL

-----------------------------------------------------------------------------
(* Descriptors and the calls that work on them *)

\* A queue is in the order of its ids.
InOrder(q) == \A k, l \in DOMAIN q : k < l => ~IntentBefore(q[l], q[k])

Active(s) == call[s].phase # "idle"

\* What a call holds at each of its phases.
CallHolds(c) ==
    /\ InOrder(c.desc.queue)
    /\ c.phase # "idle" => c.by \in 1 .. MaxCalls /\ c.kind \in Kinds
    /\ c.phase \in {"write", "publish"} /\ c.kind \in {"queue"} \cup Patching => c.item \in Intents
    /\ c.phase \in {"idle", "load", "hydrate", "work"} => c.done = 0
    /\ c.phase = "commit" => c.kind = "tick" /\ c.done <= Len(c.tick.admitted)

TypesInv == TypeOK /\ InOrder(desc.queue) /\ \A s \in Slots : CallHolds(call[s])

-----------------------------------------------------------------------------
(* What a call knows while none overlaps it *)

Finishing(c) == c.phase \in {"write", "publish"}
Ticking(c) == c.kind = "tick" /\ c.phase \in {"commit", "write", "publish"}

\* The descriptor and the head the call has read are still those of the repository.
UpToDate(c) ==
    /\ c.by = started
    /\ c.phase \in {"hydrate", "work", "commit"} => c.desc = desc
    /\ c.phase \in {"work", "commit"} => c.head = Len(overlay)
    /\ c.phase = "publish" => c.rev = rev

\* What it is about to write follows from the descriptor it read.
WritesNext(c) ==
    /\ Ticking(c) => /\ c.tick.drained = desc.queue
                     /\ c.tick.admitted = Classify(desc.queue).admitted
    /\ Finishing(c) /\ c.kind = "tick" => c.desc.queue = <<>> /\ c.desc.next = desc.next
    /\ Finishing(c) /\ c.kind = "queue" =>
         /\ c.item.id = desc.next /\ c.item.by = c.by
         /\ c.desc = StoredIntent(desc, c.item)
    /\ Finishing(c) /\ c.kind \in Patching \cup {"braid"} =>
         c.desc.queue = desc.queue /\ c.desc.next = desc.next

\* A call before the one in progress.
Past(n) == n <= started /\ \A s \in Slots : Active(s) => n < started

\* Every intent is of a call of its own, and ids grow with the calls.
QueueOrderly ==
    /\ \A k \in DOMAIN desc.queue : Past(desc.queue[k].by) /\ desc.queue[k].id < desc.next
    /\ \A k, l \in DOMAIN desc.queue :
         /\ desc.queue[k].by = desc.queue[l].by => k = l
         /\ desc.queue[k].id = desc.queue[l].id => k = l
         /\ desc.queue[k].id < desc.queue[l].id => desc.queue[k].by < desc.queue[l].by
    /\ desc.next <= FirstSeq + started
    /\ \A s \in Slots : Active(s) => desc.next < FirstSeq + started

\* What was drained came in the order of the calls, among ids of one width.
RecordsOrderly ==
    \A r \in records :
        /\ \A k \in DOMAIN r.drained : Past(r.drained[k].by)
        /\ \A k, l \in DOMAIN r.drained :
             k < l /\ SameWidth(r.drained[k].id, r.drained[l].id)
                => r.drained[k].by < r.drained[l].by

\* An acknowledged intent is in the queue, or in what one record drained.
AckedOnce ==
    \A i \in acked :
        /\ Past(i.by)
        /\ i \in Range(desc.queue) => \A r \in records : i \notin Range(r.drained)
        /\ i \notin Range(desc.queue) =>
             \E r \in records : /\ i \in Range(r.drained)
                                /\ \A x \in records : i \in Range(x.drained) => x = r

\* The overlay has a patch of the call in progress if that call has committed it, and
\* a queued intent if a tick is committing it.
OverlayOrderly ==
    /\ \A k, l \in DOMAIN overlay : overlay[k].by = overlay[l].by => k = l
    /\ \A k \in DOMAIN overlay :
         /\ overlay[k].by <= started
         /\ \A s \in Slots : Active(s) /\ overlay[k].by = started =>
                Finishing(call[s]) /\ call[s].kind \in Patching
    /\ \A k \in DOMAIN overlay, l \in DOMAIN desc.queue :
         overlay[k].by = desc.queue[l].by =>
            \E s \in Slots : /\ Ticking(call[s])
                             /\ \E n \in 1 .. call[s].done :
                                    call[s].tick.admitted[n].by = desc.queue[l].by

Alone == \A s, t \in Slots : Active(s) /\ Active(t) => s = t

OrderlyInv ==
    orderly => /\ Alone
               /\ \A s \in Slots : Active(s) => UpToDate(call[s]) /\ WritesNext(call[s])
               /\ QueueOrderly /\ RecordsOrderly /\ AckedOnce /\ OverlayOrderly

-----------------------------------------------------------------------------
(* The order of the ids, and the sort *)

(* compareStrings is a strict total order on the ids, padded or not. *)
LEMMA IdOrder ==
  ASSUME NEW i \in Nat, NEW j \in Nat, NEW k \in Nat
  PROVE  /\ ~IdBefore(i, i)
         /\ IdBefore(i, j) => ~IdBefore(j, i)
         /\ IdBefore(i, j) /\ IdBefore(j, k) => IdBefore(i, k)
         /\ ~IdBefore(j, i) /\ ~IdBefore(k, j) => ~IdBefore(k, i)
         /\ IdBefore(i, j) /\ ~IdBefore(k, j) => IdBefore(i, k)
         /\ i = j \/ IdBefore(i, j) \/ IdBefore(j, i)
         /\ SameWidth(i, j) => (IdBefore(i, j) <=> i < j)
BY DEF IdBefore, SameWidth

LEMMA IntentOrder ==
  ASSUME NEW a \in Intents, NEW b \in Intents, NEW c \in Intents
  PROVE  /\ ~IntentBefore(a, a)
         /\ IntentBefore(a, b) => ~IntentBefore(b, a)
         /\ ~IntentBefore(b, a) /\ ~IntentBefore(c, b) => ~IntentBefore(c, a)
         /\ IntentBefore(a, b) /\ ~IntentBefore(c, b) => IntentBefore(a, c)
<1>1. a.id \in Nat /\ b.id \in Nat /\ c.id \in Nat  BY DEF Intents
<1> QED BY <1>1, IdOrder DEF IntentBefore

LEMMA Least ==
  ASSUME NEW T \in SUBSET Nat, T # {}
  PROVE  \E x \in T : \A y \in T : x <= y
<1> DEFINE R == OpToRel(<, Nat)
<1>1. IsWellFoundedOn(R, Nat)  BY NatLessThanWellFounded
<1>2. \A x, y \in Nat : <<x, y>> \in R <=> x < y  BY DEF OpToRel
<1> HIDE DEF R
<1>3. PICK x \in T : \A y \in T : ~(<<y, x>> \in R)  BY <1>1, WFMin
<1>4. x \in Nat /\ \A y \in T : y \in Nat  OBVIOUS
<1>5. \A y \in T : ~(y < x)  BY <1>2, <1>3, <1>4, Zenon
<1> QED BY <1>4, <1>5

SortingOrder(q, p) ==
    \A k, l \in DOMAIN q : k < l =>
        \/ IntentBefore(q[p[k]], q[p[l]])
        \/ p[k] < p[l] /\ ~IntentBefore(q[p[l]], q[p[k]])

(* A queue in order and one more intent can be sorted: it goes before the    *)
(* first intent that comes after it.                                         *)
LEMMA CanBeSorted ==
  ASSUME NEW q \in Seq(Intents), InOrder(q), NEW x \in Intents
  PROVE  \E p \in Surjection(1 .. (Len(q) + 1), 1 .. (Len(q) + 1)) : SortingOrder(Append(q, x), p)
<1> DEFINE n == Len(q)
           u == Append(q, x)
           T == {k \in 1 .. n : IntentBefore(x, q[k])} \cup {n + 1}
<1>0. n \in Nat /\ DOMAIN q = 1 .. n /\ \A k \in 1 .. n : q[k] \in Intents  OBVIOUS
<1>1. DOMAIN u = 1 .. (n + 1) /\ u[n + 1] = x /\ \A k \in 1 .. n : u[k] = q[k]  BY <1>0
<1>2. PICK a \in T : \A y \in T : a <= y
  <2>1. T \in SUBSET Nat /\ T # {}  BY <1>0
  <2> HIDE DEF T
  <2> QED BY <2>1, Least
<1>3. a \in 1 .. (n + 1) /\ a \in Nat  BY <1>0, <1>2
<1>4. \A k \in 1 .. n : k < a => ~IntentBefore(x, q[k])  BY <1>0, <1>2, <1>3
<1>5. \A k \in 1 .. n : k >= a => ~IntentBefore(q[k], x) /\ IntentBefore(x, q[k])
  <2> SUFFICES ASSUME NEW k \in 1 .. n, k >= a
               PROVE  ~IntentBefore(q[k], x) /\ IntentBefore(x, q[k])
      OBVIOUS
  <2>1. a \in 1 .. n /\ IntentBefore(x, q[a])  BY <1>0, <1>2, <1>3
  <2>2. ~IntentBefore(q[k], q[a])
    <3>1. CASE k = a  BY <1>0, <3>1, IntentOrder
    <3>2. CASE k > a  BY <1>0, <2>1, <3>2 DEF InOrder
    <3> QED BY <1>3, <3>1, <3>2
  <2>3. IntentBefore(x, q[k])  BY <1>0, <2>1, <2>2, IntentOrder
  <2> QED BY <1>0, <2>3, IntentOrder
<1> DEFINE p == [k \in 1 .. (n + 1) |-> IF k < a THEN k ELSE IF k = a THEN n + 1 ELSE k - 1]
<1>6. p \in [1 .. (n + 1) -> 1 .. (n + 1)]  BY <1>0, <1>3
<1>7. \A t \in 1 .. (n + 1) : \E k \in 1 .. (n + 1) : p[k] = t
  <2> SUFFICES ASSUME NEW t \in 1 .. (n + 1) PROVE \E k \in 1 .. (n + 1) : p[k] = t  OBVIOUS
  <2>1. CASE t = n + 1  BY <1>3, <2>1
  <2>2. CASE t # n + 1 /\ t < a  BY <1>0, <1>3, <2>2
  <2>3. CASE t # n + 1 /\ ~(t < a)
    <3>1. t + 1 \in 1 .. (n + 1) /\ ~(t + 1 < a) /\ t + 1 # a  BY <1>0, <1>3, <2>3
    <3>2. p[t + 1] = t  BY <1>0, <3>1
    <3> QED BY <3>1, <3>2
  <2> QED BY <2>1, <2>2, <2>3
<1>8. SortingOrder(u, p)
  <2> SUFFICES ASSUME NEW k \in 1 .. (n + 1), NEW l \in 1 .. (n + 1), k < l
               PROVE  \/ IntentBefore(u[p[k]], u[p[l]])
                      \/ p[k] < p[l] /\ ~IntentBefore(u[p[l]], u[p[k]])
      BY <1>1 DEF SortingOrder
  <2> HIDE DEF u
  <2>1. CASE k = a
    <3>1. p[k] = n + 1 /\ p[l] = l - 1 /\ l - 1 \in 1 .. n /\ l - 1 >= a  BY <1>0, <1>3, <2>1
    <3> QED BY <1>1, <1>5, <3>1
  <2>2. CASE l = a
    <3>1. p[l] = n + 1 /\ p[k] = k /\ k \in 1 .. n /\ k < a  BY <1>0, <1>3, <2>2
    <3> QED BY <1>0, <1>1, <1>4, <3>1
  <2>3. CASE k # a /\ l # a
    <3>1. p[k] \in 1 .. n /\ p[l] \in 1 .. n /\ p[k] < p[l]  BY <1>0, <1>3, <2>3
    <3> HIDE DEF p
    <3> QED BY <1>0, <1>1, <3>1 DEF InOrder
  <2> QED BY <2>1, <2>2, <2>3
<1>9. p \in Surjection(1 .. (n + 1), 1 .. (n + 1))  BY <1>6, <1>7 DEF Surjection
<1> QED BY <1>8, <1>9

\* r has the elements of u in other places.
Shuffled(r, u) ==
    \E p \in [DOMAIN r -> DOMAIN r] :
        /\ \A k, l \in DOMAIN r : p[k] = p[l] => k = l
        /\ \A k \in DOMAIN r : r[k] = u[p[k]]

(* What _storeQueuedIntent makes of a queue in order. *)
LEMMA SortedQueue ==
  ASSUME NEW q \in Seq(Intents), InOrder(q), NEW x \in Intents,
         NEW r, r = Sorted(Append(q, x))
  PROVE  /\ r \in Seq(Intents) /\ InOrder(r) /\ Len(r) = Len(q) + 1
         /\ \A y : y \in Range(r) <=> y \in Range(q) \/ y = x
         /\ Shuffled(r, Append(q, x))
<1> DEFINE n == Len(q)
           u == Append(q, x)
           D == 1 .. (n + 1)
           ok(f) == \A k, l \in DOMAIN u : k < l =>
                        \/ IntentBefore(u[f[k]], u[f[l]])
                        \/ f[k] < f[l] /\ ~IntentBefore(u[f[l]], u[f[k]])
           p == CHOOSE f \in Surjection(DOMAIN u, DOMAIN u) : ok(f)
<1>0. n \in Nat /\ DOMAIN q = 1 .. n /\ \A k \in 1 .. n : q[k] \in Intents  OBVIOUS
<1>1. DOMAIN u = D /\ u[n + 1] = x /\ (\A k \in 1 .. n : u[k] = q[k]) /\ \A k \in D : u[k] \in Intents
    BY <1>0
<1>2. \E f \in Surjection(DOMAIN u, DOMAIN u) : ok(f)
    BY <1>1, CanBeSorted DEF SortingOrder
<1>3. p \in Surjection(DOMAIN u, DOMAIN u) /\ ok(p)  BY <1>2, Zenon
<1>4. r = [k \in DOMAIN u |-> u[p[k]]]  BY DEF Sorted
<1> HIDE DEF u
<1>5. p \in Surjection(D, D) /\ SortingOrder(u, p)  BY <1>1, <1>3 DEF SortingOrder
<1> HIDE DEF p
<1>6. p \in [D -> D] /\ \A t \in D : \E k \in D : p[k] = t  BY <1>5 DEF Surjection
<1>7. DOMAIN r = D /\ \A k \in D : r[k] = u[p[k]] /\ r[k] \in Intents
  <2>1. DOMAIN r = D /\ \A k \in D : r[k] = u[p[k]]  BY <1>1, <1>4
  <2>2. \A k \in D : u[p[k]] \in Intents
    <3> HIDE DEF D
    <3> QED BY <1>1, <1>6
  <2> QED BY <2>1, <2>2
<1>8. r \in Seq(Intents) /\ Len(r) = n + 1
  <2>1. r = [k \in 1 .. (n + 1) |-> u[p[k]]]  BY <1>1, <1>4
  <2>2. \A k \in 1 .. (n + 1) : u[p[k]] \in Intents  BY <1>7
  <2> QED BY <1>0, <2>1, <2>2
<1>9. InOrder(r)
  <2> SUFFICES ASSUME NEW k \in D, NEW l \in D, k < l PROVE ~IntentBefore(r[l], r[k])
      BY <1>7 DEF InOrder
  <2>1. IntentBefore(r[k], r[l]) \/ ~IntentBefore(r[l], r[k])  BY <1>1, <1>5,
      <1>7 DEF SortingOrder
  <2> QED BY <1>7, <2>1, IntentOrder
<1>10. ASSUME NEW k \in D, NEW l \in D, p[k] = p[l] PROVE k = l
  <2>1. \A a, b \in D : a < b => p[a] # p[b]
    <3> SUFFICES ASSUME NEW a \in D, NEW b \in D, a < b, p[a] = p[b] PROVE FALSE  OBVIOUS
    <3>1. IntentBefore(u[p[a]], u[p[b]]) \/ p[a] < p[b]  BY <1>1, <1>5 DEF SortingOrder
    <3>2. ~(p[a] < p[b])
      <4>1. p[a] \in D  BY <1>6
      <4>2. p[a] \in Nat  BY <1>0, <4>1
      <4> QED BY <4>2
    <3>3. u[p[a]] \in Intents /\ u[p[b]] = u[p[a]]  BY <1>1, <1>6
    <3> QED BY <3>1, <3>2, <3>3, IntentOrder
  <2>2. ~(k < l) /\ ~(l < k)  BY <1>10, <2>1
  <2> QED BY <1>0, <2>2
<1>11. ASSUME NEW y PROVE y \in Range(r) <=> y \in Range(q) \/ y = x
  <2>1. ASSUME y \in Range(r) PROVE y \in Range(q) \/ y = x
    <3>1. PICK k \in D : y = u[p[k]]  BY <1>7, <2>1 DEF Range
    <3>2. p[k] \in D  BY <1>6
    <3>3. p[k] = n + 1 \/ p[k] \in 1 .. n  BY <1>0, <3>2
    <3> QED BY <1>0, <1>1, <3>1, <3>3 DEF Range
  <2>2. ASSUME y \in Range(q) \/ y = x PROVE y \in Range(r)
    <3>1. \E t \in D : y = u[t]
      <4>1. CASE y = x  BY <1>0, <1>1, <4>1
      <4>2. CASE y \in Range(q)
        <5>1. PICK k \in 1 .. n : y = q[k]  BY <1>0, <4>2 DEF Range
        <5>2. k \in D  BY <1>0
        <5> QED BY <1>1, <5>1, <5>2
      <4> QED BY <2>2, <4>1, <4>2
    <3>2. PICK t \in D : y = u[t]  BY <3>1
    <3>3. PICK k \in D : p[k] = t  BY <1>6
    <3> QED BY <1>7, <3>2, <3>3 DEF Range
  <2> QED BY <2>1, <2>2
<1>12. Shuffled(r, u)
  <2>1. p \in [DOMAIN r -> DOMAIN r]  BY <1>6, <1>7
  <2> QED BY <1>7, <1>10, <2>1 DEF Shuffled
<1> QED BY <1>8, <1>9, <1>11, <1>12 DEF u

(* A queue that is in order is left as it is: the sorts of readDescriptor    *)
(* and of tick.                                                              *)
LEMMA SortedAgain ==
  ASSUME NEW q \in Seq(Intents), InOrder(q) PROVE Sorted(q) = q
<1> DEFINE D == DOMAIN q
           ok(f) == \A k, l \in DOMAIN q : k < l =>
                        \/ IntentBefore(q[f[k]], q[f[l]])
                        \/ f[k] < f[l] /\ ~IntentBefore(q[f[l]], q[f[k]])
           p == CHOOSE f \in Surjection(DOMAIN q, DOMAIN q) : ok(f)
           id == [k \in D |-> k]
<1>0. D = 1 .. Len(q) /\ Len(q) \in Nat /\ \A k \in D : q[k] \in Intents /\ k \in Nat  OBVIOUS
<1>1. id \in Surjection(D, D)  BY DEF Surjection
<1>2. ok(id)  BY DEF InOrder
<1>3. p \in Surjection(D, D) /\ ok(p)
  <2>1. \E f \in Surjection(DOMAIN q, DOMAIN q) : ok(f)  BY <1>1, <1>2
  <2> QED BY <2>1, Zenon
<1>4. Sorted(q) = [k \in D |-> q[p[k]]]  BY DEF Sorted
<1> HIDE DEF p
<1>5. p \in [D -> D] /\ \A t \in D : \E k \in D : p[k] = t  BY <1>3 DEF Surjection
<1> HIDE DEF D
<1>6. ASSUME NEW k \in D, NEW l \in D, k < l PROVE p[k] < p[l]
  <2>1. p[k] \in D /\ p[l] \in D  BY <1>5
  <2>2. p[k] \in Nat /\ p[l] \in Nat /\ q[p[k]] \in Intents /\ q[p[l]] \in Intents
      BY <1>0, <2>1
  <2>3. IntentBefore(q[p[k]], q[p[l]]) \/ p[k] < p[l]  BY <1>3, <1>6 DEF D
  <2>4. p[l] < p[k] => ~IntentBefore(q[p[k]], q[p[l]])  BY <2>1 DEF InOrder, D
  <2>5. p[l] = p[k] => ~IntentBefore(q[p[k]], q[p[l]])  BY <2>2, IntentOrder
  <2> QED BY <2>2, <2>3, <2>4, <2>5
<1>7. \A k \in D : p[k] = k
  <2> DEFINE T == {k \in D : p[k] # k}
  <2> SUFFICES ASSUME T # {} PROVE FALSE  OBVIOUS
  <2>1. T \in SUBSET Nat  BY <1>0
  <2>2. PICK k \in T : \A y \in T : k <= y
    <3> HIDE DEF T
    <3> QED BY <2>1, Least
  <2>3. k \in D /\ p[k] # k /\ p[k] \in D  BY <1>5
  <2>4. k \in Nat /\ p[k] \in Nat  BY <1>0, <2>3
  <2>5. \A j \in D : j < k => p[j] = j
    <3> SUFFICES ASSUME NEW j \in D, j < k, j \in T PROVE FALSE  OBVIOUS
    <3>1. k <= j /\ j \in Nat  BY <1>0, <2>2
    <3> QED BY <2>4, <3>1
  <2>6. PICK m \in D : p[m] = k  BY <1>5, <2>3
  <2>7. m \in Nat /\ ~(m < k) /\ m # k
    <3>1. m \in Nat  BY <1>0
    <3>2. ~(m < k)  BY <2>4, <2>5, <2>6, <3>1
    <3> QED BY <2>3, <2>6, <3>1, <3>2
  <2>8. k < m  BY <2>4, <2>7
  <2>9. p[k] < k  BY <1>6, <2>3, <2>6, <2>8
  <2>10. p[p[k]] = p[k]  BY <2>3, <2>5, <2>9
  <2>11. p[p[k]] < p[k]  BY <1>6, <2>3, <2>9
  <2> QED BY <2>4, <2>10, <2>11
<1>8. Sorted(q) = [k \in D |-> q[k]]  BY <1>4, <1>7
<1> QED BY <1>0, <1>8 DEF D

-----------------------------------------------------------------------------
(* classifyQueuedIntents as a fold *)

LEMMA CountingUp ==
  ASSUME NEW S, 0 \in S, \A n \in Nat : n \in S => n + 1 \in S
  PROVE  Nat \subseteq S
<1> SUFFICES ASSUME Nat \ S # {} PROVE FALSE  OBVIOUS
<1>1. PICK x \in Nat \ S : \A y \in Nat \ S : x <= y  BY Least
<1>2. x # 0 /\ x - 1 \in Nat  BY <1>1
<1>3. x - 1 \in S  BY <1>1, <1>2
<1> QED BY <1>1, <1>2, <1>3

LEMMA LastIsMax ==
  ASSUME NEW m \in Nat, NEW s \in SUBSET (1 .. m), m \in s
  PROVE  Max(s) = m
<1>1. \A y \in s : y \in Nat /\ m >= y  OBVIOUS
<1>2. Max(s) \in s /\ \A y \in s : Max(s) >= y  BY <1>1 DEF Max
<1>3. PICK x : x = Max(s)  OBVIOUS
<1>4. x \in Nat /\ m >= x /\ x >= m  BY <1>1, <1>2, <1>3
<1>5. x = m  BY <1>4
<1> QED BY <1>3, <1>5

NoneYet == [admitted |-> <<>>, rejected |-> <<>>]

\* One unfolding of the fold over the first m intents.
Unfolded(q, m, f) ==
    [s \in SUBSET (1 .. m) |-> IF s = {} THEN NoneYet
                               ELSE ClassifyNext(f[s \ {Max(s)}], q[Max(s)])]

LEMMA FoldExists ==
  ASSUME NEW q
  PROVE  \A m \in Nat : \E f : f = Unfolded(q, m, f)
<1> DEFINE S == {m \in Nat : \E f : f = Unfolded(q, m, f)}
<1>1. 0 \in S
  <2> DEFINE f == [s \in SUBSET (1 .. 0) |-> NoneYet]
  <2>1. \A s \in SUBSET (1 .. 0) : s = {}  OBVIOUS
  <2>2. f = Unfolded(q, 0, f)  BY <2>1 DEF Unfolded
  <2> QED BY <2>2
<1>2. ASSUME NEW m \in Nat, m \in S PROVE m + 1 \in S
  <2>1. PICK f : f = Unfolded(q, m, f)  BY <1>2
  <2> DEFINE g == [s \in SUBSET (1 .. (m + 1)) |->
                      IF m + 1 \in s THEN ClassifyNext(f[s \ {m + 1}], q[m + 1]) ELSE f[s]]
  <2>2. \A s \in SUBSET (1 .. m) : g[s] = f[s]
    <3>1. \A s \in SUBSET (1 .. m) : m + 1 \notin s /\ s \in SUBSET (1 .. (m + 1))  OBVIOUS
    <3> QED BY <3>1
  <2>3. ASSUME NEW s \in SUBSET (1 .. (m + 1))
        PROVE  g[s] = IF s = {} THEN NoneYet ELSE ClassifyNext(g[s \ {Max(s)}], q[Max(s)])
    <3>1. CASE m + 1 \in s
      <4>1. Max(s) = m + 1  BY <3>1, LastIsMax
      <4>2. s \ {m + 1} \in SUBSET (1 .. m)  OBVIOUS
      <4>3. g[s \ {m + 1}] = f[s \ {m + 1}]  BY <2>2, <4>2
      <4>4. g[s] = ClassifyNext(f[s \ {m + 1}], q[m + 1])  BY <3>1
      <4> HIDE DEF g
      <4> QED BY <3>1, <4>1, <4>3, <4>4
    <3>2. CASE m + 1 \notin s
      <4>1. s \in SUBSET (1 .. m) /\ s \ {Max(s)} \in SUBSET (1 .. m)
        <5>1. ASSUME NEW y \in s PROVE y \in 1 .. m
          <6>1. y \in 1 .. (m + 1) /\ y # m + 1  BY <3>2
          <6> QED BY <6>1
        <5> QED BY <5>1
      <4>2. g[s] = f[s] /\ g[s \ {Max(s)}] = f[s \ {Max(s)}]  BY <2>2, <4>1
      <4>3. f[s] = IF s = {} THEN NoneYet ELSE ClassifyNext(f[s \ {Max(s)}], q[Max(s)])
          BY <2>1, <4>1 DEF Unfolded
      <4> HIDE DEF g
      <4> QED BY <4>2, <4>3
    <3> QED BY <3>1, <3>2
  <2>4. g = [s \in SUBSET (1 .. (m + 1)) |-> g[s]]  OBVIOUS
  <2> HIDE DEF g
  <2>5. g = Unfolded(q, m + 1, g)  BY <2>3, <2>4 DEF Unfolded
  <2> QED BY <2>5
<1> HIDE DEF S
<1>3. Nat \subseteq S  BY <1>1, <1>2, CountingUp
<1> QED BY <1>3 DEF S

(* The classes after each of the intents. *)
LEMMA ClassifySteps ==
  ASSUME NEW q \in Seq(Intents)
  PROVE  \E g : /\ g[0] = NoneYet /\ g[Len(q)] = Classify(q)
                /\ \A k \in Nat : k < Len(q) => g[k + 1] = ClassifyNext(g[k], q[k + 1])
<1> DEFINE n == Len(q)
           iter == CHOOSE f : f = [s \in SUBSET DOMAIN q |->
                                     IF s = {} THEN [admitted |-> <<>>, rejected |-> <<>>]
                                     ELSE LET x == Max(s) IN ClassifyNext(f[s \ {x}], q[x])]
<1>0. n \in Nat /\ DOMAIN q = 1 .. n  OBVIOUS
<1>1. Classify(q) = iter[DOMAIN q]  BY DEF Classify, FoldLeft, MapThenFoldSet
<1>2. iter = Unfolded(q, n, iter)
  <2>1. \E f : f = Unfolded(q, n, f)  BY <1>0, FoldExists
  <2>2. iter = CHOOSE f : f = Unfolded(q, n, f)  BY <1>0 DEF Unfolded, NoneYet
  <2> HIDE DEF iter
  <2> QED BY <2>1, <2>2
<1> HIDE DEF iter
<1> DEFINE g == [k \in 0 .. n |-> iter[1 .. k]]
<1>3. g[0] = NoneYet
  <2>1. 1 .. 0 = {} /\ {} \in SUBSET (1 .. n)  OBVIOUS
  <2>2. iter[{}] = NoneYet  BY <1>2, <2>1 DEF Unfolded
  <2>3. g[0] = iter[1 .. 0]  BY <1>0
  <2> QED BY <2>1, <2>2, <2>3
<1>4. g[n] = Classify(q)  BY <1>0, <1>1
<1>5. ASSUME NEW k \in Nat, k < n PROVE g[k + 1] = ClassifyNext(g[k], q[k + 1])
  <2>1. g[k] = iter[1 .. k] /\ g[k + 1] = iter[1 .. (k + 1)]  BY <1>0, <1>5
  <2>2. 1 .. (k + 1) \in SUBSET (1 .. n) /\ 1 .. (k + 1) # {} /\ (1 .. (k + 1)) \ {k + 1} = 1 .. k
    <3>1. ASSUME NEW y \in 1 .. (k + 1) PROVE y \in 1 .. n  BY <1>0, <1>5
    <3>2. k + 1 \in 1 .. (k + 1)  OBVIOUS
    <3>3. \A y : y \in (1 .. (k + 1)) \ {k + 1} <=> y \in 1 .. k  OBVIOUS
    <3> QED BY <3>1, <3>2, <3>3
  <2>3. Max(1 .. (k + 1)) = k + 1  BY LastIsMax
  <2>4. iter[1 .. (k + 1)] =
            ClassifyNext(iter[(1 .. (k + 1)) \ {Max(1 .. (k + 1))}], q[Max(1 .. (k + 1))])
      BY <1>2, <2>2 DEF Unfolded
  <2> HIDE DEF g
  <2> QED BY <2>1, <2>2, <2>3, <2>4
<1> HIDE DEF g
<1> QED BY <1>3, <1>4, <1>5

(* The admitted intents are intents of the queue, each once. *)
LEMMA ClassifyAdmits ==
  ASSUME NEW q \in Seq(Intents)
  PROVE  /\ Classify(q) \in [admitted : Seq(Intents), rejected : Seq(Intents)]
         /\ \E e \in [1 .. Len(Classify(q).admitted) -> 1 .. Len(q)] :
              /\ \A i, j \in 1 .. Len(Classify(q).admitted) : e[i] = e[j] => i = j
              /\ \A i \in 1 .. Len(Classify(q).admitted) : Classify(q).admitted[i] = q[e[i]]
<1> DEFINE n == Len(q)
           Classes == [admitted : Seq(Intents), rejected : Seq(Intents)]
           Drawn(c, k) == \E e \in [1 .. Len(c.admitted) -> 1 .. k] :
                            /\ \A i, j \in 1 .. Len(c.admitted) : e[i] = e[j] => i = j
                            /\ \A i \in 1 .. Len(c.admitted) : c.admitted[i] = q[e[i]]
<1>0. n \in Nat /\ \A k \in 1 .. n : q[k] \in Intents  OBVIOUS
<1>1. PICK g : /\ g[0] = NoneYet /\ g[n] = Classify(q)
               /\ \A k \in Nat : k < n => g[k + 1] = ClassifyNext(g[k], q[k + 1])
    BY ClassifySteps
<1> DEFINE S == {k \in Nat : k <= n => g[k] \in Classes /\ Drawn(g[k], k)}
<1>2. 0 \in S
  <2>1. NoneYet \in Classes /\ Len(NoneYet.admitted) = 0  BY DEF NoneYet
  <2>2. [i \in 1 .. 0 |-> i] \in [1 .. 0 -> 1 .. 0]  OBVIOUS
  <2>3. Drawn(NoneYet, 0)  BY <2>1, <2>2
  <2> QED BY <1>1, <2>1, <2>3
<1>3. ASSUME NEW k \in Nat, k \in S PROVE k + 1 \in S
  <2> SUFFICES ASSUME k + 1 <= n PROVE g[k + 1] \in Classes /\ Drawn(g[k + 1], k + 1)  OBVIOUS
  <2>1. g[k] \in Classes /\ Drawn(g[k], k) /\ g[k + 1] = ClassifyNext(g[k], q[k + 1])
      BY <1>0, <1>1, <1>3
  <2>2. q[k + 1] \in Intents  BY <1>0
  <2>3. PICK c, d, x : c = g[k] /\ d = g[k + 1] /\ x = q[k + 1]  OBVIOUS
  <2>4. c \in Classes /\ x \in Intents  BY <2>1, <2>2, <2>3
  <2>5. PICK e \in [1 .. Len(c.admitted) -> 1 .. k] :
            /\ \A i, j \in 1 .. Len(c.admitted) : e[i] = e[j] => i = j
            /\ \A i \in 1 .. Len(c.admitted) : c.admitted[i] = q[e[i]]
      BY <2>1, <2>3
  <2>6. CASE d = [c EXCEPT !.admitted = Append(@, x)]
    <3> DEFINE L == Len(c.admitted)
               h == [i \in 1 .. (L + 1) |-> IF i = L + 1 THEN k + 1 ELSE e[i]]
    <3>1. c.admitted \in Seq(Intents) /\ L \in Nat  BY <2>4
    <3>2. d \in Classes /\ d.admitted = Append(c.admitted, x)
      <4>1. Append(c.admitted, x) \in Seq(Intents)  BY <2>4, <3>1
      <4>2. PICK y : y = Append(c.admitted, x)  OBVIOUS
      <4>3. d = [c EXCEPT !.admitted = y] /\ y \in Seq(Intents)  BY <2>6, <4>1, <4>2
      <4> QED BY <2>4, <4>2, <4>3
    <3>3. /\ Len(d.admitted) = L + 1 /\ d.admitted[L + 1] = x
          /\ \A i \in 1 .. L : d.admitted[i] = c.admitted[i]
        BY <2>4, <3>1, <3>2
    <3>4. \A i \in 1 .. L : e[i] \in 1 .. k /\ e[i] \in Nat /\ e[i] < k + 1  BY <3>1
    <3>5. h \in [1 .. (L + 1) -> 1 .. (k + 1)]
      <4>1. ASSUME NEW i \in 1 .. (L + 1) PROVE h[i] \in 1 .. (k + 1)
        <5>1. CASE i = L + 1  BY <5>1
        <5>2. CASE i # L + 1
          <6>1. i \in 1 .. L  BY <3>1, <5>2
          <6> QED BY <3>4, <5>2, <6>1
        <5> QED BY <5>1, <5>2
      <4> QED BY <4>1
    <3>6. /\ h[L + 1] = k + 1
          /\ \A i \in 1 .. L : h[i] = e[i]
      <4>1. L + 1 \in 1 .. (L + 1) /\ \A i \in 1 .. L : i \in 1 .. (L + 1) /\ i # L + 1  BY <3>1
      <4> QED BY <4>1
    <3> HIDE DEF h
    <3>7. \A i \in 1 .. (L + 1) : i = L + 1 \/ i \in 1 .. L
      <4> HIDE DEF L
      <4> QED BY <3>1
    <3>8. \A i, j \in 1 .. (L + 1) : h[i] = h[j] => i = j
      <4> SUFFICES ASSUME NEW i \in 1 .. (L + 1), NEW j \in 1 .. (L + 1), h[i] = h[j] PROVE i = j
          OBVIOUS
      <4>1. CASE i = L + 1 /\ j \in 1 .. L  BY <3>4, <3>6, <4>1
      <4>2. CASE j = L + 1 /\ i \in 1 .. L  BY <3>4, <3>6, <4>2
      <4>3. CASE i \in 1 .. L /\ j \in 1 .. L  BY <2>5, <3>6, <4>3
      <4> QED BY <3>7, <4>1, <4>2, <4>3
    <3>9. \A i \in 1 .. (L + 1) : d.admitted[i] = q[h[i]]
        BY <2>3, <2>5, <3>3, <3>6, <3>7
    <3>10. Drawn(d, k + 1)
      <4> HIDE DEF L
      <4> QED BY <3>3, <3>5, <3>8, <3>9
    <3> QED BY <2>3, <3>2, <3>10, SMTT(20)
  <2>7. CASE d = [c EXCEPT !.rejected = Append(@, x)]
    <3>1. d \in Classes /\ d.admitted = c.admitted
      <4>1. Append(c.rejected, x) \in Seq(Intents)  BY <2>4
      <4>2. PICK y : y = Append(c.rejected, x)  OBVIOUS
      <4>3. d = [c EXCEPT !.rejected = y] /\ y \in Seq(Intents)  BY <2>7, <4>1, <4>2
      <4> QED BY <2>4, <4>3
    <3>2. e \in [1 .. Len(c.admitted) -> 1 .. (k + 1)]  OBVIOUS
    <3>3. Drawn(d, k + 1)  BY <2>5, <3>1, <3>2
    <3> QED BY <2>3, <3>1, <3>3, SMTT(20)
  <2> QED BY <2>1, <2>3, <2>6, <2>7 DEF ClassifyNext
<1> HIDE DEF S
<1>4. n \in S  BY <1>0, <1>2, <1>3, CountingUp
<1>5. Classify(q) \in Classes /\ Drawn(Classify(q), n)  BY <1>0, <1>1, <1>4, SMTT(20) DEF S
<1> QED BY <1>5

\* The intents of a are intents of q, no place of q taken twice.
DrawnFrom(a, q) ==
    \E e \in [1 .. Len(a) -> 1 .. Len(q)] :
        /\ \A i, j \in 1 .. Len(a) : e[i] = e[j] => i = j
        /\ \A i \in 1 .. Len(a) : a[i] = q[e[i]]

LEMMA AdmittedAreQueued ==
  ASSUME NEW q \in Seq(Intents) PROVE DrawnFrom(Classify(q).admitted, q)
<1>1. PICK a : a = Classify(q).admitted  OBVIOUS
<1>2. DrawnFrom(a, q)  BY <1>1, ClassifyAdmits DEF DrawnFrom
<1> QED BY <1>1, <1>2

-----------------------------------------------------------------------------
(* Types *)

LEMMA StoredTyped ==
  ASSUME NEW d \in Descriptors, InOrder(d.queue), NEW x \in Intents
  PROVE  /\ StoredIntent(d, x) \in Descriptors /\ InOrder(StoredIntent(d, x).queue)
         /\ StoredIntent(d, x).queue = Sorted(Append(d.queue, x))
         /\ StoredIntent(d, x).next = d.next + 1
<1>1. d.queue \in Seq(Intents) /\ d.next + 1 \in Nat  BY DEF Descriptors
<1>2. PICK r, n : r = Sorted(Append(d.queue, x)) /\ n = d.next + 1  OBVIOUS
<1>3. r \in Seq(Intents) /\ InOrder(r)  BY <1>1, <1>2, SortedQueue
<1>4. StoredIntent(d, x) = [d EXCEPT !.queue = r, !.next = n]  BY <1>2 DEF StoredIntent
<1>5. [d EXCEPT !.queue = r, !.next = n] \in Descriptors  BY <1>1, <1>2, <1>3 DEF Descriptors
<1>6. /\ [d EXCEPT !.queue = r, !.next = n].queue = r
      /\ [d EXCEPT !.queue = r, !.next = n].next = n
    BY DEF Descriptors
<1> QED BY <1>2, <1>3, <1>4, <1>5, <1>6

LEMMA NewTyped ==
  /\ NewDescriptor \in Descriptors /\ InOrder(NewDescriptor.queue)
  /\ NewDescriptor.queue = <<>> /\ NewDescriptor.next = FirstSeq
BY StrandQueueAssumption DEF NewDescriptor, Descriptors, InOrder

LEMMA IdleTyped == Idle \in CallStates /\ CallHolds(Idle)
<1>1. NoTick \in TickRecords  BY DEF NoTick, TickRecords
<1>2. Idle \in CallStates
    BY <1>1, NewTyped, StrandQueueAssumption DEF Idle, CallStates, Phases
<1> QED BY <1>2, NewTyped DEF Idle, CallHolds

(* A step moves one call and leaves the rest typed. *)
LEMMA SlotTyped ==
  ASSUME TypesInv, NEW s \in Slots, NEW c \in CallStates, CallHolds(c),
         call' = [call EXCEPT ![s] = c],
         desc' \in Descriptors, InOrder(desc'.queue), rev' \in Nat, overlay' \in Seq(Intents),
         busy' \subseteq Processes, started' \in 0 .. MaxCalls, acked' \subseteq Intents,
         patched' \subseteq Intents, records' \subseteq TickRecords, orderly' \in BOOLEAN
  PROVE  TypesInv'
<1>1. call \in [Slots -> CallStates]  BY DEF TypesInv, TypeOK
<1>2. call' \in [Slots -> CallStates]  BY <1>1
<1>3. ASSUME NEW t \in Slots PROVE CallHolds(call'[t])
  <2>1. CASE t = s
    <3>1. call'[t] = c  BY <1>1, <2>1
    <3> QED BY <3>1
  <2>2. CASE t # s
    <3>1. call'[t] = call[t]  BY <1>1, <2>2
    <3> QED BY <3>1 DEF TypesInv
  <2> QED BY <2>1, <2>2
<1>4. TypeOK'  BY <1>2 DEF TypeOK
<1>5. InOrder(desc.queue)'  BY DEF InOrder
<1>6. \A t \in Slots : CallHolds(call[t])'  BY <1>3 DEF CallHolds, InOrder
<1> QED BY <1>4, <1>5, <1>6 DEF TypesInv

LEMMA SlotOnly ==
  ASSUME TypesInv, NEW s \in Slots, NEW c \in CallStates, CallHolds(c),
         call' = [call EXCEPT ![s] = c],
         UNCHANGED <<desc, rev, busy, started, acked, patched, records, orderly>>,
         overlay' \in Seq(Intents)
  PROVE  TypesInv'
<1>1. TypeOK /\ InOrder(desc.queue)  BY DEF TypesInv
<1>2. desc' \in Descriptors /\ InOrder(desc'.queue) /\ rev' \in Nat
    BY <1>1 DEF TypeOK
<1>3. busy' \subseteq Processes /\ started' \in 0 .. MaxCalls /\ acked' \subseteq Intents
      /\ patched' \subseteq Intents /\ records' \subseteq TickRecords /\ orderly' \in BOOLEAN
    BY <1>1 DEF TypeOK
<1> QED BY <1>2, <1>3, SlotTyped

LEMMA PatchTyped ==
  ASSUME TypesInv, NEW s \in Slots, call[s].phase # "idle", NEW id \in Nat, NEW fp \in Footprints
  PROVE  [id |-> id, by |-> call[s].by, fp |-> fp] \in Intents
BY DEF TypesInv, CallHolds, Intents

(* What Extended makes of the overlay is a sequence of patches. *)
LEMMA ExtendedTyped ==
  ASSUME overlay \in Seq(Intents), NEW head, NEW x \in Intents, overlay' \in Extended(head, x)
  PROVE  overlay' \in Seq(Intents)
BY DEF Extended

LEMMA TypesStart ==
  ASSUME TypesInv, NEW s \in Slots, NEW p \in Processes, NEW kind \in Kinds, Start(s, p, kind)
  PROVE  TypesInv'
<1> DEFINE c == [Idle EXCEPT !.kind = kind, !.by = started + 1, !.phase = "load",
                             !.proc = IF kind \in Guarded THEN p ELSE "none"]
<1>0. TypeOK /\ InOrder(desc.queue)  BY DEF TypesInv
<1>1. call' = [call EXCEPT ![s] = c]  BY DEF Start
<1>2. started + 1 \in 1 .. MaxCalls  BY <1>0, StrandQueueAssumption DEF Start, TypeOK
<1>3. PICK b, z : b = started + 1 /\ z = IF kind \in Guarded THEN p ELSE "none"  OBVIOUS
<1>4. c = [Idle EXCEPT !.kind = kind, !.by = b, !.phase = "load", !.proc = z]  BY <1>3
<1> HIDE DEF c
<1>5. z \in Processes \cup {"none"} /\ b \in 0 .. MaxCalls /\ b \in 1 .. MaxCalls
    BY <1>2, <1>3
<1>6. c \in CallStates  BY <1>4, <1>5, IdleTyped DEF CallStates, Phases
<1>7. c.desc = Idle.desc /\ c.phase = "load" /\ c.by = b /\ c.kind = kind /\ c.done = Idle.done
    BY <1>4, IdleTyped DEF CallStates
<1>8. CallHolds(c)  BY <1>5, <1>7, IdleTyped DEF CallHolds, Idle
<1>9. busy' \subseteq Processes /\ orderly' \in BOOLEAN  BY <1>0 DEF Start, TypeOK
<1>10. started' \in 0 .. MaxCalls  BY <1>2 DEF Start
<1>11. UNCHANGED <<desc, rev, overlay, acked, patched, records>>  BY DEF Start
<1> QED BY <1>0, <1>1, <1>6, <1>8, <1>9, <1>10, <1>11, SlotTyped DEF TypeOK

(* A call ends, having published or not. *)
LEMMA TypesEnd ==
  ASSUME TypesInv, NEW s \in Slots, Ends(s),
         desc' \in Descriptors, InOrder(desc'.queue), rev' \in Nat,
         UNCHANGED <<overlay, started>>, acked' \subseteq Intents,
         patched' \subseteq Intents, records' \subseteq TickRecords, orderly' \in BOOLEAN
  PROVE  TypesInv'
<1>1. call' = [call EXCEPT ![s] = Idle]  BY DEF Ends
<1>2. busy' \subseteq Processes /\ overlay' \in Seq(Intents) /\ started' \in 0 .. MaxCalls
    BY DEF Ends, TypesInv, TypeOK
<1> QED BY <1>1, <1>2, IdleTyped, SlotTyped

LEMMA TypesPublish ==
  ASSUME TypesInv, NEW s \in Slots, NEW answered \in BOOLEAN, Publish(s, answered)
  PROVE  TypesInv'
<1>0. TypeOK /\ CallHolds(call[s]) /\ call[s] \in CallStates  BY DEF TypesInv, TypeOK
<1>1. call[s].desc \in Descriptors /\ call[s].tick \in TickRecords  BY <1>0 DEF CallStates
<1>2. desc' = call[s].desc /\ rev' = rev + 1 /\ UNCHANGED <<overlay, started>> /\ Ends(s)
      /\ call[s].phase = "publish"
    BY DEF Publish
<1>3. desc' \in Descriptors /\ InOrder(desc'.queue) /\ rev' \in Nat
    BY <1>0, <1>1, <1>2 DEF CallHolds, TypeOK
<1>4. acked' \subseteq Intents /\ patched' \subseteq Intents
    BY <1>0, <1>2 DEF Publish, Answers, CallHolds, TypeOK
<1>5. records' \subseteq TickRecords  BY <1>0, <1>1 DEF Publish, TypeOK
<1>6. orderly' \in BOOLEAN  BY <1>0 DEF Publish, TypeOK
<1> QED BY <1>2, <1>3, <1>4, <1>5, <1>6, TypesEnd

LEMMA TypesOtherEnds ==
  ASSUME TypesInv, NEW s \in Slots,
         \/ CallFails(s) \/ DescriptorWriteFails(s)
         \/ NotWritable(s) \/ CommitConflict(s) \/ PublishConflict(s)
  PROVE  TypesInv'
<1>0. TypeOK /\ CallHolds(call[s]) /\ InOrder(desc.queue)  BY DEF TypesInv
<1>1. Ends(s) /\ UNCHANGED <<desc, rev, overlay, started, records>>
    BY DEF CallFails, DescriptorWriteFails, NotWritable, CommitConflict, PublishConflict
<1>2. acked' \subseteq Intents /\ patched' \subseteq Intents
  <2>1. CASE PublishConflict(s)
      BY <1>0, <2>1 DEF PublishConflict, Answers, CallHolds, TypeOK
  <2>2. CASE DescriptorWriteFails(s)
      BY <1>0, <2>2 DEF DescriptorWriteFails, Answers, CallHolds, TypeOK
  <2>3. CASE ~PublishConflict(s) /\ ~DescriptorWriteFails(s)
      BY <1>0, <2>3 DEF CallFails, NotWritable, CommitConflict, TypeOK
  <2> QED BY <2>1, <2>2, <2>3
<1>3. orderly' \in BOOLEAN
    BY <1>0 DEF CallFails, DescriptorWriteFails, NotWritable, CommitConflict, PublishConflict,
       TypeOK
<1>4. desc' \in Descriptors /\ InOrder(desc'.queue) /\ rev' \in Nat /\ records' \subseteq TickRecords
    BY <1>0, <1>1 DEF TypeOK
<1> QED BY <1>1, <1>2, <1>3, <1>4, TypesEnd

-----------------------------------------------------------------------------
(* What the steps of a call make of it *)

\* Two states of a call, of the same kind and number.
SameCall(c, d) == d.kind = c.kind /\ d.by = c.by

\* The call s becomes c.
Becomes(s, c) == c \in CallStates /\ call' = [call EXCEPT ![s] = c] /\ SameCall(call[s], c)

LEMMA LoadEffect ==
  ASSUME TypesInv, NEW s \in Slots, LoadDescriptor(s)
  PROVE  \E c : /\ Becomes(s, c) /\ c.phase = "hydrate" /\ c.desc = desc /\ c.done = call[s].done
                /\ c.tick = call[s].tick
<1>0. call[s] \in CallStates /\ desc \in Descriptors /\ InOrder(desc.queue)
    BY DEF TypesInv, TypeOK
<1>l. Parsed(desc) = desc
  <2>1. desc.queue \in Seq(Intents)  BY <1>0 DEF Descriptors
  <2>2. Sorted(desc.queue) = desc.queue  BY <1>0, <2>1, SortedAgain
  <2> QED BY <1>0, <2>2 DEF Parsed, Descriptors
<1> DEFINE c == [call[s] EXCEPT !.desc = desc, !.phase = "hydrate"]
<1>1. call' = [call EXCEPT ![s] = c]  BY <1>l DEF LoadDescriptor
<1>2. c \in CallStates /\ SameCall(call[s], c) /\ c.phase = "hydrate" /\ c.desc = desc
      /\ c.done = call[s].done /\ c.tick = call[s].tick
    BY <1>0 DEF CallStates, Phases, SameCall
<1> QED BY <1>1, <1>2 DEF Becomes

LEMMA HydrateEffect ==
  ASSUME TypesInv, NEW s \in Slots, Hydrate(s)
  PROVE  \E c : /\ Becomes(s, c) /\ c.phase = "work" /\ c.desc = call[s].desc
                /\ c.head = Len(overlay) /\ c.done = call[s].done /\ c.tick = call[s].tick
<1>0. call[s] \in CallStates /\ Len(overlay) \in Nat  BY DEF TypesInv, TypeOK
<1> DEFINE c == [call[s] EXCEPT !.head = Len(overlay), !.phase = "work"]
<1>1. call' = [call EXCEPT ![s] = c]  BY DEF Hydrate
<1>2. c \in CallStates /\ SameCall(call[s], c) /\ c.phase = "work" /\ c.desc = call[s].desc
      /\ c.head = Len(overlay) /\ c.done = call[s].done /\ c.tick = call[s].tick
    BY <1>0 DEF CallStates, Phases, SameCall
<1> QED BY <1>1, <1>2 DEF Becomes

LEMMA QueueEffect ==
  ASSUME TypesInv, NEW s \in Slots, NEW fp \in Footprints, BuildQueuedIntent(s, fp)
  PROVE  \E c : /\ Becomes(s, c) /\ c.phase = "write" /\ c.item \in Intents
                /\ c.item.id = call[s].desc.next /\ c.item.by = call[s].by
                /\ c.desc = StoredIntent(call[s].desc, c.item)
<1> DEFINE x == [id |-> call[s].desc.next, by |-> call[s].by, fp |-> fp]
           d == StoredIntent(call[s].desc, x)
           c == [call[s] EXCEPT !.item = x, !.desc = d, !.phase = "write"]
<1>0. call[s] \in CallStates /\ call[s].phase = "work" /\ CallHolds(call[s])
    BY DEF TypesInv, TypeOK, BuildQueuedIntent
<1>1. call[s].desc \in Descriptors /\ call[s].desc.next \in Nat  BY <1>0 DEF CallStates,
    Descriptors
<1>2. x \in Intents  BY <1>0, <1>1, PatchTyped
<1>3. d \in Descriptors  BY <1>0, <1>1, <1>2, StoredTyped DEF CallHolds
<1>4. call' = [call EXCEPT ![s] = c]  BY DEF BuildQueuedIntent
<1>5. x.id = call[s].desc.next /\ x.by = call[s].by  OBVIOUS
<1>6. d = StoredIntent(call[s].desc, x)  OBVIOUS
<1> HIDE DEF d, x
<1>7. c \in CallStates /\ SameCall(call[s], c) /\ c.phase = "write" /\ c.item = x /\ c.desc = d
    BY <1>0, <1>2, <1>3 DEF CallStates, Phases, SameCall
<1> QED BY <1>2, <1>4, <1>5, <1>6, <1>7 DEF Becomes

LEMMA CommitEffect ==
  ASSUME TypesInv, NEW s \in Slots, NEW fp \in Footprints, CommitPatch(s, fp)
  PROVE  \E c : /\ Becomes(s, c) /\ c.phase = "write" /\ c.item \in Intents
                /\ c.item.by = call[s].by /\ c.desc = call[s].desc
                /\ overlay' \in Extended(call[s].head, c.item)
<1> DEFINE x == [id |-> 0, by |-> call[s].by, fp |-> fp]
           c == [call[s] EXCEPT !.item = x, !.phase = "write"]
<1>0. call[s] \in CallStates /\ call[s].phase = "work"  BY DEF TypesInv, TypeOK, CommitPatch
<1>1. x \in Intents  BY <1>0, PatchTyped
<1>2. call' = [call EXCEPT ![s] = c] /\ overlay' \in Extended(call[s].head, x)
    BY DEF CommitPatch
<1>3. x.by = call[s].by  OBVIOUS
<1> HIDE DEF x
<1>4. c \in CallStates /\ SameCall(call[s], c) /\ c.phase = "write" /\ c.item = x
      /\ c.desc = call[s].desc
    BY <1>0, <1>1 DEF CallStates, Phases, SameCall
<1> QED BY <1>1, <1>2, <1>3, <1>4 DEF Becomes

LEMMA BeginTickEffect ==
  ASSUME TypesInv, NEW s \in Slots, BeginTick(s)
  PROVE  \E c : /\ Becomes(s, c) /\ c.phase = "commit" /\ c.desc = call[s].desc
                /\ c.head = call[s].head /\ c.done = call[s].done
                /\ c.tick \in TickRecords /\ c.tick.drained = call[s].desc.queue
                /\ c.tick.admitted = Classify(call[s].desc.queue).admitted
<1> DEFINE q == call[s].desc.queue
           k == Classify(q)
           t == [index |-> call[s].desc.ticks + 1, base |-> call[s].head, drained |-> q,
                 admitted |-> k.admitted, rejected |-> k.rejected]
           c == [call[s] EXCEPT !.tick = t, !.phase = "commit"]
<1>0. call[s] \in CallStates /\ InOrder(q)  BY DEF TypesInv, TypeOK, CallHolds
<1>1. call[s].desc \in Descriptors /\ call[s].head \in Nat  BY <1>0 DEF CallStates
<1>2. q \in Seq(Intents) /\ call[s].desc.ticks + 1 \in Nat  BY <1>1 DEF Descriptors
<1>3. k \in [admitted : Seq(Intents), rejected : Seq(Intents)]  BY <1>2, ClassifyAdmits
<1>s. Sorted(q) = q  BY <1>0, <1>2, SortedAgain
<1>4. call' = [call EXCEPT ![s] = c]  BY <1>s DEF BeginTick
<1>5. t.drained = q /\ t.admitted = k.admitted  OBVIOUS
<1>6. t \in TickRecords
  <2> HIDE DEF k, q
  <2> QED BY <1>1, <1>2, <1>3 DEF TickRecords
<1> HIDE DEF t
<1>7. c \in CallStates /\ SameCall(call[s], c) /\ c.phase = "commit" /\ c.tick = t
      /\ c.desc = call[s].desc /\ c.head = call[s].head /\ c.done = call[s].done
    BY <1>0, <1>6 DEF CallStates, Phases, SameCall
<1> QED BY <1>4, <1>5, <1>6, <1>7 DEF Becomes

LEMMA CommitAdmittedEffect ==
  ASSUME TypesInv, NEW s \in Slots, CommitAdmitted(s)
  PROVE  \E c : /\ Becomes(s, c) /\ c.phase = "commit" /\ c.desc = call[s].desc
                /\ c.head = call[s].head + 1 /\ c.done = call[s].done + 1
                /\ c.tick = call[s].tick
                /\ c.done \in 1 .. Len(c.tick.admitted) /\ c.tick.admitted[c.done] \in Intents
                /\ overlay' \in Extended(call[s].head, c.tick.admitted[c.done])
<1> DEFINE n == call[s].done + 1
           h == call[s].head + 1
           c == [call[s] EXCEPT !.head = h, !.done = n]
<1>0. call[s] \in CallStates /\ call[s].phase = "commit" /\ CallHolds(call[s])
      /\ call[s].done # Len(call[s].tick.admitted)
    BY DEF TypesInv, TypeOK, CommitAdmitted
<1>1. call[s].tick \in TickRecords /\ h \in Nat /\ n \in Nat /\ call[s].done \in Nat
    BY <1>0 DEF CallStates
<1>2. call[s].tick.admitted \in Seq(Intents)  BY <1>1 DEF TickRecords
<1>3. n \in 1 .. Len(call[s].tick.admitted)  BY <1>0, <1>1, <1>2 DEF CallHolds
<1>4. call[s].tick.admitted[n] \in Intents  BY <1>2, <1>3
<1>5. call' = [call EXCEPT ![s] = c]
      /\ overlay' \in Extended(call[s].head, call[s].tick.admitted[n])
    BY DEF CommitAdmitted
<1>6. n = call[s].done + 1 /\ h = call[s].head + 1  OBVIOUS
<1> HIDE DEF n, h
<1>7. c \in CallStates /\ SameCall(call[s], c) /\ c.phase = "commit" /\ c.tick = call[s].tick
      /\ c.desc = call[s].desc /\ c.head = h /\ c.done = n
    BY <1>0, <1>1 DEF CallStates, Phases, SameCall
<1> QED BY <1>3, <1>4, <1>5, <1>6, <1>7 DEF Becomes

LEMMA PersistTickEffect ==
  ASSUME TypesInv, NEW s \in Slots, PersistTick(s)
  PROVE  \E c : /\ Becomes(s, c) /\ c.phase = "write" /\ c.done = call[s].done
                /\ c.tick = call[s].tick /\ c.desc.queue = <<>>
                /\ c.desc.next = call[s].desc.next
<1> DEFINE d == [call[s].desc EXCEPT !.queue = <<>>, !.ticks = call[s].tick.index]
           c == [call[s] EXCEPT !.desc = d, !.phase = "write"]
<1>0. call[s] \in CallStates  BY DEF TypesInv, TypeOK
<1>1. call[s].desc \in Descriptors /\ call[s].tick \in TickRecords  BY <1>0 DEF CallStates
<1>2. call[s].tick.index \in Nat  BY <1>1 DEF TickRecords
<1>3. d \in Descriptors /\ d.queue = <<>> /\ d.next = call[s].desc.next
  <2>1. <<>> \in Seq(Intents)  OBVIOUS
  <2> QED BY <1>1, <1>2, <2>1 DEF Descriptors
<1>4. call' = [call EXCEPT ![s] = c]  BY DEF PersistTick, TickedDescriptor
<1> HIDE DEF d
<1>5. c \in CallStates /\ SameCall(call[s], c) /\ c.phase = "write" /\ c.tick = call[s].tick
      /\ c.desc = d /\ c.done = call[s].done
    BY <1>0, <1>3 DEF CallStates, Phases, SameCall
<1> QED BY <1>3, <1>4, <1>5 DEF Becomes

LEMMA BraidEffect ==
  ASSUME TypesInv, NEW s \in Slots, NEW override \in {"yes", "no", "keep"}, Braid(s, override)
  PROVE  \E c : /\ Becomes(s, c) /\ c.phase = "write"
                /\ c.desc.queue = call[s].desc.queue /\ c.desc.next = call[s].desc.next
<1> DEFINE w == Overridden(call[s].desc.writable, override)
           d == [call[s].desc EXCEPT !.writable = w]
           c == [call[s] EXCEPT !.desc = d, !.phase = "write"]
<1>0. call[s] \in CallStates  BY DEF TypesInv, TypeOK
<1>1. call[s].desc \in Descriptors  BY <1>0 DEF CallStates
<1>2. w \in {"yes", "no"}  BY <1>1 DEF Overridden, Descriptors
<1>4. call' = [call EXCEPT ![s] = c]  BY DEF Braid
<1> HIDE DEF w
<1>3. d \in Descriptors /\ d.queue = call[s].desc.queue /\ d.next = call[s].desc.next
    BY <1>1, <1>2 DEF Descriptors
<1> HIDE DEF d
<1>5. c \in CallStates /\ SameCall(call[s], c) /\ c.phase = "write" /\ c.desc = d
    BY <1>0, <1>3 DEF CallStates, Phases, SameCall
<1> QED BY <1>3, <1>4, <1>5 DEF Becomes

LEMMA ReadRevisionEffect ==
  ASSUME TypesInv, NEW s \in Slots, ReadRevision(s)
  PROVE  \E c : /\ Becomes(s, c) /\ c.phase = "publish" /\ c.rev = rev /\ c.desc = call[s].desc
                /\ c.item = call[s].item /\ c.done = call[s].done /\ c.tick = call[s].tick
<1>0. call[s] \in CallStates /\ rev \in Nat  BY DEF TypesInv, TypeOK
<1> DEFINE c == [call[s] EXCEPT !.rev = rev, !.phase = "publish"]
<1>1. call' = [call EXCEPT ![s] = c]  BY DEF ReadRevision
<1>2. c \in CallStates /\ SameCall(call[s], c) /\ c.phase = "publish" /\ c.rev = rev
      /\ c.desc = call[s].desc /\ c.item = call[s].item /\ c.done = call[s].done
      /\ c.tick = call[s].tick
    BY <1>0 DEF CallStates, Phases, SameCall
<1> QED BY <1>1, <1>2 DEF Becomes

(* A step of a call that leaves the descriptor of the strand alone. *)
LEMMA TypesInner ==
  ASSUME TypesInv, NEW s \in Slots, call[s].phase # "idle", NEW c, Becomes(s, c),
         InOrder(c.desc.queue), c.phase # "idle",
         c.phase \in {"write", "publish"} /\ c.kind \in {"queue"} \cup Patching => c.item \in Intents,
         c.phase \in {"load", "hydrate", "work"} => c.done = 0,
         c.phase = "commit" => c.kind = "tick" /\ c.done <= Len(c.tick.admitted),
         UNCHANGED <<desc, rev, busy, started, acked, patched, records, orderly>>,
         overlay' \in Seq(Intents)
  PROVE  TypesInv'
<1>1. CallHolds(call[s])  BY DEF TypesInv
<1>2. CallHolds(c)  BY <1>1 DEF CallHolds, Becomes, SameCall
<1> QED BY <1>2, SlotOnly DEF Becomes

LEMMA TypesStep ==
  ASSUME TypesInv, NEW s \in Slots, Step(s), overlay \in Seq(Intents)
  PROVE  TypesInv'
<1>0. CallHolds(call[s]) /\ TypeOK /\ InOrder(desc.queue) /\ call[s] \in CallStates
    BY DEF TypesInv, TypeOK
<1>1. CASE LoadDescriptor(s)
  <2>1. PICK c : Becomes(s, c) /\ c.phase = "hydrate" /\ c.desc = desc /\ c.done = call[s].done
      BY <1>1, LoadEffect
  <2>2. c.done = 0  BY <1>0, <1>1, <2>1 DEF LoadDescriptor, CallHolds
  <2> QED BY <1>0, <1>1, <2>1, <2>2, TypesInner DEF LoadDescriptor
<1>2. CASE Hydrate(s)
  <2>1. PICK c : /\ Becomes(s, c) /\ c.phase = "work" /\ c.desc = call[s].desc
                 /\ c.done = call[s].done
      BY <1>2, HydrateEffect
  <2>2. c.done = 0  BY <1>0, <1>2, <2>1 DEF Hydrate, CallHolds
  <2> QED BY <1>0, <1>2, <2>1, <2>2, TypesInner DEF Hydrate, CallHolds
<1>3. ASSUME NEW fp \in Footprints, BuildQueuedIntent(s, fp) PROVE TypesInv'
  <2>1. PICK c : /\ Becomes(s, c) /\ c.phase = "write" /\ c.item \in Intents
                 /\ c.desc = StoredIntent(call[s].desc, c.item)
      BY <1>3, QueueEffect
  <2>2. call[s].desc \in Descriptors  BY <1>0 DEF CallStates
  <2>3. InOrder(c.desc.queue)  BY <1>0, <2>1, <2>2, StoredTyped DEF CallHolds
  <2> QED BY <1>3, <2>1, <2>3, TypesInner DEF BuildQueuedIntent
<1>4. ASSUME NEW fp \in Footprints, CommitPatch(s, fp) PROVE TypesInv'
  <2>1. PICK c : /\ Becomes(s, c) /\ c.phase = "write" /\ c.item \in Intents
                 /\ c.desc = call[s].desc /\ overlay' \in Extended(call[s].head, c.item)
      BY <1>4, CommitEffect
  <2>2. overlay' \in Seq(Intents)  BY <2>1, ExtendedTyped
  <2> QED BY <1>0, <1>4, <2>1, <2>2, TypesInner DEF CommitPatch, CallHolds
<1>5. CASE BeginTick(s)
  <2>1. PICK c : /\ Becomes(s, c) /\ c.phase = "commit" /\ c.desc = call[s].desc
                 /\ c.done = call[s].done /\ c.tick \in TickRecords
      BY <1>5, BeginTickEffect
  <2>2. Len(c.tick.admitted) \in Nat  BY <2>1 DEF TickRecords
  <2>3. c.done = 0 /\ c.kind = "tick"
      BY <1>0, <1>5, <2>1 DEF BeginTick, CallHolds, Becomes, SameCall
  <2> QED BY <1>0, <1>5, <2>1, <2>2, <2>3, TypesInner DEF BeginTick, CallHolds
<1>6. CASE CommitAdmitted(s)
  <2>1. PICK c : /\ Becomes(s, c) /\ c.phase = "commit" /\ c.desc = call[s].desc
                 /\ c.done \in 1 .. Len(c.tick.admitted) /\ c.tick.admitted[c.done] \in Intents
                 /\ overlay' \in Extended(call[s].head, c.tick.admitted[c.done])
      BY <1>6, CommitAdmittedEffect
  <2>2. overlay' \in Seq(Intents)  BY <2>1, ExtendedTyped
  <2>3. c.tick \in TickRecords  BY <2>1 DEF Becomes, CallStates
  <2>4. c.kind = "tick" /\ c.done <= Len(c.tick.admitted)
      BY <1>0, <1>6, <2>1, <2>3 DEF TickRecords, CommitAdmitted, CallHolds, Becomes, SameCall
  <2> QED BY <1>0, <1>6, <2>1, <2>2, <2>4, TypesInner DEF CommitAdmitted, CallHolds
<1>7. CASE PersistTick(s)
  <2>1. PICK c : Becomes(s, c) /\ c.phase = "write" /\ c.desc.queue = <<>>
      BY <1>7, PersistTickEffect
  <2>2. c.kind \notin {"queue"} \cup Patching
      BY <1>0, <1>7, <2>1 DEF PersistTick, Becomes, SameCall, CallHolds, Patching
  <2>3. InOrder(c.desc.queue)  BY <2>1 DEF InOrder
  <2> QED BY <1>7, <2>1, <2>2, <2>3, TypesInner DEF PersistTick
<1>8. ASSUME NEW override \in {"yes", "no", "keep"}, Braid(s, override) PROVE TypesInv'
  <2>1. PICK c : Becomes(s, c) /\ c.phase = "write" /\ c.desc.queue = call[s].desc.queue
      BY <1>8, BraidEffect
  <2>2. c.kind \notin {"queue"} \cup Patching  BY <1>8, <2>1 DEF Braid, Becomes, SameCall,
      Patching
  <2> QED BY <1>0, <1>8, <2>1, <2>2, TypesInner DEF Braid, CallHolds
<1>9. CASE ReadRevision(s)
  <2>1. PICK c : /\ Becomes(s, c) /\ c.phase = "publish" /\ c.desc = call[s].desc
                 /\ c.item = call[s].item
      BY <1>9, ReadRevisionEffect
  <2>2. c.kind \in {"queue"} \cup Patching => c.item \in Intents
      BY <1>0, <1>9, <2>1 DEF ReadRevision, Becomes, SameCall, CallHolds
  <2> QED BY <1>0, <1>9, <2>1, <2>2, TypesInner DEF ReadRevision, CallHolds
<1> QED BY <1>1, <1>2, <1>3, <1>4, <1>5, <1>6, <1>7, <1>8, <1>9, TypesPublish,
    TypesOtherEnds DEF Step

LEMMA TypesNext == TypesInv /\ [Next]_vars => TypesInv'
<1> SUFFICES ASSUME TypesInv, [Next]_vars PROVE TypesInv'  OBVIOUS
<1>1. CASE UNCHANGED vars
  <2>1. TypeOK'  BY <1>1 DEF vars, TypesInv, TypeOK
  <2>2. InOrder(desc.queue)'  BY <1>1 DEF vars, TypesInv, InOrder
  <2>3. \A s \in Slots : CallHolds(call[s])'  BY <1>1 DEF vars, TypesInv, CallHolds, InOrder
  <2> QED BY <2>1, <2>2, <2>3 DEF TypesInv
<1>2. CASE Next
  <2>1. overlay \in Seq(Intents)  BY DEF TypesInv, TypeOK
  <2> QED BY <1>2, <2>1, TypesStart, TypesStep DEF Next
<1> QED BY <1>1, <1>2

LEMMA TypesInitially == Init => TypesInv
<1> SUFFICES ASSUME Init PROVE TypesInv  OBVIOUS
<1>1. call = [s \in Slots |-> Idle]  BY DEF Init
<1>2. TypeOK  BY <1>1, IdleTyped, NewTyped, StrandQueueAssumption DEF Init, TypeOK
<1>3. \A s \in Slots : CallHolds(call[s])  BY <1>1, IdleTyped
<1> QED BY <1>2, <1>3, NewTyped DEF Init, TypesInv

-----------------------------------------------------------------------------
(* Calls that do not overlap *)

LEMMA OthersIdle ==
  ASSUME TypesInv, OrderlyInv, orderly, NEW s \in Slots, Active(s), NEW c, Becomes(s, c),
         c.phase # "idle"
  PROVE  /\ \A t \in Slots \ {s} : ~Active(t) /\ call'[t] = call[t]
         /\ call'[s] = c
         /\ \A t \in Slots : Active(t)' <=> t = s
<1>1. call \in [Slots -> CallStates]  BY DEF TypesInv, TypeOK
<1>2. \A t \in Slots \ {s} : ~Active(t) /\ call'[t] = call[t]
    BY <1>1 DEF OrderlyInv, Alone, Becomes
<1>3. call'[s] = c  BY <1>1 DEF Becomes
<1> QED BY <1>2, <1>3 DEF Active

(* A step within a call: the descriptor, the records and the answers stay. *)
LEMMA OrderlyInner ==
  ASSUME TypesInv, OrderlyInv, NEW s \in Slots, Active(s), NEW c, Becomes(s, c),
         c.phase # "idle", UNCHANGED <<desc, rev, started, acked, records, orderly>>,
         orderly => UpToDate(c)' /\ WritesNext(c)' /\ OverlayOrderly'
  PROVE  OrderlyInv'
<1> SUFFICES ASSUME orderly
             PROVE  /\ Alone' /\ QueueOrderly' /\ RecordsOrderly' /\ AckedOnce'
                    /\ \A t \in Slots : Active(t)' => (UpToDate(call[t]) /\ WritesNext(call[t]))'
    BY DEF OrderlyInv
<1>1. /\ \A t \in Slots \ {s} : ~Active(t) /\ call'[t] = call[t]
      /\ call'[s] = c
      /\ \A t \in Slots : Active(t)' <=> t = s
    BY OthersIdle
<1>2. Alone'  BY <1>1 DEF Alone
<1>3. \A n : Past(n)' <=> Past(n)  BY <1>1 DEF Past
<1>4. QueueOrderly /\ RecordsOrderly /\ AckedOnce  BY DEF OrderlyInv
<1>5. QueueOrderly'
  <2>1. \A t \in Slots : Active(t)' => desc'.next < FirstSeq + started'
      BY <1>1, <1>4 DEF QueueOrderly
  <2> QED BY <1>3, <1>4, <2>1 DEF QueueOrderly
<1>6. RecordsOrderly'  BY <1>3, <1>4 DEF RecordsOrderly
<1>7. AckedOnce'  BY <1>3, <1>4 DEF AckedOnce
<1>8. ASSUME NEW t \in Slots, Active(t)' PROVE (UpToDate(call[t]) /\ WritesNext(call[t]))'
  <2>1. t = s /\ call'[t] = c  BY <1>1, <1>8
  <2>2. UpToDate(call[t])'  BY <2>1 DEF UpToDate
  <2>3. WritesNext(call[t])'  BY <2>1 DEF WritesNext, Ticking, Finishing
  <2> QED BY <2>2, <2>3
<1> QED BY <1>2, <1>5, <1>6, <1>7, <1>8

(* A step that commits nothing. *)
LEMMA OverlayKept ==
  ASSUME TypesInv, OrderlyInv, orderly, NEW s \in Slots, Active(s), NEW c, Becomes(s, c),
         c.phase # "idle", UNCHANGED <<desc, overlay, started>>,
         Finishing(call[s]) => Finishing(c),
         Ticking(call[s]) => Ticking(c) /\ c.tick = call[s].tick /\ c.done = call[s].done
  PROVE  OverlayOrderly'
<1>1. /\ \A t \in Slots \ {s} : ~Active(t) /\ call'[t] = call[t]
      /\ call'[s] = c
      /\ \A t \in Slots : Active(t)' <=> t = s
    BY OthersIdle
<1>2. OverlayOrderly /\ c.kind = call[s].kind  BY DEF OrderlyInv, Becomes, SameCall
<1>3. \A k, l \in DOMAIN overlay' : overlay'[k].by = overlay'[l].by => k = l
    BY <1>2 DEF OverlayOrderly
<1>4. ASSUME NEW k \in DOMAIN overlay'
      PROVE  /\ overlay'[k].by <= started'
             /\ \A t \in Slots : Active(t)' /\ overlay'[k].by = started' =>
                    Finishing(call'[t]) /\ call'[t].kind \in Patching
    BY <1>1, <1>2 DEF OverlayOrderly
<1>5. ASSUME NEW k \in DOMAIN overlay', NEW l \in DOMAIN desc'.queue,
             overlay'[k].by = desc'.queue[l].by
      PROVE  \E t \in Slots : /\ Ticking(call'[t])
                              /\ \E n \in 1 .. call'[t].done :
                                     call'[t].tick.admitted[n].by = desc'.queue[l].by
  <2>1. PICK t \in Slots : /\ Ticking(call[t])
                           /\ \E n \in 1 .. call[t].done :
                                  call[t].tick.admitted[n].by = desc.queue[l].by
      BY <1>2, <1>5 DEF OverlayOrderly
  <2>2. t = s  BY <1>1, <2>1 DEF Ticking, Active
  <2> QED BY <1>1, <2>1, <2>2
<1> QED BY <1>3, <1>4, <1>5 DEF OverlayOrderly, Finishing, Ticking

(* A step that commits one patch, of a number the overlay does not have. *)
LEMMA OverlayGrown ==
  ASSUME TypesInv, OrderlyInv, orderly, NEW s \in Slots, Active(s), NEW c, Becomes(s, c),
         c.phase # "idle", UNCHANGED <<desc, started>>,
         NEW x \in Intents, overlay' = Append(overlay, x),
         \A k \in DOMAIN overlay : overlay[k].by # x.by,
         x.by <= started, x.by = started => Finishing(c) /\ c.kind \in Patching,
         ~Finishing(call[s]),
         \A l \in DOMAIN desc.queue : x.by = desc.queue[l].by =>
             Ticking(c) /\ \E n \in 1 .. c.done : c.tick.admitted[n].by = desc.queue[l].by,
         Ticking(call[s]) => /\ Ticking(c) /\ c.tick = call[s].tick
                             /\ 1 .. call[s].done \subseteq 1 .. c.done
  PROVE  OverlayOrderly'
<1>1. /\ \A t \in Slots \ {s} : ~Active(t) /\ call'[t] = call[t]
      /\ call'[s] = c
      /\ \A t \in Slots : Active(t)' <=> t = s
    BY OthersIdle
<1>2. OverlayOrderly /\ c.kind = call[s].kind  BY DEF OrderlyInv, Becomes, SameCall
<1>3. overlay \in Seq(Intents)  BY DEF TypesInv, TypeOK
<1>4. PICK m \in Nat : /\ DOMAIN overlay = 1 .. (m - 1) /\ DOMAIN overlay' = 1 .. m
                       /\ m \notin DOMAIN overlay
                       /\ overlay'[m] = x /\ \A k \in DOMAIN overlay : overlay'[k] = overlay[k]
  <2> DEFINE m == Len(overlay) + 1
  <2>1. /\ m \in Nat /\ DOMAIN overlay = 1 .. (m - 1) /\ DOMAIN overlay' = 1 .. m
        /\ m \notin DOMAIN overlay
        /\ overlay'[m] = x /\ \A k \in DOMAIN overlay : overlay'[k] = overlay[k]
      BY <1>3
  <2> HIDE DEF m
  <2> QED BY <2>1
<1>5. \A k \in DOMAIN overlay' : k = m \/ k \in DOMAIN overlay  BY <1>4
<1>6. \A k, l \in DOMAIN overlay' : overlay'[k].by = overlay'[l].by => k = l
    BY <1>2, <1>4, <1>5 DEF OverlayOrderly
<1>7. ASSUME NEW k \in DOMAIN overlay'
      PROVE  /\ overlay'[k].by <= started'
             /\ \A t \in Slots : Active(t)' /\ overlay'[k].by = started' =>
                    Finishing(call'[t]) /\ call'[t].kind \in Patching
  <2>1. CASE k = m  BY <1>1, <1>4, <2>1
  <2>2. CASE k \in DOMAIN overlay
    <3>1. overlay[k].by <= started /\ overlay[k].by # started
        BY <1>2, <2>2 DEF OverlayOrderly
    <3> QED BY <1>4, <2>2, <3>1
  <2> QED BY <1>5, <2>1, <2>2
<1>8. ASSUME NEW k \in DOMAIN overlay', NEW l \in DOMAIN desc'.queue,
             overlay'[k].by = desc'.queue[l].by
      PROVE  \E t \in Slots : /\ Ticking(call'[t])
                              /\ \E n \in 1 .. call'[t].done :
                                     call'[t].tick.admitted[n].by = desc'.queue[l].by
  <2>1. CASE k = m  BY <1>1, <1>4, <1>8, <2>1
  <2>2. CASE k \in DOMAIN overlay
    <3>1. overlay[k].by = desc.queue[l].by  BY <1>4, <1>8, <2>2
    <3>2. PICK t \in Slots : /\ Ticking(call[t])
                             /\ \E n \in 1 .. call[t].done :
                                    call[t].tick.admitted[n].by = desc.queue[l].by
        BY <1>2, <2>2, <3>1 DEF OverlayOrderly
    <3>3. t = s  BY <1>1, <3>2 DEF Ticking, Active
    <3> QED BY <1>1, <3>2, <3>3
  <2> QED BY <1>5, <2>1, <2>2
<1> QED BY <1>6, <1>7, <1>8 DEF OverlayOrderly, Finishing, Ticking

(* The step of a call that has read the strand as it is. *)
LEMMA OrderlyReads ==
  ASSUME TypesInv, OrderlyInv, NEW s \in Slots, LoadDescriptor(s) \/ Hydrate(s)
  PROVE  OrderlyInv'
<1>0. orderly => UpToDate(call[s])
    BY DEF OrderlyInv, Active, LoadDescriptor, Hydrate
<1>1. CASE LoadDescriptor(s)
  <2>1. PICK c : /\ Becomes(s, c) /\ c.phase = "hydrate" /\ c.desc = desc
                 /\ c.done = call[s].done /\ c.tick = call[s].tick
      BY <1>1, LoadEffect
  <2>2. Active(s) /\ ~Finishing(call[s]) /\ ~Ticking(call[s])
      BY <1>1 DEF LoadDescriptor, Active, Finishing, Ticking
  <2>3. UNCHANGED <<desc, rev, started, acked, records, orderly, overlay>>
      BY <1>1 DEF LoadDescriptor
  <2>4. orderly => UpToDate(c)'  BY <1>0, <2>1, <2>3 DEF UpToDate, Becomes, SameCall
  <2>5. WritesNext(c)'  BY <2>1 DEF WritesNext, Ticking, Finishing
  <2>6. orderly => OverlayOrderly'  BY <2>1, <2>2, <2>3, OverlayKept
  <2> QED BY <2>1, <2>2, <2>3, <2>4, <2>5, <2>6, OrderlyInner
<1>2. CASE Hydrate(s)
  <2>1. PICK c : /\ Becomes(s, c) /\ c.phase = "work" /\ c.desc = call[s].desc
                 /\ c.head = Len(overlay)
      BY <1>2, HydrateEffect
  <2>2. Active(s) /\ ~Finishing(call[s]) /\ ~Ticking(call[s])
      BY <1>2 DEF Hydrate, Active, Finishing, Ticking
  <2>3. UNCHANGED <<desc, rev, started, acked, records, orderly, overlay>>
      BY <1>2 DEF Hydrate
  <2>4. orderly => UpToDate(c)'
      BY <1>0, <1>2, <2>1, <2>3 DEF Hydrate, UpToDate, Becomes, SameCall
  <2>5. WritesNext(c)'  BY <2>1 DEF WritesNext, Ticking, Finishing
  <2>6. orderly => OverlayOrderly'  BY <2>1, <2>2, <2>3, OverlayKept
  <2> QED BY <2>1, <2>2, <2>3, <2>4, <2>5, <2>6, OrderlyInner
<1> QED BY <1>1, <1>2

LEMMA OrderlyQueues ==
  ASSUME TypesInv, OrderlyInv, NEW s \in Slots, NEW fp \in Footprints, BuildQueuedIntent(s, fp)
  PROVE  OrderlyInv'
<1>1. PICK c : /\ Becomes(s, c) /\ c.phase = "write" /\ c.item.id = call[s].desc.next
               /\ c.item.by = call[s].by /\ c.desc = StoredIntent(call[s].desc, c.item)
    BY QueueEffect
<1>2. /\ Active(s) /\ ~Finishing(call[s]) /\ ~Ticking(call[s])
      /\ call[s].phase = "work" /\ call[s].kind = "queue"
    BY DEF BuildQueuedIntent, Active, Finishing, Ticking
<1>3. UNCHANGED <<desc, rev, started, acked, records, orderly, overlay>>
    BY DEF BuildQueuedIntent
<1>4. orderly => UpToDate(call[s])  BY <1>2 DEF OrderlyInv
<1>5. orderly => UpToDate(c)'  BY <1>1, <1>3, <1>4 DEF UpToDate, Becomes, SameCall
<1>6. orderly => WritesNext(c)'
  <2> SUFFICES ASSUME orderly PROVE WritesNext(c)'  OBVIOUS
  <2>1. call[s].desc = desc  BY <1>2, <1>4 DEF UpToDate
  <2>2. c.kind = "queue" /\ c.by = call[s].by  BY <1>1, <1>2 DEF Becomes, SameCall
  <2>3. StoredIntent(desc', c.item) = StoredIntent(desc, c.item)  BY <1>3
  <2>4. c.item.id = desc'.next /\ c.item.by = c.by /\ c.desc = StoredIntent(desc', c.item)
      BY <1>1, <1>3, <2>1, <2>2, <2>3
  <2> QED BY <2>2, <2>4 DEF WritesNext, Ticking, Finishing, Patching
<1>7. orderly => OverlayOrderly'  BY <1>1, <1>2, <1>3, OverlayKept
<1> QED BY <1>1, <1>2, <1>3, <1>5, <1>6, <1>7, OrderlyInner

LEMMA OrderlyCommits ==
  ASSUME TypesInv, OrderlyInv, NEW s \in Slots, NEW fp \in Footprints, CommitPatch(s, fp)
  PROVE  OrderlyInv'
<1>1. PICK c : /\ Becomes(s, c) /\ c.phase = "write" /\ c.item \in Intents
               /\ c.item.by = call[s].by /\ c.desc = call[s].desc
               /\ overlay' \in Extended(call[s].head, c.item)
    BY CommitEffect
<1>2. /\ Active(s) /\ ~Finishing(call[s]) /\ ~Ticking(call[s])
      /\ call[s].phase = "work" /\ call[s].kind \in Patching
    BY DEF CommitPatch, Active, Finishing, Ticking
<1>3. UNCHANGED <<desc, rev, started, acked, records, orderly>>  BY DEF CommitPatch
<1>4. orderly => UpToDate(call[s])  BY <1>2 DEF OrderlyInv
<1>5. orderly => UpToDate(c)'  BY <1>1, <1>3, <1>4 DEF UpToDate, Becomes, SameCall
<1>6. c.kind = call[s].kind  BY <1>1 DEF Becomes, SameCall
<1>7. orderly => WritesNext(c)'
  <2> SUFFICES ASSUME orderly PROVE WritesNext(c)'  OBVIOUS
  <2>1. call[s].desc = desc  BY <1>2, <1>4 DEF UpToDate
  <2> QED BY <1>1, <1>2, <1>3, <1>6, <2>1 DEF WritesNext, Ticking, Finishing, Patching
<1>8. ASSUME orderly PROVE OverlayOrderly'
  <2>1. overlay' = Append(overlay, c.item)  BY <1>1 DEF Extended
  <2>2. c.item.by = started /\ started \in Nat
      BY <1>1, <1>4, <1>8, StrandQueueAssumption DEF UpToDate, TypesInv, TypeOK
  <2>3. OverlayOrderly /\ QueueOrderly  BY <1>8 DEF OrderlyInv
  <2>4. \A k \in DOMAIN overlay : overlay[k].by # c.item.by
      BY <1>2, <2>2, <2>3 DEF OverlayOrderly
  <2>5. \A l \in DOMAIN desc.queue : c.item.by # desc.queue[l].by
    <3> SUFFICES ASSUME NEW l \in DOMAIN desc.queue PROVE c.item.by # desc.queue[l].by  OBVIOUS
    <3>1. desc.queue[l].by < started  BY <1>2, <2>3 DEF QueueOrderly, Past
    <3>2. desc.queue[l] \in Intents  BY DEF TypesInv, TypeOK, Descriptors
    <3>3. desc.queue[l].by \in Nat  BY <3>2, StrandQueueAssumption DEF Intents
    <3> QED BY <2>2, <3>1, <3>3
  <2>6. Finishing(c) /\ c.kind \in Patching /\ c.item.by <= started
      BY <1>1, <1>2, <1>6, <2>2 DEF Finishing
  <2>7. PICK x : x = c.item  OBVIOUS
  <2> QED BY <1>1, <1>2, <1>3, <1>8, <2>1, <2>4, <2>5, <2>6, <2>7, OverlayGrown
<1> QED BY <1>1, <1>2, <1>3, <1>5, <1>7, <1>8, OrderlyInner

LEMMA OrderlyBeginsTick ==
  ASSUME TypesInv, OrderlyInv, NEW s \in Slots, BeginTick(s)
  PROVE  OrderlyInv'
<1>1. PICK c : /\ Becomes(s, c) /\ c.phase = "commit" /\ c.desc = call[s].desc
               /\ c.head = call[s].head
               /\ c.tick.drained = call[s].desc.queue
               /\ c.tick.admitted = Classify(call[s].desc.queue).admitted
    BY BeginTickEffect
<1>2. /\ Active(s) /\ ~Finishing(call[s]) /\ ~Ticking(call[s])
      /\ call[s].phase = "work" /\ call[s].kind = "tick"
    BY DEF BeginTick, Active, Finishing, Ticking
<1>3. UNCHANGED <<desc, rev, started, acked, records, orderly, overlay>>  BY DEF BeginTick
<1>4. orderly => UpToDate(call[s])  BY <1>2 DEF OrderlyInv
<1>5. orderly => UpToDate(c)'  BY <1>1, <1>2, <1>3, <1>4 DEF UpToDate, Becomes, SameCall
<1>6. orderly => WritesNext(c)'
  <2> SUFFICES ASSUME orderly PROVE WritesNext(c)'  OBVIOUS
  <2>1. call[s].desc = desc  BY <1>2, <1>4 DEF UpToDate
  <2>2. PICK d : d = desc /\ d = desc'  BY <1>3
  <2>3. c.tick.drained = d.queue /\ c.tick.admitted = Classify(d.queue).admitted
      BY <1>1, <2>1, <2>2
  <2> QED BY <1>1, <2>2, <2>3 DEF WritesNext, Finishing
<1>7. orderly => OverlayOrderly'  BY <1>1, <1>2, <1>3, OverlayKept
<1> QED BY <1>1, <1>2, <1>3, <1>5, <1>6, <1>7, OrderlyInner

LEMMA OrderlyTicks ==
  ASSUME TypesInv, OrderlyInv, NEW s \in Slots, CommitAdmitted(s)
  PROVE  OrderlyInv'
<1>1. PICK c : /\ Becomes(s, c) /\ c.phase = "commit" /\ c.desc = call[s].desc
               /\ c.head = call[s].head + 1 /\ c.done = call[s].done + 1
               /\ c.tick = call[s].tick
               /\ c.done \in 1 .. Len(c.tick.admitted) /\ c.tick.admitted[c.done] \in Intents
               /\ overlay' \in Extended(call[s].head, c.tick.admitted[c.done])
    BY CommitAdmittedEffect
<1>2. Active(s) /\ ~Finishing(call[s]) /\ call[s].phase = "commit"
    BY DEF CommitAdmitted, Active, Finishing
<1>3. UNCHANGED <<desc, rev, started, acked, records, orderly>>  BY DEF CommitAdmitted
<1>4. orderly => UpToDate(call[s]) /\ WritesNext(call[s])  BY <1>2 DEF OrderlyInv
<1>5. CallHolds(call[s]) /\ call[s] \in CallStates  BY DEF TypesInv, TypeOK
<1>6. call[s].kind = "tick" /\ Ticking(call[s]) /\ c.kind = "tick" /\ Ticking(c)
    BY <1>1, <1>2, <1>5 DEF CallHolds, Ticking, Becomes, SameCall
<1>7. orderly => UpToDate(c)'
  <2> SUFFICES ASSUME orderly PROVE UpToDate(c)'  OBVIOUS
  <2>1. overlay' = Append(overlay, c.tick.admitted[c.done]) /\ call[s].head = Len(overlay)
      BY <1>1 DEF Extended
  <2>2. Len(overlay') = Len(overlay) + 1  BY <1>1, <2>1 DEF TypesInv, TypeOK
  <2> QED BY <1>1, <1>2, <1>3, <1>4, <2>1, <2>2 DEF UpToDate, Becomes, SameCall
<1>8. orderly => WritesNext(c)'
  <2> SUFFICES ASSUME orderly PROVE WritesNext(c)'  OBVIOUS
  <2>1. PICK d : d = desc /\ d = desc'  BY <1>3
  <2>2. c.tick.drained = d.queue /\ c.tick.admitted = Classify(d.queue).admitted
      BY <1>1, <1>4, <1>6, <2>1 DEF WritesNext
  <2> QED BY <1>1, <2>1, <2>2 DEF WritesNext, Finishing
<1>9. ASSUME orderly PROVE OverlayOrderly'
  <2>0. desc.queue \in Seq(Intents)  BY DEF TypesInv, TypeOK, Descriptors
  <2>1. PICK q, a, x : q = desc.queue /\ a = c.tick.admitted /\ x = c.tick.admitted[c.done]
      OBVIOUS
  <2>2. a = Classify(q).admitted  BY <1>1, <1>4, <1>6, <1>9, <2>1 DEF WritesNext
  <2>3. PICK e \in [1 .. Len(a) -> 1 .. Len(q)] :
              /\ \A i, j \in 1 .. Len(a) : e[i] = e[j] => i = j
              /\ \A i \in 1 .. Len(a) : a[i] = q[e[i]]
    <3>1. q \in Seq(Intents)  BY <2>0, <2>1
    <3>2. DrawnFrom(a, q)  BY <2>2, <3>1, AdmittedAreQueued
    <3> QED BY <3>2 DEF DrawnFrom
  <2>4. c.done \in 1 .. Len(a) /\ x = a[c.done] /\ x \in Intents  BY <1>1, <2>1
  <2>5. e[c.done] \in DOMAIN q /\ x = q[e[c.done]]  BY <2>0, <2>1, <2>3, <2>4
  <2>6. QueueOrderly /\ OverlayOrderly  BY <1>9 DEF OrderlyInv
  <2>7. x.by < started  BY <1>2, <2>1, <2>5, <2>6 DEF QueueOrderly, Past
  <2>8. x.by \in Nat /\ started \in Nat
      BY <2>4, StrandQueueAssumption DEF Intents, TypesInv, TypeOK
  <2>9. call[s].done \in Nat /\ Len(a) \in Nat
    <3>1. a \in Seq(Intents)  BY <1>1, <1>5, <2>1 DEF CallStates, TickRecords
    <3> QED BY <1>5, <3>1 DEF CallStates
  <2>10. ASSUME NEW k \in DOMAIN overlay, overlay[k].by = x.by PROVE FALSE
    <3>1. overlay[k].by = desc.queue[e[c.done]].by  BY <2>1, <2>5, <2>10
    <3>2. PICK t \in Slots : /\ Ticking(call[t])
                             /\ \E n \in 1 .. call[t].done :
                                    call[t].tick.admitted[n].by = desc.queue[e[c.done]].by
        BY <2>1, <2>5, <2>6, <3>1 DEF OverlayOrderly
    <3>3. t = s  BY <1>2, <1>9, <3>2 DEF OrderlyInv, Alone, Ticking, Active
    <3>4. PICK n \in 1 .. call[s].done : call[s].tick.admitted[n].by = desc.queue[e[c.done]].by
        BY <3>2, <3>3
    <3>5. n \in 1 .. Len(a) /\ n # c.done  BY <1>1, <2>4, <2>9
    <3>6. e[n] \in DOMAIN q /\ q[e[n]].by = q[e[c.done]].by
        BY <1>1, <2>0, <2>1, <2>3, <3>4, <3>5
    <3>7. e[n] = e[c.done]  BY <2>1, <2>5, <2>6, <3>6 DEF QueueOrderly
    <3> QED BY <2>3, <2>4, <3>5, <3>7
  <2>11. overlay' = Append(overlay, x)  BY <1>1, <2>1 DEF Extended
  <2>12. \E n \in 1 .. c.done : c.tick.admitted[n].by = x.by
      BY <1>1, <2>1, <2>9
  <2>13. 1 .. call[s].done \subseteq 1 .. c.done  BY <1>1, <2>9
  <2>14. x.by <= started /\ x.by # started  BY <2>7, <2>8
  <2>15. \A l \in DOMAIN desc.queue : x.by = desc.queue[l].by =>
            Ticking(c) /\ \E n \in 1 .. c.done : c.tick.admitted[n].by = desc.queue[l].by
      BY <1>6, <2>12
  <2>16. \A k \in DOMAIN overlay : overlay[k].by # x.by  BY <2>10
  <2>17. c.phase # "idle" /\ Becomes(s, c)  BY <1>1
  <2>18. UNCHANGED <<desc, started>>  BY <1>3
  <2>19. x.by = started => Finishing(c) /\ c.kind \in Patching  BY <2>14
  <2>20. Ticking(call[s]) => /\ Ticking(c) /\ c.tick = call[s].tick
                             /\ 1 .. call[s].done \subseteq 1 .. c.done
      BY <1>1, <1>6, <2>13
  <2> QED BY <1>2, <1>9, <2>4, <2>11, <2>14, <2>15, <2>16, <2>17, <2>18, <2>19, <2>20,
      OverlayGrown
<1> QED BY <1>1, <1>2, <1>3, <1>7, <1>8, <1>9, OrderlyInner

LEMMA OrderlyWrites ==
  ASSUME TypesInv, OrderlyInv, NEW s \in Slots,
         \/ PersistTick(s)
         \/ \E override \in {"yes", "no", "keep"} : Braid(s, override)
         \/ ReadRevision(s)
  PROVE  OrderlyInv'
<1>0. /\ Active(s) /\ CallHolds(call[s])
      /\ UNCHANGED <<desc, rev, started, acked, records, orderly, overlay>>
    BY DEF PersistTick, Braid, ReadRevision, Active, TypesInv
<1>1. orderly => UpToDate(call[s]) /\ WritesNext(call[s])  BY <1>0 DEF OrderlyInv
<1>2. PICK d : d = desc /\ d = desc'  BY <1>0
<1>3. CASE PersistTick(s)
  <2>1. PICK c : /\ Becomes(s, c) /\ c.phase = "write" /\ c.done = call[s].done
                 /\ c.tick = call[s].tick /\ c.desc.queue = <<>>
                 /\ c.desc.next = call[s].desc.next
      BY <1>3, PersistTickEffect
  <2>2. call[s].phase = "commit" /\ call[s].kind = "tick" /\ c.kind = "tick" /\ Ticking(c)
        /\ ~Finishing(call[s]) /\ Ticking(call[s])
      BY <1>0, <1>3, <2>1 DEF PersistTick, CallHolds, Becomes, SameCall, Ticking, Finishing
  <2>3. orderly => UpToDate(c)'  BY <1>0, <1>1, <2>1 DEF UpToDate, Becomes, SameCall
  <2>4. orderly => WritesNext(c)'
    <3> SUFFICES ASSUME orderly PROVE WritesNext(c)'  OBVIOUS
    <3>1. call[s].desc = d  BY <1>1, <1>2, <2>2 DEF UpToDate
    <3>2. c.tick.drained = d.queue /\ c.tick.admitted = Classify(d.queue).admitted
        BY <1>1, <1>2, <2>1, <2>2 DEF WritesNext
    <3> QED BY <1>2, <2>1, <2>2, <3>1, <3>2 DEF WritesNext, Patching
  <2>5. orderly => OverlayOrderly'  BY <1>0, <2>1, <2>2, OverlayKept
  <2> QED BY <1>0, <2>1, <2>3, <2>4, <2>5, OrderlyInner
<1>4. ASSUME NEW override \in {"yes", "no", "keep"}, Braid(s, override) PROVE OrderlyInv'
  <2>1. PICK c : /\ Becomes(s, c) /\ c.phase = "write"
                 /\ c.desc.queue = call[s].desc.queue /\ c.desc.next = call[s].desc.next
      BY <1>4, BraidEffect
  <2>2. call[s].phase = "work" /\ c.kind = "braid" /\ ~Finishing(call[s]) /\ ~Ticking(call[s])
      BY <1>4, <2>1 DEF Braid, Becomes, SameCall, Ticking, Finishing
  <2>3. orderly => UpToDate(c)'  BY <1>0, <1>1, <2>1 DEF UpToDate, Becomes, SameCall
  <2>4. orderly => WritesNext(c)'
    <3> SUFFICES ASSUME orderly PROVE WritesNext(c)'  OBVIOUS
    <3>1. call[s].desc = d  BY <1>1, <1>2, <2>2 DEF UpToDate
    <3> QED BY <1>2, <2>1, <2>2, <3>1 DEF WritesNext, Ticking
  <2>5. orderly => OverlayOrderly'  BY <1>0, <2>1, <2>2, OverlayKept
  <2> QED BY <1>0, <2>1, <2>3, <2>4, <2>5, OrderlyInner
<1>5. CASE ReadRevision(s)
  <2>1. PICK c : /\ Becomes(s, c) /\ c.phase = "publish" /\ c.rev = rev
                 /\ c.desc = call[s].desc /\ c.item = call[s].item
                 /\ c.done = call[s].done /\ c.tick = call[s].tick
      BY <1>5, ReadRevisionEffect
  <2>2. call[s].phase = "write" /\ Finishing(call[s]) /\ Finishing(c)
        /\ c.kind = call[s].kind /\ c.by = call[s].by /\ (Ticking(call[s]) <=> Ticking(c))
      BY <1>5, <2>1 DEF ReadRevision, Becomes, SameCall, Ticking, Finishing
  <2>3. orderly => UpToDate(c)'  BY <1>0, <1>1, <2>1, <2>2 DEF UpToDate
  <2>4. orderly => WritesNext(c)'
    <3> SUFFICES ASSUME orderly PROVE WritesNext(c)'  OBVIOUS
    <3>1. WritesNext(call[s])  BY <1>1
    <3>2. Finishing(c)' /\ (Ticking(c)' <=> Ticking(c))  BY <2>2 DEF Finishing, Ticking
    <3>3. Ticking(c) => c.tick.drained = d.queue /\ c.tick.admitted = Classify(d.queue).admitted
        BY <1>2, <2>1, <2>2, <3>1 DEF WritesNext
    <3>4. c.kind = "tick" => c.desc.queue = <<>> /\ c.desc.next = d.next
        BY <1>2, <2>1, <2>2, <3>1 DEF WritesNext
    <3>5. c.kind = "queue" =>
            c.item.id = d.next /\ c.item.by = c.by /\ c.desc = StoredIntent(d, c.item)
        BY <1>2, <2>1, <2>2, <3>1 DEF WritesNext
    <3>6. c.kind \in Patching \cup {"braid"} => c.desc.queue = d.queue /\ c.desc.next = d.next
        BY <1>2, <2>1, <2>2, <3>1 DEF WritesNext
    <3> QED BY <1>2, <3>2, <3>3, <3>4, <3>5, <3>6 DEF WritesNext
  <2>5. orderly => OverlayOrderly'  BY <1>0, <2>1, <2>2, OverlayKept
  <2> QED BY <1>0, <2>1, <2>3, <2>4, <2>5, OrderlyInner
<1> QED BY <1>3, <1>4, <1>5

LEMMA IntentTyped == \A x \in Intents : x.by \in Nat /\ x.id \in Nat
BY StrandQueueAssumption DEF Intents

LEMMA QueueTyped ==
  ASSUME TypesInv
  PROVE  /\ started \in Nat /\ started <= MaxCalls /\ desc.next \in Nat
         /\ desc.queue \in Seq(Intents) /\ acked \subseteq Intents
         /\ \A k \in DOMAIN desc.queue : desc.queue[k] \in Intents
         /\ \A k \in DOMAIN overlay : overlay[k] \in Intents
         /\ \A r \in records : \A k \in DOMAIN r.drained : r.drained[k] \in Intents
<1>1. started \in Nat /\ started <= MaxCalls  BY StrandQueueAssumption DEF TypesInv, TypeOK
<1>2. desc.next \in Nat /\ desc.queue \in Seq(Intents) /\ acked \subseteq Intents
    BY DEF TypesInv, TypeOK, Descriptors
<1>3. \A k \in DOMAIN desc.queue : desc.queue[k] \in Intents  BY <1>2
<1>4. overlay \in Seq(Intents)  BY DEF TypesInv, TypeOK
<1>5. \A k \in DOMAIN overlay : overlay[k] \in Intents  BY <1>4
<1>6. ASSUME NEW r \in records PROVE \A k \in DOMAIN r.drained : r.drained[k] \in Intents
  <2>1. r.drained \in Seq(Intents)  BY DEF TypesInv, TypeOK, TickRecords
  <2> QED BY <2>1
<1> QED BY <1>1, <1>2, <1>3, <1>5, <1>6

LEMMA OrderlyStart ==
  ASSUME TypesInv, OrderlyInv, NEW s \in Slots, NEW p \in Processes, NEW kind \in Kinds,
         Start(s, p, kind)
  PROVE  OrderlyInv'
<1> SUFFICES ASSUME orderly'
             PROVE  /\ Alone' /\ QueueOrderly' /\ RecordsOrderly' /\ AckedOnce' /\ OverlayOrderly'
                    /\ \A t \in Slots : Active(t)' => (UpToDate(call[t]) /\ WritesNext(call[t]))'
    BY DEF OrderlyInv
<1>1. orderly /\ \A t \in Slots : ~Active(t)  BY DEF Start, Active
<1>2. QueueOrderly /\ RecordsOrderly /\ AckedOnce /\ OverlayOrderly  BY <1>1 DEF OrderlyInv
<1>3. UNCHANGED <<desc, rev, overlay, acked, records>> /\ started' = started + 1  BY DEF Start
<1>4. call'[s].phase = "load" /\ call'[s].by = started + 1
      /\ \A t \in Slots : t # s => call'[t] = call[t]
  <2>1. call \in [Slots -> CallStates]  BY DEF TypesInv, TypeOK
  <2>2. call'[s] = [Idle EXCEPT !.kind = kind, !.by = started + 1, !.phase = "load",
                                !.proc = IF kind \in Guarded THEN p ELSE "none"]
      BY <2>1 DEF Start
  <2>3. call'[s].phase = "load" /\ call'[s].by = started + 1  BY <2>2 DEF Idle
  <2> QED BY <2>1, <2>3 DEF Start
<1>5. \A t \in Slots : Active(t)' <=> t = s  BY <1>1, <1>4 DEF Active
<1>6. started \in Nat  BY QueueTyped
<1>7. \A n \in Nat : Past(n) => Past(n)'  BY <1>3, <1>5, <1>6 DEF Past
<1>8. Alone'  BY <1>5 DEF Alone
<1>9. ASSUME NEW t \in Slots, Active(t)' PROVE (UpToDate(call[t]) /\ WritesNext(call[t]))'
  <2>1. t = s  BY <1>5, <1>9
  <2> QED BY <1>3, <1>4, <2>1 DEF UpToDate, WritesNext, Ticking, Finishing
<1>10. QueueOrderly'
  <2>1. \A k \in DOMAIN desc.queue : Past(desc.queue[k].by)'
    <3> SUFFICES ASSUME NEW k \in DOMAIN desc.queue PROVE Past(desc.queue[k].by)'  OBVIOUS
    <3>1. PICK n : n = desc.queue[k].by /\ n = desc'.queue[k].by  BY <1>3
    <3>2. n \in Nat /\ Past(n)  BY <1>2, <3>1, QueueTyped, IntentTyped DEF QueueOrderly
    <3>3. Past(n)'  BY <1>7, <3>2
    <3> QED BY <1>3, <3>1, <3>3 DEF Past, Active
  <2>2. FirstSeq + started \in Nat /\ desc.next \in Nat  BY <1>6, QueueTyped,
      StrandQueueAssumption
  <2>3. desc'.next < FirstSeq + started' /\ desc'.next <= FirstSeq + started'
      BY <1>2, <1>3, <1>6, <2>2, StrandQueueAssumption DEF QueueOrderly
  <2> QED BY <1>2, <1>3, <2>1, <2>3 DEF QueueOrderly
<1>11. RecordsOrderly'
  <2>1. ASSUME NEW r \in records, NEW k \in DOMAIN r.drained PROVE Past(r.drained[k].by)'
    <3>1. PICK n : n = r.drained[k].by  OBVIOUS
    <3>2. n \in Nat /\ Past(n)  BY <1>2, <3>1, QueueTyped, IntentTyped DEF RecordsOrderly
    <3>3. Past(n)'  BY <1>7, <3>2
    <3> QED BY <3>1, <3>3 DEF Past, Active
  <2> QED BY <1>2, <1>3, <2>1 DEF RecordsOrderly
<1>12. AckedOnce'
  <2>1. ASSUME NEW i \in acked PROVE Past(i.by)'
    <3>1. PICK n : n = i.by  OBVIOUS
    <3>2. n \in Nat /\ Past(n)  BY <1>2, <3>1, QueueTyped, IntentTyped DEF AckedOnce
    <3>3. Past(n)'  BY <1>7, <3>2
    <3> QED BY <3>1, <3>3 DEF Past, Active
  <2> QED BY <1>2, <1>3, <2>1 DEF AckedOnce
<1>13. OverlayOrderly'
  <2>1. \A k, l \in DOMAIN overlay' : overlay'[k].by = overlay'[l].by => k = l
      BY <1>2, <1>3 DEF OverlayOrderly
  <2>2. ASSUME NEW k \in DOMAIN overlay'
        PROVE  overlay'[k].by <= started' /\ overlay'[k].by # started'
    <3>1. overlay[k].by \in Nat /\ overlay[k].by <= started
        BY <1>2, <1>3, QueueTyped, IntentTyped DEF OverlayOrderly
    <3> QED BY <1>3, <1>6, <3>1
  <2>3. ASSUME NEW k \in DOMAIN overlay', NEW l \in DOMAIN desc'.queue
        PROVE  overlay'[k].by # desc'.queue[l].by
    <3> SUFFICES ASSUME overlay[k].by = desc.queue[l].by PROVE FALSE  BY <1>3
    <3>1. \E t \in Slots : Ticking(call[t])  BY <1>2, <1>3 DEF OverlayOrderly
    <3> QED BY <1>1, <3>1 DEF Ticking, Active
  <2> QED BY <2>1, <2>2, <2>3 DEF OverlayOrderly
<1> QED BY <1>8, <1>9, <1>10, <1>11, <1>12, <1>13

-----------------------------------------------------------------------------
(* The call in progress ends *)

LEMMA NoneLeft ==
  ASSUME TypesInv, OrderlyInv, orderly, NEW s \in Slots, Active(s), Ends(s)
  PROVE  /\ \A t \in Slots : ~Active(t)'
         /\ \A t \in Slots : Ticking(call[t]) => t = s
<1>1. call \in [Slots -> CallStates]  BY DEF TypesInv, TypeOK
<1>2. \A t \in Slots : t # s => ~Active(t)  BY DEF OrderlyInv, Alone
<1>3. call'[s].phase = "idle" /\ \A t \in Slots : t # s => call'[t] = call[t]
    BY <1>1 DEF Ends, Idle
<1> QED BY <1>2, <1>3 DEF Active, Ticking

LEMMA OrderlyEnd ==
  ASSUME TypesInv, OrderlyInv, orderly, NEW s \in Slots, Active(s), Ends(s),
         UNCHANGED <<overlay, started>>, QueueOrderly', RecordsOrderly', AckedOnce',
         \A k \in DOMAIN overlay, l \in DOMAIN desc'.queue : overlay[k].by # desc'.queue[l].by
  PROVE  OrderlyInv'
<1>1. \A t \in Slots : ~Active(t)'  BY NoneLeft
<1>2. OverlayOrderly  BY DEF OrderlyInv
<1>3. OverlayOrderly'  BY <1>1, <1>2 DEF OverlayOrderly
<1> QED BY <1>1, <1>3 DEF OrderlyInv, Alone

(* What was past the call stays past it, and the call itself joins. *)
LEMMA PastAtEnd ==
  ASSUME TypesInv, OrderlyInv, orderly, NEW s \in Slots, Active(s), Ends(s), UNCHANGED started
  PROVE  \A n \in Nat : /\ Past(n) => n < started /\ Past(n)'
                        /\ n <= started => Past(n)'
BY NoneLeft, QueueTyped DEF Past

LEMMA RecordsAtEnd ==
  ASSUME TypesInv, OrderlyInv, orderly, NEW s \in Slots, Active(s), Ends(s),
         UNCHANGED <<records, started>>
  PROVE  RecordsOrderly'
<1>1. RecordsOrderly  BY DEF OrderlyInv
<1>2. ASSUME NEW r \in records, NEW k \in DOMAIN r.drained PROVE Past(r.drained[k].by)'
  <2>1. PICK n : n = r.drained[k].by  OBVIOUS
  <2>2. n \in Nat /\ Past(n)  BY <1>1, <2>1, QueueTyped, IntentTyped DEF RecordsOrderly
  <2>3. Past(n)'  BY <2>2, PastAtEnd
  <2> QED BY <2>1, <2>3 DEF Past, Active
<1> QED BY <1>1, <1>2 DEF RecordsOrderly

LEMMA AckedAtEnd ==
  ASSUME TypesInv, OrderlyInv, orderly, NEW s \in Slots, Active(s), Ends(s), UNCHANGED started
  PROVE  \A i \in acked : Past(i.by)' /\ i.by < started
<1>1. ASSUME NEW i \in acked PROVE Past(i.by)' /\ i.by < started
  <2>1. PICK n : n = i.by  OBVIOUS
  <2>2. n \in Nat /\ Past(n)  BY <2>1, QueueTyped, IntentTyped DEF OrderlyInv, AckedOnce
  <2>3. Past(n)' /\ n < started  BY <2>2, PastAtEnd
  <2> QED BY <2>1, <2>3 DEF Past, Active
<1> QED BY <1>1

(* It ends and leaves the queue as it was. *)
LEMMA OrderlyKeeps ==
  ASSUME TypesInv, OrderlyInv, orderly, NEW s \in Slots, Active(s), Ends(s), ~Ticking(call[s]),
         desc'.queue = desc.queue, desc'.next = desc.next,
         UNCHANGED <<overlay, started, acked, records>>
  PROVE  OrderlyInv'
<1>1. QueueOrderly /\ AckedOnce /\ OverlayOrderly  BY DEF OrderlyInv
<1>2. QueueOrderly'
  <2>1. \A t \in Slots : ~Active(t)'  BY NoneLeft
  <2>2. ASSUME NEW k \in DOMAIN desc.queue PROVE Past(desc.queue[k].by)'
    <3>1. PICK n : n = desc.queue[k].by /\ n = desc'.queue[k].by  OBVIOUS
    <3>2. n \in Nat /\ Past(n)  BY <1>1, <3>1, QueueTyped, IntentTyped DEF QueueOrderly
    <3>3. Past(n)'  BY <3>2, PastAtEnd
    <3> QED BY <3>1, <3>3 DEF Past, Active
  <2> QED BY <1>1, <2>1, <2>2 DEF QueueOrderly
<1>3. RecordsOrderly'  BY RecordsAtEnd
<1>4. AckedOnce'  BY <1>1, AckedAtEnd DEF AckedOnce
<1>5. ASSUME NEW k \in DOMAIN overlay, NEW l \in DOMAIN desc'.queue
      PROVE  overlay[k].by # desc'.queue[l].by
    BY <1>1, NoneLeft DEF OverlayOrderly
<1> QED BY <1>2, <1>3, <1>4, <1>5, OrderlyEnd

LEMMA OrderlyOtherEnds ==
  ASSUME TypesInv, OrderlyInv, NEW s \in Slots,
         \/ CallFails(s) \/ DescriptorWriteFails(s)
         \/ NotWritable(s) \/ CommitConflict(s) \/ PublishConflict(s)
  PROVE  OrderlyInv'
<1>1. CASE CallFails(s) \/ DescriptorWriteFails(s)
    BY <1>1 DEF CallFails, DescriptorWriteFails, OrderlyInv
<1>2. CASE ~orderly' BY <1>2 DEF OrderlyInv
<1>3. CASE orderly' /\ ~CallFails(s) /\ ~DescriptorWriteFails(s)
  <2>1. orderly /\ Active(s)
      BY <1>3 DEF NotWritable, CommitConflict, PublishConflict, Active
  <2>2. UpToDate(call[s])  BY <2>1 DEF OrderlyInv
  <2>3. ~CommitConflict(s)  BY <2>2 DEF CommitConflict, UpToDate, Extended
  <2>4. ~PublishConflict(s)  BY <2>2 DEF PublishConflict, UpToDate
  <2>5. NotWritable(s)  BY <1>3, <2>3, <2>4
  <2>6. ~Ticking(call[s]) /\ Ends(s) /\ UNCHANGED <<desc, overlay, started, acked, records>>
      BY <2>5 DEF NotWritable, Ticking
  <2> QED BY <2>1, <2>6, OrderlyKeeps
<1> QED BY <1>1, <1>2, <1>3

(* It publishes the queue with its intent in it. *)
LEMMA OrderlyAcknowledges ==
  ASSUME TypesInv, OrderlyInv, orderly, NEW s \in Slots, Active(s), Ends(s),
         Finishing(call[s]), call[s].kind = "queue", desc' = call[s].desc,
         acked' = acked \cup {call[s].item}, UNCHANGED <<overlay, started, records>>
  PROVE  OrderlyInv'
<1>1. QueueOrderly /\ RecordsOrderly /\ AckedOnce /\ OverlayOrderly  BY DEF OrderlyInv
<1>2. UpToDate(call[s]) /\ WritesNext(call[s])  BY DEF OrderlyInv
<1>3. PICK x, q, n : x = call[s].item /\ q = desc.queue /\ n = Len(desc.queue)  OBVIOUS
<1>4. x.id = desc.next /\ x.by = started /\ desc' = StoredIntent(desc, x)
    BY <1>2, <1>3 DEF UpToDate, WritesNext
<1>5. x \in Intents /\ InOrder(q) /\ desc \in Descriptors
    BY <1>3 DEF TypesInv, TypeOK, CallHolds, Finishing
<1>6. q \in Seq(Intents) /\ n \in Nat /\ DOMAIN q = 1 .. n /\ n = Len(q)
    BY <1>3, QueueTyped
<1>7. PICK r : r = Sorted(Append(q, x))  OBVIOUS
<1>8. desc'.queue = r /\ desc'.next = desc.next + 1
    BY <1>3, <1>4, <1>5, <1>7, StoredTyped
<1>9. \A y : y \in Range(r) <=> y \in Range(q) \/ y = x  BY <1>5, <1>6, <1>7, SortedQueue
<1>10. PICK p \in [DOMAIN r -> DOMAIN r] :
          /\ \A k, l \in DOMAIN r : p[k] = p[l] => k = l
          /\ \A k \in DOMAIN r : r[k] = Append(q, x)[p[k]]
  <2>1. PICK u : u = Append(q, x)  OBVIOUS
  <2>2. Shuffled(r, u)  BY <1>5, <1>6, <1>7, <2>1, SortedQueue
  <2> QED BY <2>1, <2>2 DEF Shuffled
<1>11. DOMAIN r = 1 .. (n + 1)
  <2>1. r \in Seq(Intents) /\ Len(r) = n + 1  BY <1>5, <1>6, <1>7, SortedQueue
  <2> QED BY <2>1
<1>12. PICK u : u = Append(q, x)  OBVIOUS
<1>13. u[n + 1] = x /\ \A k \in 1 .. n : u[k] = q[k]  BY <1>5, <1>6, <1>12
<1>14. \A k \in 1 .. n : /\ u[k] = desc.queue[k] /\ u[k] \in Intents
                         /\ u[k].by \in Nat /\ u[k].id \in Nat
                         /\ u[k].by < started /\ u[k].id < desc.next
  <2> SUFFICES ASSUME NEW k \in 1 .. n
               PROVE  /\ u[k] = desc.queue[k] /\ u[k] \in Intents
                      /\ u[k].by \in Nat /\ u[k].id \in Nat
                      /\ u[k].by < started /\ u[k].id < desc.next
      OBVIOUS
  <2>1. u[k] = desc.queue[k] /\ k \in DOMAIN desc.queue  BY <1>3, <1>6, <1>13
  <2>2. u[k] \in Intents  BY <2>1, QueueTyped
  <2>3. Past(u[k].by) /\ u[k].id < desc.next  BY <1>1, <2>1 DEF QueueOrderly
  <2> QED BY <2>1, <2>2, <2>3, IntentTyped DEF Past
<1>15. desc.next \in Nat /\ started \in Nat  BY QueueTyped
<1>16. \A k \in 1 .. (n + 1) : k = n + 1 \/ k \in 1 .. n  BY <1>6
<1>17. ASSUME NEW k \in 1 .. (n + 1), NEW l \in 1 .. (n + 1)
       PROVE  /\ u[k].by \in Nat /\ u[k].by <= started /\ u[k].id < desc.next + 1
              /\ u[k].by = u[l].by => k = l
              /\ u[k].id = u[l].id => k = l
              /\ u[k].id < u[l].id => u[k].by < u[l].by
  <2>1. CASE k = n + 1 /\ l = n + 1  BY <1>4, <1>13, <1>15, <2>1
  <2>2. CASE k = n + 1 /\ l \in 1 .. n  BY <1>4, <1>13, <1>14, <1>15, <2>2
  <2>3. CASE k \in 1 .. n /\ l = n + 1  BY <1>4, <1>13, <1>14, <1>15, <2>3
  <2>4. CASE k \in 1 .. n /\ l \in 1 .. n
    <3>1. k \in DOMAIN desc.queue /\ l \in DOMAIN desc.queue  BY <1>3, <1>6, <2>4
    <3> QED BY <1>1, <1>14, <1>15, <2>4, <3>1 DEF QueueOrderly
  <2> QED BY <1>16, <2>1, <2>2, <2>3, <2>4
<1>18. \A k \in DOMAIN r : p[k] \in 1 .. (n + 1) /\ r[k] = u[p[k]]
    BY <1>10, <1>11, <1>12
<1>19. \A t \in Slots : ~Active(t)'  BY NoneLeft
<1>20. QueueOrderly'
  <2>1. ASSUME NEW k \in DOMAIN r PROVE Past(r[k].by)' /\ r[k].id < desc'.next
    <3>1. PICK m : m = r[k].by  OBVIOUS
    <3>2. m \in Nat /\ m <= started  BY <1>17, <1>18, <3>1
    <3>3. Past(m)'  BY <3>2, PastAtEnd
    <3>4. r[k].id < desc'.next  BY <1>8, <1>17, <1>18
    <3> QED BY <3>1, <3>3, <3>4 DEF Past, Active
  <2>2. ASSUME NEW k \in DOMAIN r, NEW l \in DOMAIN r
        PROVE  /\ r[k].by = r[l].by => k = l
               /\ r[k].id = r[l].id => k = l
               /\ r[k].id < r[l].id => r[k].by < r[l].by
    <3>1. p[k] \in 1 .. (n + 1) /\ p[l] \in 1 .. (n + 1) /\ r[k] = u[p[k]] /\ r[l] = u[p[l]]
        BY <1>18
    <3>2. p[k] = p[l] => k = l  BY <1>10
    <3> QED BY <1>17, <3>1, <3>2
  <2>3. desc'.next <= FirstSeq + started'
    <3>1. desc.next < FirstSeq + started  BY <1>1 DEF QueueOrderly
    <3> QED BY <1>8, <1>15, <3>1, StrandQueueAssumption
  <2>4. PICK d : d = desc'  OBVIOUS
  <2>5. /\ \A k \in DOMAIN d.queue : Past(d.queue[k].by)' /\ d.queue[k].id < d.next
        /\ \A k, l \in DOMAIN d.queue :
             /\ d.queue[k].by = d.queue[l].by => k = l
             /\ d.queue[k].id = d.queue[l].id => k = l
             /\ d.queue[k].id < d.queue[l].id => d.queue[k].by < d.queue[l].by
      BY <1>8, <2>1, <2>2, <2>4
  <2> QED BY <1>19, <2>3, <2>4, <2>5 DEF QueueOrderly, Past, Active
<1>21. RecordsOrderly'  BY RecordsAtEnd
<1>22. AckedOnce'
  <2>1. \A i : i \in Range(desc'.queue) <=> i \in Range(desc.queue) \/ i = x
      BY <1>3, <1>8, <1>9
  <2>2. ASSUME NEW i \in acked
        PROVE  i # x /\ Past(i.by)'
    <3>1. i.by \in Nat /\ i.by < started /\ Past(i.by)'
        BY AckedAtEnd, QueueTyped, IntentTyped
    <3> QED BY <1>4, <1>15, <3>1
  <2>3. ASSUME NEW a \in records, x \in Range(a.drained) PROVE FALSE
    <3>1. PICK k \in DOMAIN a.drained : a.drained[k] = x  BY <2>3 DEF Range
    <3>2. Past(x.by)  BY <1>1, <3>1 DEF RecordsOrderly
    <3> QED BY <1>4, <1>15, <3>2 DEF Past
  <2>4. Past(x.by)'
    <3>1. PICK m : m = x.by  OBVIOUS
    <3>2. Past(m)'  BY <1>4, <1>15, <3>1, PastAtEnd
    <3> QED BY <3>1, <3>2 DEF Past, Active
  <2>5. \A i \in acked :
          /\ i \in Range(desc.queue) => \A a \in records : i \notin Range(a.drained)
          /\ i \notin Range(desc.queue) =>
               \E a \in records : /\ i \in Range(a.drained)
                                  /\ \A b \in records : i \in Range(b.drained) => b = a
      BY <1>1 DEF AckedOnce
  <2>6. acked' = acked \cup {x} /\ records' = records  BY <1>3
  <2>7. ASSUME NEW i \in acked'
        PROVE  /\ Past(i.by)'
               /\ i \in Range(desc'.queue) => \A a \in records' : i \notin Range(a.drained)
               /\ i \notin Range(desc'.queue) =>
                    \E a \in records' : /\ i \in Range(a.drained)
                                        /\ \A b \in records' : i \in Range(b.drained) => b = a
    <3>1. CASE i = x  BY <2>1, <2>3, <2>4, <2>6, <3>1 DEF Past, Active
    <3>2. CASE i \in acked  BY <2>1, <2>2, <2>5, <2>6, <3>2
    <3> QED BY <2>6, <3>1, <3>2
  <2> QED BY <2>7 DEF AckedOnce
<1>23. ASSUME NEW k \in DOMAIN overlay, NEW l \in DOMAIN desc'.queue
       PROVE  overlay[k].by # desc'.queue[l].by
  <2>1. desc'.queue[l] = u[p[l]] /\ p[l] \in 1 .. (n + 1)  BY <1>8, <1>18
  <2>2. CASE p[l] = n + 1
    <3>1. desc'.queue[l].by = started  BY <1>4, <1>13, <2>1, <2>2
    <3>2. call[s].kind \notin Patching  BY DEF Patching
    <3> QED BY <1>1, <3>1, <3>2 DEF OverlayOrderly
  <2>3. CASE p[l] \in 1 .. n
    <3>1. p[l] \in DOMAIN desc.queue /\ desc'.queue[l] = desc.queue[p[l]]
        BY <1>3, <1>6, <1>14, <2>1, <2>3
    <3>2. ~Ticking(call[s])  BY DEF Ticking
    <3> QED BY <1>1, <3>1, <3>2, NoneLeft DEF OverlayOrderly
  <2> QED BY <1>16, <2>1, <2>2, <2>3
<1> QED BY <1>20, <1>21, <1>22, <1>23, OrderlyEnd

(* It publishes a tick: the queue is drained into one record. *)
LEMMA OrderlyDrains ==
  ASSUME TypesInv, OrderlyInv, orderly, NEW s \in Slots, Active(s), Ends(s),
         Finishing(call[s]), call[s].kind = "tick", desc' = call[s].desc,
         records' = records \cup {call[s].tick}, UNCHANGED <<overlay, started, acked>>
  PROVE  OrderlyInv'
<1>1. QueueOrderly /\ RecordsOrderly /\ AckedOnce  BY DEF OrderlyInv
<1>2. PICK z : z = call[s].tick  OBVIOUS
<1>3. z.drained = desc.queue /\ desc'.queue = <<>> /\ desc'.next = desc.next
    BY <1>2 DEF OrderlyInv, WritesNext, Ticking, Finishing
<1>4. \A t \in Slots : ~Active(t)'  BY NoneLeft
<1>5. DOMAIN desc'.queue = {} /\ Range(desc'.queue) = {}  BY <1>3 DEF Range
<1>6. QueueOrderly'  BY <1>1, <1>3, <1>4, <1>5 DEF QueueOrderly
<1>7. ASSUME NEW k \in DOMAIN z.drained PROVE Past(z.drained[k].by)'
  <2>1. PICK n : n = z.drained[k].by  OBVIOUS
  <2>2. n \in Nat /\ Past(n)  BY <1>1, <1>3, <2>1, QueueTyped, IntentTyped DEF QueueOrderly
  <2>3. Past(n)'  BY <2>2, PastAtEnd
  <2> QED BY <2>1, <2>3 DEF Past, Active
<1>8. ASSUME NEW r \in records, NEW k \in DOMAIN r.drained PROVE Past(r.drained[k].by)'
  <2>1. PICK n : n = r.drained[k].by  OBVIOUS
  <2>2. n \in Nat /\ Past(n)  BY <1>1, <2>1, QueueTyped, IntentTyped DEF RecordsOrderly
  <2>3. Past(n)'  BY <2>2, PastAtEnd
  <2> QED BY <2>1, <2>3 DEF Past, Active
<1>9. ASSUME NEW k \in DOMAIN z.drained, NEW l \in DOMAIN z.drained, k < l,
             SameWidth(z.drained[k].id, z.drained[l].id)
      PROVE  z.drained[k].by < z.drained[l].by
  <2>1. PICK a, b : a = z.drained[k] /\ b = z.drained[l]  OBVIOUS
  <2>2. a = desc.queue[k] /\ b = desc.queue[l] /\ a \in Intents /\ b \in Intents
      BY <1>3, <2>1, QueueTyped
  <2>3. a.id \in Nat /\ b.id \in Nat /\ a.by \in Nat /\ b.by \in Nat  BY <2>2, IntentTyped
  <2>6. SameWidth(b.id, a.id)  BY <1>9, <2>1 DEF SameWidth
  <2>7. ~IntentBefore(b, a)  BY <1>3, <1>9, <2>2 DEF TypesInv, InOrder
  <2>8. ~(b.id < a.id)  BY <2>3, <2>6, <2>7, IdOrder DEF IntentBefore
  <2>9. k # l
    <3>1. desc.queue \in Seq(Intents)  BY QueueTyped
    <3>2. k \in Nat  BY <1>3, <3>1
    <3> QED BY <1>9, <3>2
  <2>10. a.id # b.id  BY <1>1, <1>3, <2>2, <2>9 DEF QueueOrderly
  <2>11. a.id < b.id  BY <2>3, <2>8, <2>10
  <2> QED BY <1>1, <1>3, <2>1, <2>2, <2>11 DEF QueueOrderly
<1>10. records' = records \cup {z}  BY <1>2
<1>11. RecordsOrderly'
  <2>1. ASSUME NEW r \in records'
        PROVE  /\ \A k \in DOMAIN r.drained : Past(r.drained[k].by)'
               /\ \A k, l \in DOMAIN r.drained :
                    k < l /\ SameWidth(r.drained[k].id, r.drained[l].id)
                       => r.drained[k].by < r.drained[l].by
    <3>1. CASE r = z  BY <1>7, <1>9, <3>1 DEF Past, Active
    <3>2. CASE r \in records  BY <1>1, <1>8, <3>2 DEF RecordsOrderly
    <3> QED BY <1>10, <3>1, <3>2
  <2> QED BY <2>1 DEF RecordsOrderly
<1>12. AckedOnce'
  <2>1. Range(z.drained) = Range(desc.queue)  BY <1>3
  <2>2. ASSUME NEW i \in acked
        PROVE  \E r \in records' : /\ i \in Range(r.drained)
                                   /\ \A x \in records' : i \in Range(x.drained) => x = r
    <3>1. CASE i \in Range(desc.queue)
      <4>1. \A r \in records : i \notin Range(r.drained)  BY <1>1, <3>1 DEF AckedOnce
      <4> QED BY <1>10, <2>1, <3>1, <4>1
    <3>2. CASE i \notin Range(desc.queue)
      <4>1. PICK r \in records : /\ i \in Range(r.drained)
                                 /\ \A x \in records : i \in Range(x.drained) => x = r
          BY <1>1, <3>2 DEF AckedOnce
      <4> QED BY <1>10, <2>1, <3>2, <4>1
    <3> QED BY <3>1, <3>2
  <2>3. \A i \in acked : Past(i.by)'  BY AckedAtEnd
  <2> QED BY <1>5, <2>2, <2>3 DEF AckedOnce
<1> QED BY <1>5, <1>6, <1>11, <1>12, OrderlyEnd

LEMMA OrderlyPublishes ==
  ASSUME TypesInv, OrderlyInv, NEW s \in Slots, NEW answered \in BOOLEAN, Publish(s, answered)
  PROVE  OrderlyInv'
<1>1. CASE ~orderly'  BY <1>1 DEF OrderlyInv
<1>2. CASE orderly'
  <2>1. orderly /\ answered  BY <1>2 DEF Publish
  <2>2. /\ Active(s) /\ Finishing(call[s]) /\ Ends(s) /\ desc' = call[s].desc
        /\ UNCHANGED <<overlay, started>> /\ Answers(s)
      BY <2>1 DEF Publish, Active, Finishing
  <2>3. call[s].kind \in Kinds  BY <2>2 DEF Finishing, TypesInv, CallHolds
  <2>4. CASE call[s].kind = "queue"
    <3>1. acked' = acked \cup {call[s].item} /\ records' = records
        BY <2>2, <2>4 DEF Answers, Publish
    <3> QED BY <2>1, <2>2, <2>4, <3>1, OrderlyAcknowledges
  <2>5. CASE call[s].kind = "tick"
    <3>1. acked' = acked /\ records' = records \cup {call[s].tick}
        BY <2>2, <2>5 DEF Answers, Publish
    <3> QED BY <2>1, <2>2, <2>5, <3>1, OrderlyDrains
  <2>6. CASE call[s].kind \in Patching \cup {"braid"}
    <3>1. acked' = acked /\ records' = records
        BY <2>2, <2>6 DEF Answers, Publish, Patching
    <3>2. desc'.queue = desc.queue /\ desc'.next = desc.next
        BY <2>1, <2>2, <2>6 DEF OrderlyInv, WritesNext
    <3>3. ~Ticking(call[s])  BY <2>6 DEF Ticking, Patching
    <3> QED BY <2>1, <2>2, <3>1, <3>2, <3>3, OrderlyKeeps
  <2> QED BY <2>3, <2>4, <2>5, <2>6 DEF Kinds, Patching
<1> QED BY <1>1, <1>2

LEMMA OrderlyStutters ==
  ASSUME OrderlyInv, UNCHANGED vars PROVE OrderlyInv'
<1> SUFFICES ASSUME orderly
             PROVE  /\ Alone' /\ QueueOrderly' /\ RecordsOrderly' /\ AckedOnce' /\ OverlayOrderly'
                    /\ \A t \in Slots : Active(t)' => (UpToDate(call[t]) /\ WritesNext(call[t]))'
    BY DEF OrderlyInv, vars
<1>1. UNCHANGED <<desc, rev, overlay, call, started, acked, records>>  BY DEF vars
<1>2. \A n : Past(n)' <=> Past(n)  BY <1>1 DEF Past, Active
<1>3. Alone'  BY <1>1 DEF OrderlyInv, Alone, Active
<1>4. QueueOrderly'  BY <1>1, <1>2 DEF OrderlyInv, QueueOrderly, Active
<1>5. RecordsOrderly'  BY <1>1, <1>2 DEF OrderlyInv, RecordsOrderly
<1>6. AckedOnce'  BY <1>1, <1>2 DEF OrderlyInv, AckedOnce
<1>7. OverlayOrderly'  BY <1>1 DEF OrderlyInv, OverlayOrderly, Active, Finishing, Ticking
<1>8. ASSUME NEW t \in Slots, Active(t)' PROVE (UpToDate(call[t]) /\ WritesNext(call[t]))'
  <2>1. UpToDate(call[t]) /\ WritesNext(call[t])  BY <1>1, <1>8 DEF OrderlyInv, Active
  <2> QED BY <1>1, <2>1 DEF UpToDate, WritesNext, Finishing, Ticking
<1> QED BY <1>3, <1>4, <1>5, <1>6, <1>7, <1>8

LEMMA OrderlyNext == TypesInv /\ OrderlyInv /\ [Next]_vars => OrderlyInv'
<1> SUFFICES ASSUME TypesInv, OrderlyInv, [Next]_vars PROVE OrderlyInv'  OBVIOUS
<1>1. CASE Next
  <2>1. PICK s \in Slots : \/ \E p \in Processes, kind \in Kinds : Start(s, p, kind)
                           \/ Step(s)
      BY <1>1 DEF Next
  <2>2. CASE Step(s)
      BY <2>2, OrderlyReads, OrderlyQueues, OrderlyCommits, OrderlyBeginsTick, OrderlyTicks,
         OrderlyWrites, OrderlyPublishes, OrderlyOtherEnds DEF Step
  <2> QED BY <2>1, <2>2, OrderlyStart
<1> QED BY <1>1, OrderlyStutters

LEMMA OrderlyInitially == Init => OrderlyInv
<1> SUFFICES ASSUME Init PROVE OrderlyInv  OBVIOUS
<1>1. \A s \in Slots : ~Active(s)  BY DEF Init, Active, Idle
<1>2. DOMAIN desc.queue = {} /\ desc.next = FirstSeq  BY NewTyped DEF Init
<1>3. DOMAIN overlay = {} /\ acked = {} /\ records = {} /\ started = 0  BY DEF Init
<1>4. QueueOrderly  BY <1>1, <1>2, <1>3, StrandQueueAssumption DEF QueueOrderly
<1> QED BY <1>1, <1>3, <1>4 DEF OrderlyInv, Alone, RecordsOrderly, AckedOnce, OverlayOrderly

(* Every variable keeps its type: what the sort and the fold make of a       *)
(* queue of intents are queues of intents.                                   *)
THEOREM StrandTypes == Spec => []TypeOK
<1>1. TypesInv => TypeOK  BY DEF TypesInv
<1> QED BY <1>1, TypesInitially, TypesNext, PTL DEF Spec

LEMMA OrderlySound ==
  ASSUME TypesInv, OrderlyInv, orderly
  PROVE  /\ \A i \in acked :
              Cardinality({r \in records : i \in Range(r.drained)}) =
                  IF i \in Range(desc.queue) THEN 0 ELSE 1
         /\ \A k, l \in DOMAIN overlay : overlay[k] = overlay[l] => k = l
<1>1. AckedOnce /\ OverlayOrderly  BY DEF OrderlyInv
<1>2. ASSUME NEW i \in acked
      PROVE  Cardinality({r \in records : i \in Range(r.drained)}) =
                  IF i \in Range(desc.queue) THEN 0 ELSE 1
  <2> DEFINE R == {r \in records : i \in Range(r.drained)}
  <2>1. CASE i \in Range(desc.queue)
    <3>1. R = {}  BY <1>1, <2>1 DEF AckedOnce
    <3> HIDE DEF R
    <3>2. Cardinality(R) = 0  BY <3>1, FS_EmptySet
    <3> QED BY <2>1, <3>2 DEF R
  <2>2. CASE i \notin Range(desc.queue)
    <3>1. PICK r \in records : /\ i \in Range(r.drained)
                               /\ \A x \in records : i \in Range(x.drained) => x = r
        BY <1>1, <2>2 DEF AckedOnce
    <3>2. R = {r}  BY <3>1
    <3> HIDE DEF R
    <3>3. Cardinality(R) = 1  BY <3>2, FS_Singleton
    <3> QED BY <2>2, <3>3 DEF R
  <2> QED BY <2>1, <2>2
<1>3. \A k, l \in DOMAIN overlay : overlay[k] = overlay[l] => k = l  BY <1>1 DEF OverlayOrderly
<1> QED BY <1>2, <1>3

(* IntentsConserved: while calls neither overlap nor fail, an acknowledged   *)
(* intent is queued or was drained by exactly one recorded tick, and no      *)
(* patch is in the overlay twice.                                            *)
THEOREM IntentsAreConserved == Spec => []IntentsConserved
<1>1. TypesInv /\ OrderlyInv => IntentsConserved  BY OrderlySound DEF IntentsConserved
<1> QED BY <1>1, TypesInitially, TypesNext, OrderlyInitially, OrderlyNext, PTL DEF Spec

(* DrainedInOrder: then, a tick drains intents whose numbers are equally     *)
(* wide in the order of the calls that queued them, on either side of the    *)
(* ten thousandth.                                                           *)
THEOREM DrainedAsQueued == Spec => []DrainedInOrder
<1>1. TypesInv /\ OrderlyInv => DrainedInOrder
    BY DEF OrderlyInv, RecordsOrderly, DrainedInOrder
<1> QED BY <1>1, TypesInitially, TypesNext, OrderlyInitially, OrderlyNext, PTL DEF Spec
=============================================================================
