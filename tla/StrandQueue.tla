---------------------------- MODULE StrandQueue ----------------------------
(***************************************************************************)
(* The speculative lane of a strand: queueStrandIntent, tickStrand,        *)
(* patchStrand, createStrandPatch and braidStrand, from                    *)
(* src/src/domain/services/strand/.                                        *)
(*                                                                         *)
(* The repository holds one strand: its descriptor (a JSON document under  *)
(* a ref) and its overlay, a chain of patches under another ref.  A call   *)
(* loads the descriptor, then reads the overlay's head, then works, and    *)
(* at last writes a whole new descriptor.  publishDescriptor reads the     *)
(* revision it compares against when the call writes, not when it loads:   *)
(* what was written in between is overwritten.  Appends to the overlay     *)
(* compare the head the call loaded.                                       *)
(*                                                                         *)
(* A patch is a record: the intent it came from, or id 0 for one committed *)
(* directly; "by" is the call that made it.  The overlay only grows here   *)
(* (dropStrand is left out), so its length names its head.                 *)
(***************************************************************************)
EXTENDS Naturals, SequencesExt

CONSTANTS
    Processes,   \* WarpRuntime instances, each with its _patchInProgress flag
    Slots,       \* calls that may be in progress together
    Footprints,  \* sets of keys a patch may read and write
    MaxCalls,    \* bound: calls that are started
    FirstSeq     \* nextIntentSeq of the strand at the start

ASSUME StrandQueueAssumption ==
    /\ "none" \notin Processes /\ {} \notin Footprints
    /\ MaxCalls \in Nat /\ FirstSeq \in Nat \ {0}
    /\ FirstSeq + MaxCalls <= 100000   \* bound: intent numbers have at most five digits

VARIABLES
    desc,     \* the descriptor the strand ref points at
    rev,      \* how often that ref was published
    overlay,  \* the patches under the overlay ref, oldest first
    call,     \* the calls in progress
    busy,     \* processes whose _patchInProgress is set
    started,  \* calls started so far
    acked,    \* intents queueStrandIntent has returned
    patched,  \* patches patchStrand or a builder's commit has returned
    records,  \* tick records that were persisted
    orderly   \* history: no calls have overlapped and none has failed so far

vars == <<desc, rev, overlay, call, busy, started, acked, patched, records, orderly>>

Kinds == {"queue", "patch", "builder", "tick", "braid"}
Guarded == {"queue", "patch"}
Patching == {"patch", "builder"}

Intents == [id : Nat, by : 1 .. MaxCalls, fp : Footprints]
Descriptors == [queue : Seq(Intents), next : Nat, ticks : Nat, writable : {"yes", "no"}]
TickRecords == [index : Nat, base : Nat, drained : Seq(Intents),
                admitted : Seq(Intents), rejected : Seq(Intents)]

Phases == {"idle", "load", "hydrate", "work", "commit", "write", "publish"}
NoIntent == [id |-> 0, by |-> 0, fp |-> {}]
NoTick == [index |-> 0, base |-> 0, drained |-> <<>>, admitted |-> <<>>, rejected |-> <<>>]
CallStates ==
    [kind : Kinds \cup {"none"}, proc : Processes \cup {"none"}, by : 0 .. MaxCalls,
     phase : Phases, desc : Descriptors, head : Nat, item : Intents \cup {NoIntent},
     done : Nat, tick : TickRecords, rev : Nat]

NewDescriptor == [queue |-> <<>>, next |-> FirstSeq, ticks |-> 0, writable |-> "yes"]
Idle == [kind |-> "none", proc |-> "none", by |-> 0, phase |-> "idle", desc |-> NewDescriptor,
         head |-> 0, item |-> NoIntent, done |-> 0, tick |-> NoTick, rev |-> 0]

Init ==
    /\ desc = NewDescriptor /\ rev = 0 /\ overlay = <<>>
    /\ call = [s \in Slots |-> Idle]
    /\ busy = {} /\ started = 0
    /\ acked = {} /\ patched = {} /\ records = {}
    /\ orderly = TRUE

-----------------------------------------------------------------------------
(* Intents and their order. *)

\* formatSequence pads to four digits: longer numbers are written out.
SameWidth(i, j) == i < 10000 <=> j < 10000

IdAfter(i, j) == j < i                                         \* mutant

\* compareStrings on intent ids: a four-digit number and a five-digit one
\* compare as 'nnnn' and 'nnnnn'.
IdBefore(i, j) ==
    \/ SameWidth(i, j) /\ i < j
    \/ i < 10000 /\ j >= 10000 /\ i <= j \div 10
    \/ i >= 10000 /\ j < 10000 /\ i \div 10 < j

IntentBefore(a, b) == IdBefore(a.id, b.id)

\* Array.prototype.sort: intents that compare equal keep their places.
Sorted(q) ==
    LET order == CHOOSE p \in Surjection(DOMAIN q, DOMAIN q) :
                     \A k, l \in DOMAIN q : k < l =>
                         \/ IntentBefore(q[p[k]], q[p[l]])
                         \/ p[k] < p[l] /\ ~IntentBefore(q[p[l]], q[p[k]])
    IN  [k \in DOMAIN q |-> q[order[k]]]

\* _storeQueuedIntent: append, sort by id, advance the sequence number.
StoredIntent(d, intent) ==
    [d EXCEPT !.queue = Sorted(Append(d.queue, intent)), !.next = d.next + 1]

\* normalizeQueuedIntents: parsing a descriptor sorts its queue.
Parsed(d) == [d EXCEPT !.queue = Sorted(d.queue)]

\* _findIntentConflicts: the admitted intents that share a key with this one.
Conflicts(admitted, intent) == {a \in Range(admitted) : a.fp \cap intent.fp # {}}

\* classifyQueuedIntents, one intent at a time.
ClassifyNext(sorted, intent) ==
    IF Conflicts(sorted.admitted, intent) = {}
    THEN [sorted EXCEPT !.admitted = Append(@, intent)]
    ELSE [sorted EXCEPT !.rejected = Append(@, intent)]

Classify(queue) ==
    FoldLeft(ClassifyNext, [admitted |-> <<>>, rejected |-> <<>>], queue)

-----------------------------------------------------------------------------
(* A call begins and ends. *)

\* The call leaves its slot; the finally blocks clear the guard.
Ends(s) ==
    /\ call' = [call EXCEPT ![s] = Idle]
    /\ busy' = IF call[s].kind \in Guarded THEN busy \ {call[s].proc} ELSE busy

\* A guarded call that finds the flag set throws and changes nothing.
Start(s, p, kind) ==
    /\ call[s].phase = "idle" /\ started < MaxCalls
    /\ kind \in Guarded => p \notin busy
    /\ call' = [call EXCEPT ![s] =
                   [Idle EXCEPT !.kind = kind, !.by = started + 1, !.phase = "load",
                                !.proc = IF kind \in Guarded THEN p ELSE "none"]]
    /\ busy' = IF kind \in Guarded THEN busy \cup {p} ELSE busy
    /\ started' = started + 1
    /\ orderly' = (orderly /\ \A t \in Slots : call[t].phase = "idle")
    /\ UNCHANGED <<desc, rev, overlay, acked, patched, records>>

\* readDescriptor: the ref is read once, the document behind it is immutable.
LoadDescriptor(s) ==
    /\ call[s].phase = "load"
    /\ call' = [call EXCEPT ![s].desc = Parsed(desc), ![s].phase = "hydrate"]
    /\ UNCHANGED <<desc, rev, overlay, busy, started, acked, patched, records, orderly>>

\* hydrateDescriptor: the overlay's head comes from its own ref.
Hydrate(s) ==
    /\ call[s].phase = "hydrate"
    /\ call' = [call EXCEPT ![s].head = Len(overlay), ![s].phase = "work"]
    /\ UNCHANGED <<desc, rev, overlay, busy, started, acked, patched, records, orderly>>

\* A build callback throws, or storage does; a crash ends a process's calls
\* one by one (only that leaves a committed patch unanswered).
CallFails(s) ==
    /\ call[s].phase # "idle"
    /\ Ends(s)
    /\ orderly' = FALSE
    /\ UNCHANGED <<desc, rev, overlay, started, acked, patched, records>>

\* _assertWritableDescriptor: a braid may have made the overlay read-only.
NotWritable(s) ==
    /\ call[s].phase = "work" /\ call[s].kind \in {"queue"} \cup Patching
    /\ call[s].desc.writable = "no"
    /\ Ends(s)
    /\ UNCHANGED <<desc, rev, overlay, started, acked, patched, records, orderly>>

-----------------------------------------------------------------------------
(* What each call does with the descriptor it loaded. *)

BuildQueuedIntent(s, fp) ==
    LET intent == [id |-> call[s].desc.next, by |-> call[s].by, fp |-> fp] IN
    /\ call[s].phase = "work" /\ call[s].kind = "queue" /\ call[s].desc.writable = "yes"
    /\ call' = [call EXCEPT ![s].item = intent,
                            ![s].desc = StoredIntent(call[s].desc, intent),
                            ![s].phase = "write"]
    /\ UNCHANGED <<desc, rev, overlay, busy, started, acked, patched, records, orderly>>

ExtendedBlindly(head, patch) == {Append(SubSeq(overlay, 1, head), patch)}
ExtendedAnywhere(head, patch) == {Append(overlay, patch)}

\* appendPatch publishes with compare-and-swap on the loaded head: the new
\* overlay, or none when the head has moved.
Extended(head, patch) == IF head = Len(overlay) THEN {Append(overlay, patch)} ELSE {}

CommitPatch(s, fp) ==
    LET patch == [id |-> 0, by |-> call[s].by, fp |-> fp] IN
    /\ call[s].phase = "work" /\ call[s].kind \in Patching /\ call[s].desc.writable = "yes"
    /\ overlay' \in Extended(call[s].head, patch)
    /\ call' = [call EXCEPT ![s].item = patch, ![s].phase = "write"]
    /\ UNCHANGED <<desc, rev, busy, started, acked, patched, records, orderly>>

\* tick sorts the queue it loaded once more and classifies it.
BeginTick(s) ==
    LET c == call[s]
        queued == Sorted(c.desc.queue)
        classes == Classify(queued) IN
    /\ c.phase = "work" /\ c.kind = "tick"
    /\ call' = [call EXCEPT
                  ![s].tick = [index |-> c.desc.ticks + 1, base |-> c.head, drained |-> queued,
                               admitted |-> classes.admitted, rejected |-> classes.rejected],
                  ![s].phase = "commit"]
    /\ UNCHANGED <<desc, rev, overlay, busy, started, acked, patched, records, orderly>>

\* commitAdmittedQueuedIntents: one commit each, onto the one before.
CommitAdmitted(s) ==
    LET c == call[s] IN
    /\ c.phase = "commit" /\ c.done # Len(c.tick.admitted)
    /\ overlay' \in Extended(c.head, c.tick.admitted[c.done + 1])
    /\ call' = [call EXCEPT ![s].head = c.head + 1, ![s].done = c.done + 1]
    /\ UNCHANGED <<desc, rev, busy, started, acked, patched, records, orderly>>

\* The overlay has moved: the commit throws and so does the call.  What a
\* tick has committed before stays.
CommitConflict(s) ==
    /\ \/ call[s].phase = "work" /\ call[s].kind \in Patching /\ call[s].desc.writable = "yes"
       \/ call[s].phase = "commit" /\ call[s].done # Len(call[s].tick.admitted)
    /\ Extended(call[s].head, call[s].item) = {}
    /\ Ends(s)
    /\ UNCHANGED <<desc, rev, overlay, started, acked, patched, records, orderly>>

TickedKeepsQueue(c) == [c.desc EXCEPT !.ticks = c.tick.index]

\* _buildPersistedTickDescriptor.
TickedDescriptor(c) == [c.desc EXCEPT !.queue = <<>>, !.ticks = c.tick.index]

PersistTick(s) ==
    /\ call[s].phase = "commit" /\ call[s].done = Len(call[s].tick.admitted)
    /\ call' = [call EXCEPT ![s].desc = TickedDescriptor(call[s]), ![s].phase = "write"]
    /\ UNCHANGED <<desc, rev, overlay, busy, started, acked, patched, records, orderly>>

\* braid: "keep" is the absent override.
Overridden(writable, override) == IF override = "keep" THEN writable ELSE override

Braid(s, override) ==
    /\ call[s].phase = "work" /\ call[s].kind = "braid"
    /\ call' = [call EXCEPT ![s].desc.writable = Overridden(@, override), ![s].phase = "write"]
    /\ UNCHANGED <<desc, rev, overlay, busy, started, acked, patched, records, orderly>>

-----------------------------------------------------------------------------
(* writeDescriptor. *)

\* publishDescriptor reads the revision it will compare against.
ReadRevision(s) ==
    /\ call[s].phase = "write"
    /\ call' = [call EXCEPT ![s].rev = rev, ![s].phase = "publish"]
    /\ UNCHANGED <<desc, rev, overlay, busy, started, acked, patched, records, orderly>>

\* What the caller is told when the call returns normally.
Answers(s) ==
    /\ acked' = IF call[s].kind = "queue" THEN acked \cup {call[s].item} ELSE acked
    /\ patched' = IF call[s].kind \in Patching THEN patched \cup {call[s].item} ELSE patched

\* Storage refuses the descriptor of a patch: that is caught behind the
\* commit and logged, and the patch is returned.
DescriptorWriteFails(s) ==
    /\ call[s].phase \in {"write", "publish"} /\ call[s].kind \in Patching
    /\ Answers(s)
    /\ Ends(s)
    /\ orderly' = FALSE
    /\ UNCHANGED <<desc, rev, overlay, started, records>>

\* Not answered: the process dies, or the caller of a tick, a queueing or a
\* braid sees storage fail after it has moved the ref.
Publish(s, answered) ==
    /\ call[s].phase = "publish" /\ call[s].rev = rev
    /\ desc' = call[s].desc /\ rev' = rev + 1
    /\ records' = IF call[s].kind = "tick" THEN records \cup {call[s].tick} ELSE records
    /\ IF answered THEN Answers(s) ELSE UNCHANGED <<acked, patched>>
    /\ orderly' = (orderly /\ answered)
    /\ Ends(s)
    /\ UNCHANGED <<overlay, started>>

\* The ref has moved since ReadRevision: the call throws, except that a
\* patch's onCommitSuccess is caught and logged, and the commit is returned.
PublishConflict(s) ==
    /\ call[s].phase = "publish" /\ call[s].rev # rev
    /\ IF call[s].kind \in Patching THEN Answers(s) ELSE UNCHANGED <<acked, patched>>
    /\ Ends(s)
    /\ UNCHANGED <<desc, rev, overlay, started, records, orderly>>

-----------------------------------------------------------------------------
Step(s) ==
    \/ LoadDescriptor(s) \/ Hydrate(s) \/ NotWritable(s)
    \/ \E fp \in Footprints : BuildQueuedIntent(s, fp) \/ CommitPatch(s, fp)
    \/ BeginTick(s) \/ CommitAdmitted(s) \/ CommitConflict(s) \/ PersistTick(s)
    \/ \E override \in {"yes", "no", "keep"} : Braid(s, override)
    \/ ReadRevision(s)
    \/ \E answered \in BOOLEAN : Publish(s, answered)
    \/ PublishConflict(s) \/ DescriptorWriteFails(s) \/ CallFails(s)

Next ==
    \E s \in Slots :
        \/ \E p \in Processes, kind \in Kinds : Start(s, p, kind)
        \/ Step(s)

Spec == Init /\ [][Next]_vars

-----------------------------------------------------------------------------
(* The descriptor, the overlay, the calls in progress and the tick records *)
(* keep their shape: a queued intent is one that queueStrandIntent built   *)
(* and the writable flag is one of the two a descriptor may hold.          *)
TypeOK ==
    /\ desc \in Descriptors /\ rev \in Nat /\ overlay \in Seq(Intents)
    /\ call \in [Slots -> CallStates]
    /\ busy \subseteq Processes /\ started \in 0 .. MaxCalls
    /\ acked \subseteq Intents /\ patched \subseteq Intents /\ records \subseteq TickRecords
    /\ orderly \in BOOLEAN

(* A patch that patchStrand or a builder's commit has returned is in the   *)
(* overlay, whatever calls of this or another process run beside it and    *)
(* whatever fails: its descriptor write may be lost, the patch not.        *)
ReturnedPatchStays == \A p \in patched : \E k \in 1 .. Len(overlay) : overlay[k] = p

(* The patches of a recorded tick follow each other in the overlay, from   *)
(* the head the tick was computed on: no other call's patch slips between  *)
(* them, although they are committed one by one.                           *)
TickIsContiguous ==
    \A r \in records :
        /\ r.base + Len(r.admitted) <= Len(overlay)
        /\ \A k \in 1 .. Len(r.admitted) : overlay[r.base + k] = r.admitted[k]

(* While calls neither overlap nor fail, no intent is lost and none is     *)
(* committed twice: an intent that queueStrandIntent has returned is in    *)
(* the queue or was drained by exactly one recorded tick, and no patch is  *)
(* in the overlay twice.                                                   *)
IntentsConserved ==
    orderly =>
        /\ \A i \in acked :
              Cardinality({r \in records : i \in Range(r.drained)}) =
                  IF i \in Range(desc.queue) THEN 0 ELSE 1
        /\ \A k, l \in DOMAIN overlay : overlay[k] = overlay[l] => k = l

(* While calls neither overlap nor fail, a tick considers the intents in   *)
(* the order in which they were queued, so that of two overlapping intents *)
(* the earlier one is admitted - among intents whose numbers are equally   *)
(* wide.  Ids are compared as strings padded to four digits: the ten       *)
(* thousandth intent goes before nearly all that were queued earlier.      *)
DrainedInOrder ==
    orderly =>
        \A r \in records : \A k, l \in DOMAIN r.drained :
            k < l /\ SameWidth(r.drained[k].id, r.drained[l].id)
                => r.drained[k].by < r.drained[l].by
=============================================================================
