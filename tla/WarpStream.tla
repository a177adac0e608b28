------------------------------ MODULE WarpStream ------------------------------
(***************************************************************************)
(* The stream combinators of domain/stream/WarpStream.ts, composed into    *)
(* one pipeline in which each is used the way its code allows:             *)
(*                                                                         *)
(*     source -> tee -> two branches -> mux -> demux -> a consumer a key   *)
(*                                                                         *)
(* mux pulls both branches at once, so the two share the pulls of tee; the *)
(* consumers pull the branches of demux at once and each may have several  *)
(* calls of next() outstanding.  Every stream may be aborted by its signal *)
(* and the source may fail.  A step is what runs between two awaits.       *)
(*                                                                         *)
(* Items are numbered by their place in the source.  An item on its way    *)
(* from mux to a consumer carries the branch it came through ("via"),      *)
(* which the code does not have: the properties tell the copies apart.     *)
(***************************************************************************)
EXTENDS Naturals, Sequences, SequencesExt, FiniteSets

CONSTANTS
    Keys,       \* the keys demux was given
    Length,     \* how many items the source has
    Depth,      \* how many calls of next() a consumer has outstanding at most
    SourceFails \* may the source fail, may the signal be aborted?

ASSUME StreamAssumption ==
    /\ Keys # {}
    /\ Length \in Nat
    /\ Depth \in Nat \ {0}
    /\ SourceFails \in BOOLEAN

VARIABLES
    class,      \* class[i]: the key the classifier gives item i, or "unknown"
    source,     \* how many items the source has handed out
    aborted,    \* the signal
    tee,        \* the variables that the two branches of _teeImpl share
    branch,     \* the call of next() in progress on each branch, and its index
    mux,        \* the generator of _muxImpl
    pending,    \* its map of pulls, one for each branch
    pump,       \* the loop of _demuxImpl: "idle", "pulling", "done" or "failed"
    buffers,    \* buffers[k]: items routed to k that nobody waits for
    waiting,    \* waiting[k]: how many calls of next() wait for an item of k
    consumer    \* what each consumer has received, and how its stream ended

pipelineVars == <<class, source, aborted, tee, branch, mux, pending, pump, buffers, waiting,
                  consumer>>

Branches == {1, 2}
Items == 1..Length
NoBranch == 0

\* The result of a pull: an item, the end, or an exception.
Result == [kind : {"item"}, item : Items] \cup [kind : {"end", "error"}, item : {0}]
Item(i) == [kind |-> "item", item |-> i]
End == [kind |-> "end", item |-> 0]
Error == [kind |-> "error", item |-> 0]

\* A pull mux has not made yet, one it has made and one it has given up.
Fresh == [kind |-> "fresh", item |-> 0]
Asked == [kind |-> "asked", item |-> 0]
Gone == [kind |-> "gone", item |-> 0]

StreamInit ==
    /\ class \in [Items -> Keys \cup {"unknown"}]
    /\ source = 0
    /\ aborted = FALSE
    /\ tee = [cache |-> <<>>, offset |-> 0, finished |-> FALSE, error |-> FALSE,
              inflight |-> FALSE]
    /\ branch = [b \in Branches |-> [pc |-> "idle", index |-> 0]]
    /\ mux = [pc |-> "fresh", winner |-> NoBranch]
    /\ pending = [b \in Branches |-> Fresh]
    /\ pump = "idle"
    /\ buffers = [k \in Keys |-> <<>>]
    /\ waiting = [k \in Keys |-> 0]
    /\ consumer = [k \in Keys |-> [got |-> <<>>, ended |-> "open"]]

-----------------------------------------------------------------------------
(* tee *)

\* Is the absolute index needed - 1 in the cache?
Covered(t, needed) == t.offset + Len(t.cache) >= needed

\* Where the loop of ensureCached goes from its head: out of the loop, to the await
\* of a pull that somebody else has made, or to a pull of its own.
EnsureCached(t, needed) ==
    IF Covered(t, needed) \/ t.finished \/ t.error THEN "ready"
    ELSE IF t.inflight THEN "waiting" ELSE "pulling"

\* trimCache: what both branches have consumed leaves the cache.
TrimCache(t, consumed) ==
    LET least == IF consumed[1] <= consumed[2] THEN consumed[1] ELSE consumed[2]
    IN  IF least > t.offset
        THEN [t EXCEPT !.cache = SubSeq(@, least - t.offset + 1, Len(@)),
                       !.offset = least]
        ELSE t

\* Branch b's next() begins and runs ensureCached up to its first await.
NextOn(b, t, br) ==
    LET pc == EnsureCached(t, br[b].index + 1)
    IN  [tee    |-> [t EXCEPT !.inflight = @ \/ pc = "pulling"],
         branch |-> [br EXCEPT ![b].pc = pc]]

\* The pull in flight settles: an item, the end, a failure of the source or the
\* signal, which _cancelable looks at whenever an item arrives.
Pulled(b) ==
    /\ branch[b].pc = "pulling"
    /\ \/ /\ source < Length
          /\ source' = source + 1
          /\ IF aborted
             THEN tee' = [tee EXCEPT !.error = TRUE, !.finished = TRUE, !.inflight = FALSE]
             ELSE tee' = [tee EXCEPT !.cache = Append(@, source + 1), !.inflight = FALSE]
       \/ /\ source = Length
          /\ tee' = [tee EXCEPT !.finished = TRUE, !.inflight = FALSE]
          /\ UNCHANGED source
       \/ /\ SourceFails
          /\ tee' = [tee EXCEPT !.error = TRUE, !.finished = TRUE, !.inflight = FALSE]
          /\ UNCHANGED source
    /\ branch' = [branch EXCEPT ![b].pc = "ready"]
    /\ UNCHANGED <<class, aborted, mux, pending, pump, buffers, waiting, consumer>>

\* A branch that waited for the other's pull is at the head of the loop again.
Resume(b) ==
    /\ branch[b].pc = "waiting" /\ ~tee.inflight
    /\ LET call == NextOn(b, tee, branch)
       IN  tee' = call.tee /\ branch' = call.branch
    /\ UNCHANGED <<class, source, aborted, mux, pending, pump, buffers, waiting, consumer>>

\* What branch b's next() returns once ensureCached has returned, seen through the
\* branch's own _cancelable.
Answer(b) ==
    IF tee.error THEN Error
    ELSE IF branch[b].index >= tee.offset + Len(tee.cache) THEN End
    ELSE IF aborted THEN Error
    ELSE Item(tee.cache[branch[b].index - tee.offset + 1])

\* The branch answers: it takes its item out of the cache, and mux's promise settles.
\* The first promise to settle wins the race mux is waiting for.
BranchAnswers(b) ==
    /\ branch[b].pc = "ready"
    /\ LET takes == ~tee.error /\ branch[b].index < tee.offset + Len(tee.cache)
           index == branch[b].index + (IF takes THEN 1 ELSE 0)
           consumed == [c \in Branches |-> IF c = b THEN index ELSE branch[c].index]
       IN  /\ branch' = [branch EXCEPT ![b] = [pc |-> "idle", index |-> index]]
           /\ tee' = IF takes THEN TrimCache(tee, consumed) ELSE tee
           /\ pending' = [pending EXCEPT ![b] = Answer(b)]
           /\ mux' = [mux EXCEPT !.winner = IF mux.pc = "racing" /\ @ = NoBranch
                                            THEN b ELSE @]
    /\ UNCHANGED <<class, source, aborted, pump, buffers, waiting, consumer>>

-----------------------------------------------------------------------------
(* mux *)

Settled(p) == {b \in Branches : p[b] \in Result}

\* Promise.race over promises of which some have settled already: the first of them
\* in the order of the map.
RaceNow(p) ==
    IF Settled(p) = {} THEN NoBranch
    ELSE CHOOSE b \in Settled(p) : \A c \in Settled(p) : b <= c

\* The first next() of the generator pulls every input, then races.  An input whose
\* signal is aborted already rejects before it pulls.
MuxStarts ==
    IF aborted
    THEN /\ pending' = [b \in Branches |-> Error]
         /\ mux' = [pc |-> "racing", winner |-> 1]
         /\ UNCHANGED <<tee, branch>>
    ELSE LET first == NextOn(1, tee, branch)
             second == NextOn(2, first.tee, first.branch)
         IN  /\ pending' = [b \in Branches |-> Asked]
             /\ mux' = [pc |-> "racing", winner |-> NoBranch]
             /\ tee' = second.tee /\ branch' = second.branch

\* The generator is resumed after a yield: it pulls the input that has been emitted
\* and races again.
MuxResumes ==
    LET b == mux.winner
        call == NextOn(b, tee, branch)
        p == [pending EXCEPT ![b] = Asked]
    IN  /\ pending' = p
        /\ mux' = [pc |-> "racing", winner |-> RaceNow(p)]
        /\ tee' = call.tee /\ branch' = call.branch

\* mutant: the first input to end is taken for the end of all
MuxContinuesShort ==
    /\ mux.pc = "racing" /\ mux.winner # NoBranch
    /\ mux' = CASE pending[mux.winner].kind = "item" -> [mux EXCEPT !.pc = "yielded"]
                [] pending[mux.winner].kind = "end" -> [pc |-> "ended", winner |-> NoBranch]
                [] pending[mux.winner].kind = "error" -> [pc |-> "threw", winner |-> NoBranch]
    /\ UNCHANGED <<class, source, aborted, tee, branch, pending, pump, buffers, waiting, consumer>>

\* The race is over.  An item is yielded; an input that has ended leaves the map, and
\* the generator races again or returns; an exception ends the generator.
MuxContinues ==
    /\ mux.pc = "racing" /\ mux.winner # NoBranch
    /\ LET b == mux.winner
           p == [pending EXCEPT ![b] = Gone]
           rest == {c \in Branches : p[c] # Gone}
       IN  \/ /\ pending[b].kind = "item"
              /\ mux' = [mux EXCEPT !.pc = "yielded"]
              /\ UNCHANGED pending
           \/ /\ pending[b].kind = "end"
              /\ pending' = p
              /\ mux' = IF rest = {} THEN [pc |-> "ended", winner |-> NoBranch]
                        ELSE [pc |-> "racing", winner |-> RaceNow(p)]
           \/ /\ pending[b].kind = "error"
              /\ mux' = [pc |-> "threw", winner |-> NoBranch]
              /\ UNCHANGED pending
    /\ UNCHANGED <<class, source, aborted, tee, branch, pump, buffers, waiting, consumer>>

-----------------------------------------------------------------------------
(* demux *)

\* next() of branch k.  The first call of all starts the pump; a failure that is
\* known is thrown, even over items in the buffer; then the buffer, then the end,
\* and at last the queue of waiters.
NextOfKey(k) ==
    /\ consumer[k].ended = "open" /\ waiting[k] < Depth
    /\ IF pump = "idle"
       THEN pump' = "pulling" /\ MuxStarts
       ELSE UNCHANGED <<pump, mux, pending, tee, branch>>
    /\ \/ /\ pump = "failed"
          /\ consumer' = [consumer EXCEPT ![k].ended = "error"]
          /\ UNCHANGED <<buffers, waiting>>
       \/ /\ pump # "failed" /\ buffers[k] # <<>>
          /\ consumer' = [consumer EXCEPT ![k].got = Append(@, Head(buffers[k]))]
          /\ buffers' = [buffers EXCEPT ![k] = Tail(@)]
          /\ UNCHANGED waiting
       \/ /\ pump = "done" /\ buffers[k] = <<>>
          /\ consumer' = [consumer EXCEPT ![k].ended = "end"]
          /\ UNCHANGED <<buffers, waiting>>
       \/ /\ pump \in {"idle", "pulling"} /\ buffers[k] = <<>>
          /\ waiting' = [waiting EXCEPT ![k] = @ + 1]
          /\ UNCHANGED <<buffers, consumer>>
    /\ UNCHANGED <<class, source, aborted>>

\* The pump takes an item: to the first waiter of its key, else to the buffer; an
\* item of no key is dropped.  Then it pulls mux again.
PumpTakes ==
    /\ pump = "pulling" /\ mux.pc = "yielded"
    /\ LET copy == [item |-> pending[mux.winner].item, via |-> mux.winner]
           k == class[copy.item]
       IN  \/ /\ k \notin Keys
              /\ UNCHANGED <<buffers, waiting, consumer>>
           \/ /\ k \in Keys /\ waiting[k] > 0
              /\ waiting' = [waiting EXCEPT ![k] = @ - 1]
              /\ consumer' = [consumer EXCEPT ![k].got = Append(@, copy)]
              /\ UNCHANGED buffers
           \/ /\ k \in Keys /\ waiting[k] = 0
              /\ buffers' = [buffers EXCEPT ![k] = Append(@, copy)]
              /\ UNCHANGED <<waiting, consumer>>
    /\ MuxResumes
    /\ UNCHANGED <<class, source, aborted, pump>>

\* mutant: the waiters are answered only when the source ended
PumpEndsQuietly ==
    /\ pump = "pulling" /\ mux.pc \in {"ended", "threw"}
    /\ pump' = IF mux.pc = "ended" THEN "done" ELSE "failed"
    /\ IF mux.pc = "ended"
       THEN /\ consumer' = [k \in Keys |-> IF waiting[k] > 0
                                           THEN [consumer[k] EXCEPT !.ended = "end"]
                                           ELSE consumer[k]]
            /\ waiting' = [k \in Keys |-> 0]
       ELSE UNCHANGED <<consumer, waiting>>
    /\ UNCHANGED <<class, source, aborted, tee, branch, mux, pending, buffers>>

\* The loop of the pump is over: every waiter is answered.
PumpEnds ==
    /\ pump = "pulling" /\ mux.pc \in {"ended", "threw"}
    /\ LET how == IF mux.pc = "ended" THEN "end" ELSE "error"
       IN  /\ pump' = IF how = "end" THEN "done" ELSE "failed"
           /\ consumer' = [k \in Keys |-> IF waiting[k] > 0
                                          THEN [consumer[k] EXCEPT !.ended = how]
                                          ELSE consumer[k]]
           /\ waiting' = [k \in Keys |-> 0]
    /\ UNCHANGED <<class, source, aborted, tee, branch, mux, pending, buffers>>

\* The owner of the signal aborts.
Abort ==
    /\ SourceFails /\ ~aborted
    /\ aborted' = TRUE
    /\ UNCHANGED <<class, source, tee, branch, mux, pending, pump, buffers, waiting, consumer>>

-----------------------------------------------------------------------------
StreamNext ==
    \/ \E b \in Branches : Pulled(b) \/ Resume(b) \/ BranchAnswers(b)
    \/ MuxContinues
    \/ \E k \in Keys : NextOfKey(k)
    \/ PumpTakes
    \/ PumpEnds
    \/ Abort

\* Every promise the pipeline waits for settles: the source answers each pull.
\* Nothing is assumed of the consumers.
StreamFairness ==
    /\ \A b \in Branches : WF_pipelineVars(Pulled(b) \/ Resume(b) \/ BranchAnswers(b))
    /\ WF_pipelineVars(MuxContinues)
    /\ WF_pipelineVars(PumpTakes \/ PumpEnds)

StreamSpec == StreamInit /\ [][StreamNext]_pipelineVars
FairStreamSpec == StreamSpec /\ StreamFairness

-----------------------------------------------------------------------------
(* Properties *)

Copy == [item : Items, via : Branches]

StreamTypeOK ==
    /\ class \in [Items -> Keys \cup {"unknown"}]
    /\ source \in 0..Length
    /\ aborted \in BOOLEAN
    /\ tee \in [cache : Seq(Items), offset : Nat, finished : BOOLEAN, error : BOOLEAN,
                inflight : BOOLEAN]
    /\ branch \in [Branches -> [pc : {"idle", "pulling", "waiting", "ready"}, index : Nat]]
    /\ mux \in [pc : {"fresh", "racing", "yielded", "ended", "threw"},
                winner : Branches \cup {NoBranch}]
    /\ pending \in [Branches -> Result \cup {Fresh, Asked, Gone}]
    /\ pump \in {"idle", "pulling", "done", "failed"}
    /\ buffers \in [Keys -> Seq(Copy)]
    /\ waiting \in [Keys -> Nat]
    /\ consumer \in [Keys -> [got : Seq(Copy), ended : {"open", "end", "error"}]]

\* Whatever the order in which pulls settle, each consumer receives through each
\* branch of tee the items of its class in the order of the source, none twice and
\* none skipped; and it is told that the stream has ended only after it has received
\* all of them through both (_teeImpl, _muxImpl, _demuxImpl).
DeliveredOnce ==
    \A k \in Keys :
        LET got == consumer[k].got
            mine == {i \in Items : class[i] = k}
        IN  /\ \A n \in DOMAIN got : got[n].item \in mine
            /\ \A m, n \in DOMAIN got :
                 m < n /\ got[m].via = got[n].via => got[m].item < got[n].item
            /\ \A n \in DOMAIN got : \A i \in mine :
                 i < got[n].item => \E m \in 1..n : got[m] = [got[n] EXCEPT !.item = i]
            /\ consumer[k].ended = "end" =>
                 \A i \in mine, b \in Branches :
                    \E n \in DOMAIN got : got[n] = [item |-> i, via |-> b]

\* A call of next() that waits is answered: by an item, by the end or by an exception,
\* whatever fails and whoever pulled first (_demuxImpl's pump, ensureCached).
EveryPullAnswered == \A k \in Keys : waiting[k] > 0 ~> waiting[k] = 0
=============================================================================
