---------------------------- MODULE HostInstalls ----------------------------
(***************************************************************************)
(* Who puts what into the cache of one RuntimeHost, and who is told: a     *)
(* commit, a materialize, a sync response, a join and the collector all    *)
(* replace _cachedState, each with its own awaits; subscribers are sent    *)
(* the difference to the state last notified; a watch polls the frontier.  *)
(*                                                                         *)
(* A WarpState is the set of patches in it, <<writer, place in chain>>,    *)
(* and an object that a commit changes in place.  A frontier gives the     *)
(* place of each writer's tip.  No chain of the peer diverges from ours    *)
(* (SyncExchange has those), and the peer is asked without pages.          *)
(***************************************************************************)
EXTENDS Naturals, Sequences, FiniteSets

CONSTANTS
    OwnWriter, OtherWriter,
    Subscribers,
    MaxOwn,         \* bound: patches this host commits
    MaxOther,       \* bound: patches of the other writer, anywhere
    MaxInstalled,   \* bound: states that are allocated
    MaxPollFails    \* bound: reads of the frontier that fail under a poll

ASSUME InstallsAssumption ==
    /\ OwnWriter # OtherWriter
    /\ MaxOwn \in Nat /\ MaxOther \in Nat /\ MaxInstalled \in Nat /\ MaxPollFails \in Nat

VARIABLES
    refs,       \* the writer refs of our repository
    peer,       \* those of the peer
    states,     \* every WarpState allocated
    cache,      \* _cachedState, _stateDirty, _lastFrontier and _lastNotifiedState
    commit,     \* the call of _onPatchCommitted in progress
    read,       \* the call of materialize in progress
    apply,      \* the call of syncWith in progress
    subs,       \* the subscribers, and what each makes of the differences it was sent
    poll,       \* a watch that polls
    orderly,    \* no call overlapped another, no state was joined, no hash of a commit failed
                \* (history)
    steady      \* since a materialize read them, every ref moved through the cache (history)

installVars == <<refs, peer, states, cache, commit, read, apply, subs, poll, orderly, steady>>

HostWriters == {OwnWriter, OtherWriter}
UpTo(f) == UNION {{<<w, i>> : i \in 1..f[w]} : w \in HostWriters}
NoTips == [w \in HostWriters |-> 0]

\* _lastFrontier is null at first.
Null == [w \in {} |-> 0]

NoCommit == [pc |-> "idle", state |-> 0, place |-> 0]
NoRead == [pc |-> "idle", tips |-> NoTips, state |-> 0]
NoApply == [pc |-> "idle", tips |-> NoTips, patches |-> {}, result |-> {}, last |-> NoTips]
Absent == [pc |-> "absent", copy |-> {}]

InstallsInit ==
    /\ refs \in {f \in [HostWriters -> 0..MaxOther] : f[OwnWriter] = 0 /\ f[OtherWriter] <= 1}
    /\ peer = [w \in HostWriters |-> IF w = OwnWriter THEN 0 ELSE 1]
    /\ states = <<>>
    /\ cache = [at |-> 0, dirty |-> FALSE, last |-> Null, notified |-> {}]
    /\ commit = NoCommit /\ read = NoRead /\ apply = NoApply
    /\ subs = [s \in Subscribers |-> Absent]
    /\ poll = [on |-> FALSE, inFlight |-> FALSE, reported |-> FALSE, failures |-> 0]
    /\ orderly = TRUE /\ steady = TRUE

Quiet == commit.pc = "idle" /\ read.pc = "idle" /\ apply.pc = "idle"
Clean == cache.at # 0 /\ ~cache.dirty
Cached == IF cache.at = 0 THEN {} ELSE states[cache.at]

-----------------------------------------------------------------------------
(* Subscribers *)

\* diffStates, applied by its receiver; the null state counts as empty.
Patched(copy, before, after) == (copy \ (before \ after)) \cup (after \ before)

\* _notifyAfterMaterialize and _notifySubscribers: one that waits for its replay gets
\* all of the state, the others the difference to the state last notified.
Notify(state, c) ==
    [subs |-> [s \in Subscribers |->
                  IF subs[s].pc = "absent" THEN subs[s]
                  ELSE [pc |-> "on", copy |-> IF subs[s].pc = "pending" THEN state
                           ELSE Patched(subs[s].copy, c.notified, state)]],
     cache |-> [c EXCEPT !.notified = state]]

Notified(state, c) ==
    LET told == Notify(state, c) IN subs' = told.subs /\ cache' = told.cache

\* subscribe(): a replay needs a state, or waits for one.  Without replay the
\* application has read the cache by itself.
Subscribe(s, replay) ==
    /\ subs[s].pc = "absent"
    /\ subs' = [subs EXCEPT ![s] = [pc |-> IF replay /\ cache.at = 0 THEN "pending" ELSE "on",
                                    copy |-> Cached]]
    /\ UNCHANGED <<refs, peer, states, cache, commit, read, apply, poll, orderly, steady>>

Unsubscribe(s) ==
    /\ subs[s].pc # "absent"
    /\ subs' = [subs EXCEPT ![s] = Absent]
    /\ UNCHANGED <<refs, peer, states, cache, commit, read, apply, poll, orderly, steady>>

-----------------------------------------------------------------------------
(* Commits *)

NewPatch == <<OwnWriter, refs[OwnWriter] + 1>>

\* A commit has moved the ref and _onPatchCommitted runs: a clean state is changed in
\* place and then hashed; otherwise the cache is dirty.
Commit ==
    /\ commit.pc = "idle" /\ refs[OwnWriter] < MaxOwn
    /\ refs' = [refs EXCEPT ![OwnWriter] = @ + 1]
    /\ \/ /\ Clean
          /\ states' = [states EXCEPT ![cache.at] = @ \cup {NewPatch}]
          /\ commit' = [pc |-> "hashing", state |-> cache.at, place |-> NewPatch[2]]
          /\ UNCHANGED <<cache, steady>>
       \/ /\ ~Clean
          /\ cache' = [cache EXCEPT !.dirty = TRUE]
          /\ steady' = FALSE
          /\ UNCHANGED <<states, commit>>
    /\ orderly' = (orderly /\ Quiet)
    /\ UNCHANGED <<peer, read, apply, subs, poll>>

\* _setMaterializedState with that object, whatever is in the cache by now, and the new
\* tip in _lastFrontier.
CommitInstalls ==
    /\ commit.pc = "hashing"
    /\ Notified(states[commit.state],
                [cache EXCEPT !.at = commit.state, !.dirty = FALSE,
                              !.last = IF @ = Null THEN @
                                       ELSE [@ EXCEPT ![OwnWriter] = commit.place]])
    /\ commit' = NoCommit
    /\ UNCHANGED <<refs, peer, states, read, apply, poll, orderly, steady>>

\* The hash fails, and with it the hook: the committer warns and returns the commit all
\* the same, and the cached object has its patch.
CommitFails ==
    /\ commit.pc = "hashing"
    /\ commit' = NoCommit
    /\ orderly' = FALSE
    /\ UNCHANGED <<refs, peer, states, cache, read, apply, subs, poll, steady>>

\* A strand is written: the host's cache is marked dirty.
StrandWrites ==
    /\ cache.at # 0 /\ ~cache.dirty
    /\ cache' = [cache EXCEPT !.dirty = TRUE]
    /\ orderly' = (orderly /\ Quiet)
    /\ UNCHANGED <<refs, peer, states, commit, read, apply, subs, poll, steady>>

\* PatchController.join: nobody is told.
Join ==
    /\ cache.at # 0 /\ Len(states) < MaxInstalled
    /\ states' = Append(states, Cached \cup UpTo(peer))
    /\ cache' = [cache EXCEPT !.at = Len(states) + 1, !.dirty = FALSE]
    /\ orderly' = FALSE
    /\ UNCHANGED <<refs, peer, commit, read, apply, subs, poll, steady>>

-----------------------------------------------------------------------------
(* materialize() *)

Reads(r) ==
    /\ read' = [r EXCEPT !.pc = "reading", !.tips = refs]
    /\ steady' = TRUE

Materialize ==
    /\ read.pc = "idle" /\ Len(states) < MaxInstalled
    /\ Reads(NoRead)
    /\ orderly' = (orderly /\ Quiet)
    /\ UNCHANGED <<refs, peer, states, cache, commit, apply, subs, poll>>

\* _onMaterialized up to its first await.
ReadInstalls ==
    /\ read.pc = "reading"
    /\ states' = Append(states, UpTo(read.tips))
    /\ cache' = [cache EXCEPT !.at = Len(states) + 1, !.dirty = FALSE]
    /\ read' = [read EXCEPT !.pc = "installed", !.state = Len(states) + 1]
    /\ UNCHANGED <<refs, peer, commit, apply, subs, poll, orderly, steady>>

\* The frontier is read again and kept; the checkpoint that may follow is awaited.
ReadFrontier ==
    /\ read.pc = "installed"
    /\ cache' = [cache EXCEPT !.last = refs]
    /\ read' = [read EXCEPT !.pc = "framed"]
    /\ UNCHANGED <<refs, peer, states, commit, apply, subs, poll, orderly, steady>>

\* The collector may install a compacted copy of the state that was read; then the
\* subscribers are told of that state.
ReadNotifies(gc) ==
    /\ read.pc = "framed"
    /\ states' = IF gc THEN Append(states, states[read.state]) ELSE states
    /\ Notified(states[read.state], IF gc THEN [cache EXCEPT !.at = Len(states) + 1] ELSE cache)
    /\ read' = NoRead
    /\ UNCHANGED <<refs, peer, commit, apply, poll, orderly, steady>>

-----------------------------------------------------------------------------
(* A sync response *)

\* The request carries the tips of our refs.
SyncAsks ==
    /\ apply.pc = "idle" /\ Len(states) < MaxInstalled
    /\ apply' = [NoApply EXCEPT !.pc = "asked", !.tips = refs]
    /\ orderly' = (orderly /\ Quiet)
    /\ UNCHANGED <<refs, peer, states, cache, commit, read, subs, poll, steady>>

\* The response is there.  A host without a state accepts it without reading it, or
\* materializes first when the caller asked for that.
SyncAnswered(materialize) ==
    /\ apply.pc = "asked"
    /\ IF cache.at = 0 /\ ~materialize
       THEN apply' = NoApply
       ELSE apply' = [apply EXCEPT !.pc = IF cache.at = 0 THEN "materializing" ELSE "gated",
                                   !.patches = UpTo(peer) \ UpTo(apply.tips)]
    /\ IF cache.at = 0 /\ materialize /\ read.pc = "idle"
       THEN Reads(NoRead) ELSE UNCHANGED <<read, steady>>
    /\ UNCHANGED <<refs, peer, states, cache, commit, subs, poll, orderly>>

SyncMaterialized ==
    /\ apply.pc = "materializing" /\ read.pc = "idle"
    /\ apply' = [apply EXCEPT !.pc = "gated"]
    /\ UNCHANGED <<refs, peer, states, cache, commit, read, subs, poll, orderly, steady>>

\* applySyncResponse on a clone of the state the cache has now: the tip of each writer
\* in the response becomes that of its last patch.
Tip(w, P) == CHOOSE i \in {p[2] : p \in P} : <<w, i>> \in P /\ <<w, i + 1>> \notin P

FrontierWith(last, P) ==
    [w \in HostWriters |-> IF \E p \in P : p[1] = w THEN Tip(w, P)
                           ELSE IF last = Null THEN 0 ELSE last[w]]

\* mutant: the frontier is kept before the state is installed
SyncAppliesEarly(trusted) ==
    /\ apply.pc = "gated"
    /\ apply' = IF ~trusted /\ apply.patches # {} THEN NoApply
                ELSE [apply EXCEPT !.pc = "hashing", !.result = Cached \cup apply.patches,
                                   !.last = FrontierWith(cache.last, apply.patches)]
    /\ cache' = [cache EXCEPT !.last = apply'.last]
    /\ UNCHANGED <<refs, peer, states, commit, read, subs, poll, orderly, steady>>

\* The gate has answered: the writers are refused, or the response is applied and the
\* result is being hashed.
SyncApplies(trusted) ==
    /\ apply.pc = "gated"
    /\ apply' = IF ~trusted /\ apply.patches # {} THEN NoApply
                ELSE [apply EXCEPT !.pc = "hashing", !.result = Cached \cup apply.patches,
                                   !.last = FrontierWith(cache.last, apply.patches)]
    /\ UNCHANGED <<refs, peer, states, cache, commit, read, subs, poll, orderly, steady>>

\* mutant: the subscribers are not told
SyncInstallsQuietly ==
    /\ apply.pc = "hashing"
    /\ states' = Append(states, apply.result)
    /\ cache' = [cache EXCEPT !.at = Len(states) + 1, !.dirty = FALSE, !.last = apply.last]
    /\ apply' = NoApply
    /\ UNCHANGED <<refs, peer, commit, read, subs, poll, orderly, steady>>

\* _setMaterializedState, and then _lastFrontier.
SyncInstalls ==
    /\ apply.pc = "hashing"
    /\ states' = Append(states, apply.result)
    /\ Notified(apply.result, [cache EXCEPT !.at = Len(states) + 1, !.dirty = FALSE,
                                            !.last = apply.last])
    /\ apply' = NoApply
    /\ UNCHANGED <<refs, peer, commit, read, poll, orderly, steady>>

\* The hash fails: nothing is kept.
SyncFails ==
    /\ apply.pc = "hashing"
    /\ apply' = NoApply
    /\ UNCHANGED <<refs, peer, states, cache, commit, read, subs, poll, orderly, steady>>

-----------------------------------------------------------------------------
(* A watch that polls *)

Watch ==
    /\ ~poll.on /\ ~poll.inFlight
    /\ poll' = [poll EXCEPT !.on = TRUE, !.reported = FALSE]
    /\ UNCHANGED <<refs, peer, states, cache, commit, read, apply, subs, orderly, steady>>

\* The timer is cancelled; a poll in flight goes on.
Unwatch ==
    /\ poll.on
    /\ poll' = [poll EXCEPT !.on = FALSE]
    /\ UNCHANGED <<refs, peer, states, cache, commit, read, apply, subs, orderly, steady>>

\* The timer fires, unless a poll is in flight.
PollBegins ==
    /\ poll.on /\ ~poll.inFlight
    /\ poll' = [poll EXCEPT !.inFlight = TRUE, !.reported = FALSE]
    /\ UNCHANGED <<refs, peer, states, cache, commit, read, apply, subs, orderly, steady>>

Changed == cache.last = Null \/ cache.last # refs

\* mutant: the flag is lowered only when the read succeeded
PollEndsStuck ==
    /\ poll.inFlight
    /\ \/ poll' = [poll EXCEPT !.inFlight = FALSE, !.reported = Changed]
       \/ /\ poll.failures < MaxPollFails
          /\ poll' = [poll EXCEPT !.failures = MaxPollFails + 1]
    /\ poll.failures <= MaxPollFails
    /\ UNCHANGED <<refs, peer, states, cache, commit, read, apply, subs, orderly, steady>>

\* hasFrontierChanged has read the refs and compares them with what _lastFrontier is by
\* now, or the read has failed; either way the flag is lowered.
PollEnds ==
    /\ poll.inFlight
    /\ \/ poll' = [poll EXCEPT !.inFlight = FALSE, !.reported = Changed]
       \/ /\ poll.failures < MaxPollFails
          /\ poll' = [poll EXCEPT !.inFlight = FALSE, !.failures = @ + 1]
    /\ UNCHANGED <<refs, peer, states, cache, commit, read, apply, subs, orderly, steady>>

-----------------------------------------------------------------------------
(* The others *)

\* Another process moves the other writer's ref in our repository.
RefMoves ==
    /\ refs[OtherWriter] < MaxOther
    /\ refs' = [refs EXCEPT ![OtherWriter] = @ + 1]
    /\ steady' = FALSE
    /\ UNCHANGED <<peer, states, cache, commit, read, apply, subs, poll, orderly>>

\* The peer gets a patch: of the other writer, or one of ours.
PeerGrows(w) ==
    /\ peer[w] < IF w = OwnWriter THEN refs[w] ELSE MaxOther
    /\ peer' = [peer EXCEPT ![w] = @ + 1]
    /\ UNCHANGED <<refs, states, cache, commit, read, apply, subs, poll, orderly, steady>>

-----------------------------------------------------------------------------
HostStep ==
    \/ CommitInstalls \/ CommitFails \/ ReadInstalls \/ ReadFrontier
    \/ \E gc \in BOOLEAN : ReadNotifies(gc)
    \/ \E b \in BOOLEAN : SyncAnswered(b) \/ SyncApplies(b)
    \/ SyncMaterialized \/ SyncInstalls \/ SyncFails

InstallsNext ==
    \/ \E s \in Subscribers, replay \in BOOLEAN : Subscribe(s, replay)
    \/ \E s \in Subscribers : Unsubscribe(s)
    \/ Commit \/ StrandWrites \/ Join \/ Materialize \/ SyncAsks
    \/ HostStep
    \/ Watch \/ Unwatch \/ PollBegins \/ PollEnds
    \/ RefMoves
    \/ \E w \in HostWriters : PeerGrows(w)

\* The timer of a watch keeps firing and a read of the refs comes back.
InstallsFairness == WF_installVars(PollBegins) /\ WF_installVars(PollEnds)

InstallsSpec == InstallsInit /\ [][InstallsNext]_installVars

-----------------------------------------------------------------------------
(* Properties *)

\* With nothing in flight, the frontier that the host keeps beside a clean state names
\* only patches of that state, whether a commit, a materialize or a sync response was
\* the last to install it or failed to: status() and hasFrontierChanged() compare the
\* refs with it.  It takes that no calls overlapped, and that every ref moved through the
\* cache: a response that begins above a patch the state lacks leaves a hole.
FrontierIsHeld ==
    orderly /\ steady /\ Quiet /\ Clean /\ cache.last # Null => UpTo(cache.last) \subseteq Cached

\* With nothing in flight, what a subscriber made of the differences it was sent is the
\* state in the cache, whenever it subscribed, with replay or without, and whether states
\* gained or lost patches; unless calls overlapped or a state was joined.
SubscribersFollow ==
    orderly /\ Quiet => \A s \in Subscribers : subs[s].pc = "on" => subs[s].copy = Cached

\* A watch over a frontier that has moved for good tells of it again and again, though a
\* timer that fires while a poll is in flight does nothing and reads may fail.
StaleIsReported == <>[](poll.on /\ Changed) => []<>poll.reported

\* "no stale reads after writes" (src/CHANGELOG.md:3065): a state that passes for clean
\* has every patch this host committed, even when its calls never overlap.
OwnCommitsRead ==
    orderly /\ Quiet /\ Clean => \A i \in 1..refs[OwnWriter] : <<OwnWriter, i>> \in Cached
=============================================================================
