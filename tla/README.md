# git-warp: TLA+ models and proofs

A verification project for git-warp, a multi-writer graph database that keeps its
history as commits in a Git repository. Its modules model the parts of the code
whose correctness depends on order: who reads a ref, a cache or a promise, when, and
what has happened by the time the result is used. TLC checks them on small instances
(`*.cfg`, listed with the question each asks under "The runs"); TLAPS proves the
most important properties for every instance (`*Proofs.tla`).
`PROJECT.json` maps every definition to the source lines it stands for.

    tlc -workers 2 -config host_races.cfg MCHostRaces     # model-check one run
    tlapm WarpHostProofs.tla                              # check one module's proofs

## The system

A graph is a set of *writers*, each with one chain of *patch* commits under
`refs/warp/<graph>/writers/<id>`. A process opens the graph as a host
(`RuntimeHost`), builds patches against its view, publishes them with a
compare-and-swap of its writer's ref, and *materializes* a state by reducing all
chains with CRDT rules. Checkpoints shorten the replay; sync fetches patches from a
peer. Beside the patches a graph keeps two ledgers, audit receipts and trust records.
Above this sits the public `Runtime` with lanes: the worldline, and *strands*
(drafts), which have an overlay chain of their own and are *settled* into the
worldline. There are no threads, but every operation is a sequence of awaits on Git,
several operations of one process interleave at them, and several processes share the
repository with nothing but ref compare-and-swap between them.

### Components, their state and what makes them correct

| Component | State | Operations | Hard part | Correct means | Module |
|---|---|---|---|---|---|
| Write path and writer chains (`PatchController`, `PatchDiscovery`, `PatchBuilder`, `PatchCommitter`, `Writer`) | writer refs; the tick, parent and vector a builder captured | createPatch, beginPatch, commit, post-commit hook | tick and parent are read several awaits before the ref moves; lost answers | a reported commit is never lost; ticks increase; dots are unique | `WarpHost`, abstractly `PatchHistory` |
| Host cache and materialization (`RuntimeHost`, `MaterializeController`) | cached state, dirty flag, version vector, observed clock, two frontiers | materialize (live, ceiling), incremental application after a commit | the cache is mutated in place and replaced after awaits | a clean cache has the process's own writes; "unchanged" means complete | `WarpHost` |
| Checkpoints (`CheckpointController`) | checkpoint ref | createCheckpoint, replay from it, GC | refs and state of different moments are paired | a checkpoint holds what it claims | `WarpHost`, GC in `WarpState` |
| Subscriptions and watches (`SubscriptionController`) | subscribers, the state last notified, a poll | subscribe, unsubscribe, notify, poll | five kinds of call replace the cache, each with awaits | subscribers follow the cache; a moved frontier is reported | `HostInstalls` |
| Sync (`SyncController`, `HttpSyncServer`, `SyncAuthService`, `sync/`) | attempts, requests in flight, nonces and lamports of the server, pages | syncWith, serve, page, apply | timeouts against late answers, replays, restarts, pages of a growing chain | a request is processed once; pages leave no hole; a call ends where it has a timer | `SyncExchange`, `HostInstalls` |
| Runtime lifecycle and mutation gate (`RuntimeActivity`, `RuntimeMutationGate`) | open/closing/closed, tracked calls, the tail promise | run, acquire, close | close against calls that were admitted but have not run | the storage outlives its users; mutations exclude each other; close ends | `RuntimeLifecycle` |
| Observations (`Observation`, `RuntimeLaneAdapter`) | one execution, one consumer or drain, a lease | next, return, receipt | cancellation at every point of a lazy start | a partial reading is never reported complete | `RuntimeLifecycle` |
| Streams (`WarpStream`) | the cache of tee, the pulls of mux, the buffers and waiters of demux | tee, mux, demux, abort | branches that share pulls, failures with waiters | every copy once and in order; every waiter answered | `WarpStream` |
| Strand settlement (`RuntimeSettlement`, `DraftTimelineRuntime`, `DraftSettlementRuntime`) | draft states per handle, plans, gate | fork, strand, write, previewSettlement, settle | preview and settlement read four things at four moments; partial promotion; flags in memory | nothing is promoted twice; "derived" means all of it | `Settlement` |
| Strand descriptors, queue and ticks (`services/strand/`) | descriptor document, overlay chain, reentrancy flag | queueStrandIntent, tickStrand, patchStrand, createStrandPatch, braidStrand | load, work, write of a whole document | a returned patch stays; a tick is one run of patches; an intent is committed once | `StrandQueue` |
| Replicated state and CRDTs (`crdt/`, `WarpState`, `JoinReducer`, `executeGC`) | OR-sets, registers, births, observed frontier | apply, join, compact | any order, repetition, removes before adds, garbage collection | a state is a function of its set of patches | `WarpState` |
| Trie OR-sets and sessions (`orset/`, `JoinReducerSession`) | working pages, dirty set, handles, roots | add, remove, read, scan, flush, close, abort; replay of streamed chains | a flush that fails half way, pages of three ages, splits | the pages read as the set they stand for | `TrieSession`, `SessionReplay` |
| Retained materializations (`GitCasMaterialization*`) | the current lease, retirements, workspaces, turns | acquire, release, openWorkspace, close | a lease is replaced or its store closed while borrowed | what is borrowed is held; close gives everything back | `MaterializationStore` |
| Audit receipts (`AuditReceiptService`, `AuditChainVerifier`) | previous receipt, expected head, retry and degraded flags | commit hook, retry, verify | overlapping commits share the flags | one receipt each; gaps the service hears of are counted; honest chains verify | `AuditChain` |
| Trust (`TrustRecordService`, `GitTrustChainAdapter`, `TrustStateBuilder`, `TrustEvaluator`) | the record chain, keys, bindings | append with retry, evaluate | administrators race, answers are lost | a revocation holds | `TrustChain` |

Interactions: `RuntimeLifecycle` admits the calls whose effects the other modules
model, and its gate is the lock of `Settlement`. A settlement's promotion and a
strand's patches go through the write path of `WarpHost`. The state `WarpHost` and
`HostInstalls` treat as a set of patches is what `WarpState` computes from that set:
`WarpState` shows that the set is all that matters. `SyncExchange` delivers what
`HostInstalls` installs. `TrieSession` shows that paged sets are sets, which
`SessionReplay` relies on and which the leases of `MaterializationStore` keep in
storage.

### Not modelled

| Part | Why |
|---|---|
| Creating, dropping and braiding strands beyond the descriptor | one-shot ref writes around the document `StrandQueue` has |
| Choice of a retained predecessor, promotion of a workspace into the cache | content-addressed: `WarpHost` takes a retained state to be what a replay of its coordinate returns |
| Compaction of tries (`TrieCompactor`, `executeGCInSession`) | the session refuses it when it has a workspace, and nothing in `src/src` calls it |
| Effect pipeline | emission to sinks that are the application's, without state of its own between calls |
| Indexes, materialized views, queries, traversal, observers, optics, admission verdicts, conflict analysis, comparison, merge planning, provenance, BTR, wormholes, bisect | pure functions of immutable inputs: a model would repeat the code |
| Fork, storage registry and adapters, codecs, commit messages, migrations, continuum, command line, presenters, test support, spikes | one-shot writes, encodings, offline tools or thin clients |

These make up most of the repository's lines: the code with state that several calls
share is a small part of it, and the map covers that part.

## The modules

Every action is what the code does between two awaits, so TLC interleaves exactly
where the event loop (or another process) can. Operators marked *mutant* are
plausible bugs of the definition that follows them; they are used only to show that
a property notices.

**`PatchHistory`** is the abstract promise of the durable history: one chain per
writer that grows at its head with increasing ticks, and reported commits that name
their position in it. `WarpHost` implements it (`ImplementsHistory`), as a run and as
a theorem.

**`WarpHost`** has the repository (`chain`, `checkpoint`), one record per process
(`host`: version vector, heap of `WarpState` objects, the cached one, dirty flag,
clock, `cachedFrontier`, `lastFrontier`), one per builder (`session`), and the
materialization and checkpoint in progress (`reader`, `checkpointer`). A state is the
set of patches it contains. Objects are on a heap because the code mutates the cached
state in place while another call may hold it. `createPatch` and `Writer.beginPatch`
differ (`Api`): only the first looks at the host's clock, and a `Writer` keeps the
version vector object it captured. Publication can fail before or after the ref moved,
and the hook behind it can fail with the hash of the state it has just changed in
place: the committer logs that (`warned`) and returns the commit (`Faults`). `Discipline` names rules the *application* keeps: `serial` (one call at a
time per process) and `materialized` (no write without a clean cache).

**`HostInstalls`** is the cache of one host seen from its readers: commits,
materializations, sync responses, joins and the collector all install a state, each
after its own awaits; subscribers apply the differences they are sent; a watch polls
`hasFrontierChanged`. `orderly` and `steady` are history: they say when a property may
be asked.

**`SyncExchange`** has `syncWith` with its attempts, timeout and signal, the requests
in the network (delayed past their timeout, delivered again), the server with its
lamport check and its durable nonces, which restarts, and a requester that follows
pages while the chains grow. The timer and the caller's signal cover a fetch until its
headers come; the body behind a 200 is a step of its own (`BodyRead`) that may fail, or
never come. Signatures are taken to be right; the rate limiter
refuses as it likes.

**`AuditChain`** has one `AuditReceiptService` per process over one chain, and the walk
of the verifier. A commit has its tick from its publication (`Commit`); the hook, the
hash of the new state, the service's call, its append and the answer are steps after
it, at each of which commits overtake one another, and the hook may fail before the
service hears of the commit (`HookFails`). A conflict of the append is taken to mean
that it did not take place: `OneReceiptEach` rests on git-cas never answering
`PUBLICATION_CONFLICT` for a publication of its own whose answer it lost. **`TrustChain`** has the ledger of records,
administrators that append with retries, and the fold of records into keys, bindings
and a verdict. Records are named by their place instead of a hash.

**`RuntimeLifecycle`** has `RuntimeActivity` (`activity`, `active`, `awaited`), the
gate's promise chain (`calls`, `turns`, `resolved`), and for each observation the
execution promise, the consumer's `next` and `return`, the generator and the receipt.
A consumer may call `return()` at any time.

**`WarpStream`** composes tee, mux and demux into one pipeline, in which mux pulls both
branches of tee at once and consumers have several calls of `next()` outstanding.

**`MaterializationStore`** has the turns of lease acquisitions, the current lease, the
borrowers of each lease, the workspaces of jobs and `close()`. A lease is named by the
caller that opened it; storage may refuse to open, and its refusal to release is
reported and otherwise the same.

**`Settlement`** follows one strand. The target only grows, so a count names its
frontier; the opaque digests of a snapshot are named by what they hash, and law and
policy are constants. The checkpoint id is part of the target frontier, so a new
checkpoint alone makes a plan stale. `Fork` is one step because it runs behind the
gate and nothing it reads matters before it ends. A draft write after the draft has
joined is accepted by the code and can never be promoted. The deprecated
`Timeline.join`, which bypasses the gate, is left out.

**`StrandQueue`** has the descriptor, the overlay and up to `Slots` calls in
progress, each with the descriptor and the head it loaded. `publishDescriptor` reads
the revision it compares against when it writes (`ReadRevision`, `Publish`). The
overlay's length names its head, because dropping a strand is left out. The persisted
overlay head is replaced when a descriptor is hydrated, so it is not a field here.
The committer's early head check is merged with the compare-and-swap that repeats it.
Ids are compared as the padded strings they are (`IdBefore`), in each of the three
places where the code sorts the queue: on every load (`Parsed`), when an intent is
stored and when a tick begins. A descriptor write that fails behind a patch's commit is
swallowed and the patch returned (`DescriptorWriteFails`); elsewhere it fails the call.

**`WarpState`** has one replica per writer. Node and edge OR-sets behave alike and
never share a dot, so they are one set; an element has one property, whose value is
named by the event that wrote it. `Deliver` respects each chain's order and nothing
else, may repeat, and may or may not raise the clock (materialization does, sync does
not). `Meaning(P)` is the reference definition: the state a set of patches stands for,
with no mention of order. `past` is a variable of history: a replica is whole until a
compaction drops something, compacted after it, and mixed once a compacted state was
joined with another or given a patch it already had. The code allows all three;
`Mixing = FALSE` is a bound that keeps TLC from exploring the last, of which nothing is
claimed.

**`TrieSession`** has two tries (nodes, edges), each a cursor over immutable pages: a
root, the pages loaded or made, which of them are dirty and the handles of those that
were loaded. A handle is the page it names. Splitting, marking the pages above a
change as pending, resolving children when a flush writes, and the checkpoint of dirty
pages are as in the code; a flush may fail on the nodes, on the edges or at the
witness. `elements` is the reference: what the session was told. Routes are the hashed
ids, so the module assumes that they all have the same, positive number of nibbles and
that no two ids share one.

**`SessionReplay`** reduces the patches of a `WarpState` replica the way a host with
trie storage does: chain by chain in the order of writer ids, into a session.

The `MC` modules give instances. Several put parts that share no state side by side
and choose one at the start (`focus`, `mix`, `deployment`); the others stay as they
began.

## The runs

`CHECK_DEADLOCK FALSE` is set throughout: every model is bounded by the calls or
patches it may make, and after them the system may stop.

| Run | Instance | Shows |
|---|---|---|
| `host_races` | 2 processes, one writer id, failures, lost answers, 1 restart, any overlap; 3 patches with live reads, or 1 patch with 2 checkpoints and reads to a ceiling | `NoLostCommit`; the write path implements `PatchHistory` (`ImplementsHistory`) |
| `host_serial` | one call at a time, failed publications and hooks, 1 restart: one process with `createPatch`, a `Writer` and 2 checkpoints, or two processes that materialize before they write, up to 2 adds per patch | `DotsUnique`, `OwnWritesVisible`, `CacheMatchesFrontier`, `FreshIsComplete`, `CheckpointSound`, `LamportCoversReads` |
| `dots_reused` | two processes, no materialize between writes | **violated**: `DotsUnique` |
| `promises` | 1 plain call, 2 mutations, 1 observation, close; a pipeline of 2 items on 2 keys, 2 calls per consumer, failure and abort; 2 callers on 2 coordinates, 1 workspace, close; fair | `NoUseAfterRelease`, `MutationsExclusive`, `CompletedIsComplete`, `DeliveredOnce`, `BorrowedIsHeld`; liveness: `CloseTerminates`, `ReceiptSettles`, `EveryPullAnswered`, `StoreCloses` |
| `settle_shared` | 2 handles, 2 plans, 2 intents, another process, failures, restarts | `PromotedOnce`, `DerivedIsComplete`, `SourceSettled` |
| `settle_local` | 1 handle, 2 plans, 2 intents, failures, restarts, no other process, fair | `PromotesOnBasis`, `SettlementAnswers` (liveness) |
| `strands` | 2 processes, 2 calls at a time, 4 calls, failures; the intents are the 9998th to the 10001st | `ReturnedPatchStays`, `TickIsContiguous`, `IntentsConserved`, `DrainedInOrder` |
| `state` | 3 replicas that join states, repeat deliveries and compact, with 2 patches of the first, one of the second, which may add twice, and none of the third, on a node with a loop; or a session on 3 nodes and an edge, leaves of one entry, 4 changes, a flush at 3 dirty pages, failing flushes | `StateIsMeaning`, `ViewIsMeaning`, `PagesAreTheSet` |
| `removal_lost` | 2 writers, 2 patches | **violated**: `ReplayIsMeaning` |
| `sync` | one `syncWith` of up to 2 attempts, requests delivered twice, a restart of the server; pages of one patch over 2 growing chains; a host with 2 own and 2 other patches and a subscriber; a watch under overlapping calls; fair | `ProcessedOnce`, `PagesCover`, `FrontierIsHeld`, `SubscribersFollow`; liveness: `SyncSettles`, `StaleIsReported` |
| `commit_hidden` | a host that makes one call at a time | **violated**: `OwnCommitsRead` |
| `records` | 2 processes that write as one writer, 4 commits, up to 3 under way at once, conflicts, lost answers, failing hooks, 1 restart; or 5 commits, up to 2 under way, without hook failures and restarts; 2 administrators, 2 keys, 1 writer, 4 records, 1 retry, lost answers | `OneReceiptEach`, `GapsAreCounted`, `HonestChainVerifies`, `RevocationHolds` |

**Why these bounds.** The counterexamples that the mutants and the limits below
produce need at most two processes, two patches or calls of each side and one failure
or restart; the bounds are one step above that where it stays feasible. Two patches
per chain are needed for a parent to go stale, a third for a lost answer to be
followed by a retry and another process's commit, two adds for counters and ticks to
differ, two intents for a promotion to be partial, two mutations for one to queue
behind another, four calls for a patch to try to slip into a tick of two intents.
Three patches over three replicas let a remove overtake its add by way of a third
replica. Two callers let a lease be shared, replaced while it is borrowed and retired
by close(); three give the same answers. Four changes split a leaf twice, flush, and
change a page that was flushed and loaded again; five were checked too. Two
incarnations of a server forget its lamports once; two arrivals of a request are a
replay. Five commits let the audit service conflict, retry, degrade and go on; three under way
let receipts land against the order of their ticks while calls of the service do not
overlap. The code signs any record for the trust chain, and the theorem is about any; for
TLC an administrator signs what is right for the chain it reads, and after a revocation
tries to add the key anew. Four intents from the 9998th on are two of four digits and two of five.
Symmetry is used over handles, plans, processes, slots, keys and administrators, in
runs without liveness only; writers are not interchangeable, their ids break ties.

**Fairness** is assumed only for steps of calls that have started, never for starting
a call, failing or crashing.
- `RuntimeLifecycle`: weak fairness of task, gate, execution and release steps: each
  await is on a promise that Git or the event loop settles; and a consumer that has advanced its iterator advances again or
  returns, as every `for await` loop does.
- `WarpStream`: weak fairness of what runs once a pull is answered, of the source's
  answer and of the pump.
- `MaterializationStore`: weak fairness of the steps of an acquisition, of `close()`
  and of storage's answers; a borrower returns its lease, which its callers do in
  finally blocks. A job may keep its workspace.
- `Settlement`: weak fairness of the steps of a plan, and strong fairness of
  `TakeGate`, because the gate is first come, first served (`RuntimeLifecycle`) and
  every holder leaves it.
- `SyncExchange`: weak fairness of the client's own steps: an attempt begins, its timer
  fires, an answer that is there is applied. Neither the network nor the server nor a
  peer object owes it anything: the body of an answer and a peer's promise may never
  come.
- `HostInstalls`: weak fairness of the interval timer and of the read a poll waits for.

## What the code does not keep

Three runs show a disagreement between the code and its own words.

- `dots_reused`: `_onPatchCommitted` advances the host's version vector by one per
  commit, while `PatchBuilder` takes one counter per add. After a patch with two adds
  the next patch of the same host, built without a materialize between them, reuses the
  second dot. `crdt/Dot.ts:22` says that no single writer uses the same counter twice.
  With a materialize before every write the dots are unique (`host_serial`).
- `commit_hidden`: a strand write marks the cache dirty, so the next commit is not
  applied to it; a sync response is then applied to that state and clears the flag.
  The host reads a cache that counts as fresh without its own write, although
  `CHANGELOG.md:3065` promises no stale reads after writes.
- `removal_lost`: a paged set forgets a remove whose element has no entry yet
  (`TrieCursor.ts:133`), and the chains are streamed writer by writer
  (`RuntimePatchCollector.ts:81`). When the remover's id sorts before the adder's, a
  materialization through a session brings the element back; one through an `ORSet`
  does not. `README.md:278` says writers can apply each other's patches in any order.

The passing runs say under which conditions a property holds. Where a condition is
not the code's but the application's, dropping it gives a short counterexample:

*Host*
- `OwnWritesVisible` needs `serial`: a commit that lands while `materialize()` is in
  flight is missing from the state that is then installed as clean
  (`RuntimeHost.ts:897`).
- `FreshIsComplete` needs a process that is alone: `_lastFrontier` is read after the
  reduction (`RuntimeHost.ts:920`), so `hasFrontierChanged()` can answer no while the
  cache lacks another process's patch. It also needs live materializations: one to a
  ceiling after a live one leaves a clean, partial cache beside the live frontier.
- `CheckpointSound` needs a process that is alone: `createCheckpoint` pairs the refs of
  now with the state of the last materialize (`CheckpointController.ts:141`), and a
  replay from it skips what lies between.
- `LamportCoversReads` needs `createPatch`: `Writer.beginPatch` looks at its own head
  only (`Writer.ts:175`). A process that restarts and writes without a materialize
  reuses dots.
- `DotsUnique` and `CacheMatchesFrontier` except what a failed hook leaves: a clean
  cache that has the patch beside a coordinate and a vector that do not
  (`PatchController.ts:289`), with the commit reported all the same.
- A publication whose answer is lost is reported as a conflict although the patch is
  in the chain (`PatchCommitter.ts:151`, action `PublishLosesAck`); a caller that
  retries writes twice. `NoLostCommit` is about the commits that were reported.
- `SubscribersFollow` and `FrontierIsHeld` are about calls that do not overlap
  (`orderly`): an overlapping materialize, sync or commit can leave subscribers behind
  the cache, the automatic collector installs a copy over newer installs, and `join()`
  notifies nobody. Sync writes no refs, so a later materialize drops synced patches.

*State*
- `ViewIsMeaning` says nothing of a replica with a mixed history: `runGC` compacts with
  the counters of the replica's own state (`CheckpointController.ts:519`) and so forgets
  tombstones other replicas have not received; a later `join()` with such a replica's
  state, or the add applied once more, brings the element back. `crdt/ORSet.ts:288` says
  to compact only dots that all replicas have observed. Patches that are new to the
  replica cannot bring it back (`CompactionIsInvisible`).
- A read of a trie's root that fails leaves the cursor looking empty
  (`#rootLoaded`); `TrieSession` ends the session there, as its callers do.
- `TrieCompactor` merges sibling leaves under the nibble of one of them, where the
  other's route does not lead; nothing calls it.

*Sync, audit, trust*
- A retry whose first request was admitted, or a second sync without progress of the
  clock, is refused as stale (403) and not retried; clients that share a key id share
  one last lamport. A requester that is merely ahead is told that it diverged.
- `SyncSettles` excepts a call that waits for ever where it has no timer: the body
  behind the headers of a 200 (`FetchSyncHttpClientAdapter.ts:93`), which the caller's
  signal still ends, and a peer object's promise (`SyncController.ts:370`), which it does
  not. A body that fails is a protocol error and not retried.
- `HonestChainVerifies` is about commits of which none was published before the hook of
  another had ended. From its publication a commit has its tick, and several awaits lie
  before the service's call: receipts can land in another order than their ticks even
  when the calls of the service do not overlap, and the verifier calls such a chain
  broken (`AuditChainVerifier.ts:411`).
- `GapsAreCounted` excepts a commit the service never heard of: when its hook fails
  with the hash of the state (`PatchController.ts:289`), or the answer of its publication
  is lost, it has no receipt and no counter moves.
- A service whose previous receipt is null can never start its chain again. Gaps are
  counted by the service and not seen by the verifier.
- An answer that is lost makes an administrator append its record again; the
  duplicate makes the whole chain invalid, and nobody is trusted (closed, and for
  good). `RevocationHolds` is about keys: a revoked binding can be bound again.
  An evaluation pinned to an old tip reads the old chain by design.

*Runtime and streams*
- `CloseTerminates` and `ReceiptSettles` except a consumer that calls `return()` while
  its `next()` is outstanding (`Abandoned`): the return is answered before there is an
  iterator to cancel (`Observation.ts:105`), the execution then starts, and its lease
  is never released.
- Two calls of `next()` at once on one branch of tee can be told of the end early; on a
  failure the items a slower branch has not read are dropped; tee, mux and demux do not
  pass `return()` upstream, and mux of three or more inputs takes them in map order.

*Strands*
- `PromotesOnBasis` needs `Others = FALSE`: the frontier that was compared is not part
  of the promoting commits (`RuntimeSettlement.ts:101`). `PromotedOnce` does not need
  it.
- A promotion that fails half way answers with an obstruction, and what it committed
  stays in the worldline (`DraftTimelineRuntime.ts:372`).
- A plan's proposal is what its own handle holds; what another handle wrote to the
  strand may be missing from it although the plan's source frontier covers it.
- `IntentsConserved` is about calls that neither overlap nor fail: a descriptor that
  was loaded before an intent was queued and written after it drops the intent
  (`GitCasStrandStoreAdapter.ts:74`), and a tick that fails between its commits and its
  descriptor write leaves its intents queued (`StrandIntentService.ts:143`).
- `DrainedInOrder` is about intents whose numbers are equally wide: ids are padded to
  four digits (`strandShared.ts:23`) and compared as strings, so the ten thousandth
  intent is considered before nearly all that were queued before it. `strands` passes
  that number and reaches the inversion.

## The proofs

TLAPS 1.4.5 with Z3, Zenon and LS4. The theorems hold for every value of the
constants that the named assumption of the module allows: bounds are natural
numbers, sessions belong to hosts and writers, kinds of calls are disjoint, edges
have ends, flags are Booleans, numbers of intents have at most five digits. A property that holds of some deployments only has
its condition as the theorem's hypothesis; the instances of the runs that check
the property satisfy it, but for the failing hooks of `host_serial`, which only TLC
covers:

- `OneAtATime` (`WarpHost`): each process makes one call at a time, no answer of Git
  is lost, no hook fails, nobody reads to a ceiling, a writer id is used by one process, and
  checkpoints are made only where there is a single process. "What the code does not
  keep" says what overlap, ceilings and checkpoints of several processes do.
- `MaterializedWrites` (`WarpHost`): besides, writes go through `createPatch()` on a
  clean cache. `dots_reused` is the counterexample without it.
- `Others = FALSE` (`Settlement`): no other process writes the worldline.

| Module | Theorem | States | Argument |
|---|---|---|---|
| `WarpHostProofs` | `Types` | `[]TypeOK` | `TypeOK` is inductive because it says that every reference is to an allocated object and that a builder past its construction has a vector |
| | `CommitsDurable`, `TicksIncrease` | `[]NoLostCommit`, `[]LamportsIncrease` | `ChainInv` adds to the two what a commit in flight knows (`InFlight`): its parent is in the chain, its tick is above the head as long as the head has not moved, and once published its patch follows its parent |
| | `HistoryImplemented` | `Spec => ImplementsHistory` | every step appends one patch with a higher tick, reports a commit at its position, or stutters |
| | `TicksCoverReads` | `Spec => LamportCoversReads` | `CoverInv`: the largest tick a host knows is at least every tick in the states on its heap, those a commit or a checkpoint in progress still holds included; some number bounds every tick and counter there is, so the maxima the code takes exist |
| | `CacheIsItsFrontier`, `OwnWritesStayVisible`, `FreshIsWhole`, `CheckpointsHoldTheirFrontier` | under `OneAtATime`, `[]` of `CacheMatchesFrontier`, `OwnWritesVisible`, `FreshIsComplete`, `CheckpointSound` | `SerialInv`: at most one call of a process is under way and what it has read of its own chains still stands; a clean cache, a reader's result and a checkpoint are the patches up to the frontier kept with them, and a commit under way knows what the cache lacks |
| | `DotsStayUnique` | under `MaterializedWrites`, `[]DotsUnique` | `DotsInv`: the adds of a patch lie above the counters of all patches before it in its chain and not above its own, because the vector it began with covers the cache and the cache has the whole chain |
| `RuntimeLifecycleProofs` | `LifecycleTypes` | `[]TypeOK` | |
| | `GateExcludes` | `[]MutationsExclusive` | `GateInv`: calls wait in order, `turns` has no repetition, and whoever runs has everyone before it resolved |
| | `StorageOutlivesUse` | `[]NoUseAfterRelease` | `UseInv`: every user holds its lease, and from the start of close() the tracked calls are among those it waits for |
| | `ReceiptsAreTrue` | `[]CompletedIsComplete` | `ReceiptInv`, on top of `UseInv`: only a stream that ended has left a receipt, it is not resumed, and a completed one counts every plan |
| `SettlementProofs` | `SettlementTypes` | `[]TypeOK` | |
| | `PromotionAtMostOnce` | `[]PromotedOnce` | `OnceInv`: once an intent has landed the target is beyond the strand's base, whoever holds the gate and has read the base's frontier knows that nothing has landed, and what a running promotion has left has not landed; so no second promotion passes the comparison |
| | `DerivedReceiptComplete` | `[]DerivedIsComplete` | `CompleteInv`: what is counted as joined has landed, and the handle of a plan that promotes holds its proposal |
| | `SettledFromItsSource` | `[]SourceSettled` | `SourceInv`: a capture reads the handle and the source of one moment (`OneMoment`), and a running promotion is of a plan that was confirmed against what its handle holds (`Confirmed`) |
| | `PromotedOnItsBasis` | for `Others = FALSE`, `Spec => PromotesOnBasis` | `FrontierHeld`: a settlement that holds the gate has read the target's frontier as it stays until the settlement itself commits |
| `StrandQueueProofs` | `StrandTypes` | `[]TypeOK` | `TypesInv`; `SortedQueue` and `AdmittedAreQueued` say what the sort and the fold over the queue return |
| | `ReturnedPatchesStay`, `TicksAreContiguous` | `[]ReturnedPatchStays`, `[]TickIsContiguous` | `OverlayInv`: the overlay only grows, and what a call has appended follows the head it loaded. Nothing is assumed here of what the classification returns |
| | `IntentsAreConserved`, `DrainedAsQueued` | `[]IntentsConserved`, `[]DrainedInOrder` | `OrderlyInv`: while calls have neither overlapped nor failed, the one in progress holds the current descriptor, the queue is sorted and disjoint from what was drained, and numbers in it were given out before `next`; among equally wide numbers the order of the ids, in which the queue is sorted, is that of the numbers, and sorting it again leaves it (`SortedAgain`) |
| `WarpStateProofs` | `StateTypes`, `DotsAreUnique`, `FrontiersCover` | `[]TypeOK`, `[]DotsUnique`, `[]SeenCoversDots` | `StateInv`: registers and frontiers are maxima over the patches of a replica, a writer has all its own patches, and a patch's context covers its dots |
| | `ReplicasConverge` | `[]StateIsMeaning` | `SetsAreMeaning`: of a whole replica the entries and tombstones are those of its patches, because applying a patch is joining the state of that patch alone (`ApplyIsJoin`), and joins of maxima and unions are maxima and unions |
| | `CompactionIsInvisible` | `[]ViewIsMeaning` | `CompactInv`: of a replica that is not mixed, live entries are kept, dead ones that are still there are marked, and a tombstone whose add has not arrived is kept |
| | `PagesReadAsSets` | `SessionSpec => []PagesAreTheSet` | `SessionInv`, below |
| `StreamStoreProofs` | `LeasesHold` | `[]BorrowedIsHeld` | `LeaseInv`: a lease's count is the number of its borrowers, a lease with a count is held, and the current lease is held and not retired |
| | `CloseLeavesNothing` | `[]NothingLeft` | `CloseInv`: who opens a lease has the turn, the turn of close() is the last, a held lease is the current one or among the retirements, and the workspaces are gone before |
| | `StreamTypes`, `EveryCopyOnce` | `[]StreamTypeOK`, `[]DeliveredOnce` | `StreamInv`: the cache of tee holds the items from its offset to where the source is, and both branches are within it (`TeeInv`); a pull of mux stands for where its branch is (`MuxInv`); what demux has delivered and buffered is, of each branch, every item up to the one mux holds, in order (`DemuxInv`) |
| `RecordsProofs` | `AuditTypes` | `[]AuditTypeOK` | |
| | `ReceiptsChained`, `HonestChains` | `[]OneReceiptEach`, `[]HonestChainVerifies` | every receipt is on top of the one before (`Linked`), the previous receipt and the expected head of a service and of a call are one (`OneTip`), a call has at most one receipt and has ended by then (`Recorded`), and as long as no commit was published while another was under way, ticks rise with the receipts and the one under way has the last tick (`InTurn`) |
| | `GapsCounted` | `[]GapsAreCounted` | `CountedFor`: the counters of a process add up to the commits whose hook ran to its end, and all but that of the published cover the ones without a receipt |
| | `RevocationsHold` | `[]RevocationHolds` | `TrustLinked`: the chain of the ref is the whole ledger; by induction over its records the fold never drops a key from the revoked ones and never trusts a writer through one |
| `SyncProofs` | `DeliveredAgainProcessedOnce` | `[]ProcessedOnce` | `AuthInv`: a request that is handled or was processed in this life of the server was seen, its nonce is spent once it executes, and no two handlers have the same one |
| | `PagesLeaveNoHole` | `[]PagesCover` | `PagesInv`: what was due when the server was first asked has come or lies past the cursor; as chains grow the place of a missing patch only moves back, so a cursor never steps over it |
| | `KeptFrontierIsHeld`, `SubscribersHaveTheState` | `[]FrontierIsHeld`, `[]SubscribersFollow` | `InstallsInv`: while calls do not overlap (`OneCall`), a subscriber has the state last notified or the cached one, which differ only until an install is told (`Told`), and what a read or a response brings holds the tips it came with (`HoldsRefs`) |

`NoLostCommit`, `PromotedOnce` and the others are not inductive as they stand: a step
that publishes is only safe because of what the session read earlier, and that
knowledge is what the invariants in the last column add. Properties that speak of
calls that do not overlap (`IntentsConserved`, `HonestChainVerifies`,
`FrontierIsHeld`, ...) say so themselves, with a variable of history; their theorems
need no hypothesis.

`PagesReadAsSets` is about pages, found by descending from the root, and a set, which
knows nothing of pages. `SessionInv` says of each trie of a session, and of each root
that was retained:
- its working pages hang from the root: the page above a page is a working branch
  (`Hangs`), so a descent meets them before it meets the store;
- what is above a dirty page is dirty (`DirtyAbove`), and a clean page is as it was
  loaded (`CleanAsLoaded`): a flush may keep the handle of a clean page and all below it,
  and a pending mark stands only where a dirty page replaces it;
- the tree under the root, each working page standing for the handle it was loaded from,
  has no pending page, no leaf off the routes of the ids in it and no branch below the
  last nibble (`SoundTree`);
- the leaves along the route of an id hold its dots and tombstones as the set has them
  (`HoldsOf`).

A load adds a clean page. A change descends to one place, where it makes a leaf, changes
one or splits one down to the first nibble in which the routes differ; the descent is
an induction over the nibbles that are left, with the assumption that routes differ as
what makes a split end. A flush that succeeds writes a root whose tree is the same; one
that fails changes nothing. TLC checked `SessionInv` on the instance of `state` before
it was proved.

Induction over data is used where a property needs it: over the members of a set or
the places of a ledger, with the least counterexample that `WellFoundedInduction` gives
(`SetInduction`). What the library computes inside TLC
(`SortSeq`, `SelectSeq`, `FlattenSeq`) the provers cannot look into, so `Sorted` of
`StrandQueue` and `Delta` of `SyncExchange` are defined by the order of their members.

**Only model-checked**: the liveness properties (`CloseTerminates`,
`EveryPullAnswered`, `ReceiptSettles`, `SettlementAnswers`, `StaleIsReported`,
`StoreCloses`, `SyncSettles`), which need fairness and `ENABLED`; and what `host_serial`
shows of hosts whose hooks fail.

## Plan

The system's stateful parts are modelled: the history (`WarpHost`, `PatchHistory`), its
meaning (`WarpState`, `TrieSession`, `SessionReplay`), its exchange and installation
(`SyncExchange`, `HostInstalls`), the promotion of drafts and the drafts (`Settlement`,
`StrandQueue`), the ledgers (`AuditChain`, `TrustChain`), and what surrounds them
(`RuntimeLifecycle`, `WarpStream`, `MaterializationStore`). Every safety property of a
passing run has its theorem.

What is left, the most useful first: weaker hypotheses for `SerialInv`, in particular several processes
with checkpoints; and the types of `SyncExchange`, `HostInstalls` and `TrustChain` as
theorems of their own.
