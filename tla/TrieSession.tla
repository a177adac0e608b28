---------------------------- MODULE TrieSession ----------------------------
(***************************************************************************)
(* The page-backed OR-sets of a materialization:                           *)
(* src/src/domain/orset/session/StateSession.ts over two tries, one of     *)
(* nodes and one of edges, each a TrieCursor of working pages, a           *)
(* TrieFlusher and a store of immutable pages.                             *)
(*                                                                         *)
(* A session reads pages on demand, keeps what it changed, and writes it   *)
(* when too many pages are dirty, and when it closes; then it forgets its  *)
(* pages and begins again from the new root.  A write, or the witness that *)
(* the workspace keeps the roots, may fail; the session keeps its pages    *)
(* and tries again at its next change.  A read that fails ends the         *)
(* session: its callers abort it.                                          *)
(*                                                                         *)
(* A handle of the store is the page it names: the store is addressed by   *)
(* content and changes nothing.  Sessions here have a workspace, as the    *)
(* runtime opens them, and so never compact.                               *)
(***************************************************************************)
EXTENDS Naturals, Sequences, SequencesExt, FiniteSets

CONSTANTS
    Held,       \* the ids of each trie
    PageDots,   \* the dots under which each id is added
    Route,      \* the nibbles of the route key of each id
    Depth,      \* nibbles in a route key
    Capacity,   \* leafCapacity: entries of a leaf that need no split
    MaxDirty,   \* maxDirtyPages
    MaxChanges  \* bound: adds and removes in all sessions

Kinds == {"node", "edge"}
PagedIds == UNION {Held[k] : k \in Kinds}

ASSUME TrieSessionAssumption ==
    /\ Depth \in Nat \ {0} /\ Route \in [PagedIds -> Seq(Nat)]
    /\ \A x, y \in PagedIds : Len(Route[x]) = Depth /\ (Route[x] = Route[y] => x = y)
    /\ Held["node"] \cap Held["edge"] = {}
    /\ Capacity \in Nat \ {0} /\ MaxDirty \in Nat \ {0} /\ MaxChanges \in Nat

VARIABLES
    cursor,     \* of each trie: its root, its working pages, which are dirty, and the
                \* handles of those that were loaded
    pending,    \* #workspaceCheckpointPending
    phase,      \* open, prepared (closing, the roots not yet kept) or closed
    retained,   \* the roots of the last session that closed
    elements,   \* what the session was told: the dots of each id, live and removed
    kept,       \* elements, when retained was written
    changes     \* adds and removes so far

sessionVars == <<cursor, pending, phase, retained, elements, kept, changes>>

NoEntry == [dots |-> {}, tombstoned |-> {}]
NoPage == [kind |-> "none"]
Pending == [kind |-> "pending"]
Leaf(entries) == [kind |-> "leaf", entries |-> entries]
Branch(children) == [kind |-> "branch", children |-> children]

Paths == UNION {{SubSeq(Route[x], 1, d) : d \in 0..Depth} : x \in PagedIds}
Along(x) == {p \in Paths : IsPrefix(p, Route[x])}

\* A map with the entries of f over those of g, and one with a single entry.
Over(f, g) == [i \in DOMAIN f \cup DOMAIN g |-> IF i \in DOMAIN f THEN f[i] ELSE g[i]]
Single(i, v) == [j \in {i} |-> v]

\* A cursor as it is made, or after rebase.
CursorOn(root) == [root |-> root, loaded |-> FALSE, page |-> << >>, dirty |-> {}, clean |-> << >>]

SessionInit ==
    /\ cursor = [k \in Kinds |-> CursorOn(NoPage)]
    /\ pending = FALSE
    /\ phase = "closed"
    /\ retained = [k \in Kinds |-> NoPage]
    /\ elements = [x \in PagedIds |-> NoEntry]
    /\ kept = elements
    /\ changes = 0

-----------------------------------------------------------------------------
(* Reading. *)

\* The page at each path: the working copy, or what the store has under the handle in its
\* parent; a handle that is pending names nothing there.
PagesOf(c) ==
    LET at[p \in Paths] ==
          IF p \in DOMAIN c.page /\ p = << >> THEN c.page[p]
          ELSE IF p = << >> THEN (IF c.loaded THEN NoPage ELSE c.root)
          ELSE LET parent == at[Front(p)] IN
               IF parent.kind # "branch" \/ ~(Last(p) \in DOMAIN parent.children) THEN NoPage
               ELSE IF p \in DOMAIN c.page THEN c.page[p] ELSE parent.children[Last(p)]
    IN  [p \in Paths |-> at[p]]

\* The leaves that hold an id, among the pages at the paths, and what a lookup along its
\* route finds.
Holders(at, x) == {p \in Paths : at[p].kind = "leaf" /\ x \in DOMAIN at[p].entries}

LookupEntry(at, x) ==
    LET found == {p \in Holders(at, x) : IsPrefix(p, Route[x])} IN
    IF found = {} THEN NoEntry ELSE at[CHOOSE p \in found : TRUE].entries[x]

\* ensureChildLoaded for the pages of a walk.
Load(c, walk) ==
    LET at == PagesOf(c)
        new == {p \in walk \ DOMAIN c.page : at[p].kind \in {"leaf", "branch"}} IN
    [c EXCEPT !.loaded = TRUE,
              !.page = Over(@, [p \in new |-> at[p]]),
              !.clean = Over(@, [p \in new \ {<< >>} |-> at[p]])]

-----------------------------------------------------------------------------
(* Changing pages. *)

\* Put pages at and below a path; every branch above it names its child as pending.
Mark(c, path, pages) ==
    LET above == {p \in Paths : IsStrictPrefix(p, path)}
        children(p) == IF p \in DOMAIN c.page THEN c.page[p].children ELSE << >>
        rebound(p) == Branch(Over(Single(path[Len(p) + 1], Pending), children(p))) IN
    [c EXCEPT !.page = Over([p \in above |-> rebound(p)], Over(pages, @)),
              !.dirty = @ \cup above \cup DOMAIN pages]

\* A leaf with these entries; while a leaf is too full, a branch of a leaf per next nibble.
Split(entries, path) ==
    LET under(p) == {x \in DOMAIN entries : IsPrefix(p, Route[x])}
        full(p) == Cardinality(under(p)) > Capacity /\ Len(p) < Depth
        made == {p \in Paths : /\ IsPrefix(path, p) /\ under(p) # {}
                               /\ \A q \in Paths : IsPrefix(path, q) /\ IsStrictPrefix(q, p) => full(q)} IN
    [p \in made |->
        IF full(p) THEN Branch([n \in {Route[x][Len(p) + 1] : x \in under(p)} |-> Pending])
                   ELSE Leaf([x \in under(p) |-> entries[x]])]

\* upsertIntoLeaf, and tombstoneEntry, on the entry of one id.
Upserted(entry, dot) == IF dot \in entry.tombstoned THEN entry ELSE [entry EXCEPT !.dots = @ \cup {dot}]
Tombstoned(entry, observed) ==
    [dots |-> entry.dots \ observed, tombstoned |-> entry.tombstoned \cup (entry.dots \cap observed)]

\* TrieCursor.add: into the leaf at the end of the route, or into a new one.
CursorAdd(c, x, dot) ==
    LET l == Load(c, Along(x))
        at == PagesOf(l)
        path == CHOOSE p \in Along(x) :
                    /\ p # << >> /\ at[p].kind # "branch"
                    /\ \A q \in Along(x) : q # << >> /\ Len(q) < Len(p) => at[q].kind = "branch"
        entries == IF at[path].kind = "leaf" THEN at[path].entries ELSE << >> IN
    Mark(l, path, Split(Over(Single(x, Upserted(LookupEntry(at, x), dot)), entries), path))

\* TrieCursor.removeElement: only dots that the entry holds are tombstoned.
CursorRemove(c, x, observed) ==
    LET l == Load(c, Along(x))
        at == PagesOf(l) IN
    IF LookupEntry(at, x).dots \cap observed = {} THEN l
    ELSE LET path == CHOOSE p \in Holders(at, x) \cap Along(x) : TRUE IN
         Mark(l, path, Single(path, Leaf([l.page[path].entries EXCEPT ![x] = Tombstoned(@, observed)])))

-----------------------------------------------------------------------------
(* Writing pages. *)

WrittenAsLoaded(c) ==   \* a mutant of the next
    LET written[p \in Paths] ==
          IF c.page[p].kind = "leaf" THEN c.page[p]
          ELSE Branch([n \in DOMAIN c.page[p].children |->
                 LET child == Append(p, n) IN
                 IF child \in DOMAIN c.clean THEN c.clean[child]
                 ELSE IF child \in c.dirty THEN written[child] ELSE c.page[p].children[n]])
    IN  [p \in c.dirty |-> written[p]]

\* resolveChildOid: a child written by this flush, else a child that was loaded, else the
\* handle the branch has.
Written(c) ==
    LET written[p \in Paths] ==
          IF c.page[p].kind = "leaf" THEN c.page[p]
          ELSE Branch([n \in DOMAIN c.page[p].children |->
                 LET child == Append(p, n) IN
                 IF child \in c.dirty THEN written[child]
                 ELSE IF child \in DOMAIN c.clean THEN c.clean[child] ELSE c.page[p].children[n]])
    IN  [p \in c.dirty |-> written[p]]

\* E_TRIE_FLUSH_UNRESOLVED is not raised.
Resolvable(c) ==
    \A p \in c.dirty : c.page[p].kind = "branch" =>
        \A n \in DOMAIN c.page[p].children :
            \/ Append(p, n) \in c.dirty \cup DOMAIN c.clean
            \/ c.page[p].children[n] # Pending

\* TrieFlusher.flush: the root, which is null when pages were written but no root.
FlushRoot(c) ==
    IF c.dirty = {} THEN c.root
    ELSE IF << >> \in c.dirty THEN Written(c)[<< >>] ELSE NoPage

Roots(cs) == [k \in Kinds |-> FlushRoot(cs[k])]
DirtyPageCount(cs) == Cardinality(cs["node"].dirty) + Cardinality(cs["edge"].dirty)

\* prepareFlush: the nodes first; what was written wants a checkpoint, also when the
\* edges then fail.
NodesFail(cs) == cs["node"].dirty # {} /\ pending' = pending
EdgesFail(cs) == cs["edge"].dirty # {} /\ pending' = (pending \/ cs["node"].dirty # {})
Flushed(cs) ==
    /\ \A k \in Kinds : Resolvable(cs[k])
    /\ pending' = (pending \/ DirtyPageCount(cs) > 0)

\* flushAndRetain: flush, have the roots witnessed where anything was written, and accept.
FlushFails(cs) ==
    /\ cursor' = cs
    /\ NodesFail(cs) \/ EdgesFail(cs) \/ (Flushed(cs) /\ pending')

FlushAndRetain(cs) ==
    /\ \A k \in Kinds : Resolvable(cs[k])
    /\ cursor' = [k \in Kinds |-> CursorOn(FlushRoot(cs[k]))]
    /\ pending' = FALSE

-----------------------------------------------------------------------------
(* The session. *)

Open ==
    /\ phase = "closed" /\ phase' = "open"
    /\ UNCHANGED <<cursor, pending, retained, elements, kept, changes>>

\* A change of one trie, then checkpointIfNeeded.
Changed(k, c) ==
    LET cs == [cursor EXCEPT ![k] = c] IN
    IF ~pending /\ DirtyPageCount(cs) < MaxDirty THEN cursor' = cs /\ UNCHANGED pending
    ELSE FlushAndRetain(cs) \/ FlushFails(cs)

\* addNode, addEdge.
AddElement(k, x, dot) ==
    /\ phase = "open" /\ changes < MaxChanges /\ changes' = changes + 1
    /\ Changed(k, CursorAdd(cursor[k], x, dot))
    /\ elements' = [elements EXCEPT ![x] = Upserted(@, dot)]
    /\ UNCHANGED <<phase, retained, kept>>

\* removeNode, removeEdge.
RemoveElement(k, x, observed) ==
    /\ phase = "open" /\ changes < MaxChanges /\ changes' = changes + 1
    /\ Changed(k, CursorRemove(cursor[k], x, observed))
    /\ elements' = [elements EXCEPT ![x] = Tombstoned(@, observed)]
    /\ UNCHANGED <<phase, retained, kept>>

\* nodeDots and the like, and the scans, which load what they walk.
ReadElement(k, x) ==
    /\ phase = "open"
    /\ cursor' = [cursor EXCEPT ![k] = Load(@, Along(x))]
    /\ UNCHANGED <<pending, phase, retained, elements, kept, changes>>

ScanElements(k) ==
    /\ phase = "open"
    /\ cursor' = [cursor EXCEPT ![k] = Load(@, Paths)]
    /\ UNCHANGED <<pending, phase, retained, elements, kept, changes>>

\* The session ends with roots that its caller keeps.
Keep(roots) ==
    /\ phase' = "closed" /\ pending' = FALSE
    /\ cursor' = [k \in Kinds |-> CursorOn(roots[k])]
    /\ retained' = roots /\ kept' = elements

Close ==
    /\ phase = "open" /\ UNCHANGED <<elements, changes>>
    /\ \/ (\A k \in Kinds : Resolvable(cursor[k])) /\ Keep(Roots(cursor))
       \/ FlushFails(cursor) /\ UNCHANGED <<phase, retained, kept>>

\* prepareClose, and accept once the promotion has witnessed the roots.
PrepareClose ==
    /\ phase = "open"
    /\ \/ Flushed(cursor) /\ phase' = "prepared"
       \/ (NodesFail(cursor) \/ EdgesFail(cursor)) /\ UNCHANGED phase
    /\ UNCHANGED <<cursor, retained, elements, kept, changes>>

Accept == phase = "prepared" /\ Keep(Roots(cursor)) /\ UNCHANGED <<elements, changes>>

\* abort, after a failure of the session or of the promotion: the next session begins
\* from the roots before it.
Abort ==
    /\ phase # "closed" /\ phase' = "closed" /\ pending' = FALSE
    /\ cursor' = [k \in Kinds |-> CursorOn(retained[k])]
    /\ elements' = kept
    /\ UNCHANGED <<retained, kept, changes>>

SessionNext ==
    \/ Open \/ Close \/ PrepareClose \/ Accept \/ Abort
    \/ \E k \in Kinds :
          \/ ScanElements(k)
          \/ \E x \in Held[k] :
                \/ ReadElement(k, x)
                \/ \E dot \in PageDots[x] : AddElement(k, x, dot)
                \/ \E observed \in SUBSET PageDots[x] \ {{}} : RemoveElement(k, x, observed)

SessionSpec == SessionInit /\ [][SessionNext]_sessionVars

-----------------------------------------------------------------------------
ReadsAs(c, k, set) ==
    LET at == PagesOf(c) IN
    \A x \in Held[k] :
        /\ LookupEntry(at, x) = set[x]
        /\ Cardinality(Holders(at, x)) = IF set[x] = NoEntry THEN 0 ELSE 1

(* The pages are the set, whatever was loaded, split, flushed, failed to   *)
(* flush or was opened again: a lookup along the route finds what the      *)
(* session was told of an id and a scan meets it once, in the working      *)
(* pages and in the pages a flush would write now, which never has a       *)
(* handle that is still pending; and the roots of the last session that    *)
(* closed read as that session ended (TrieCursor, TrieFlusher).            *)
PagesAreTheSet ==
    \A k \in Kinds :
        /\ ReadsAs(cursor[k], k, elements)
        /\ Resolvable(cursor[k]) /\ ReadsAs(CursorOn(FlushRoot(cursor[k])), k, elements)
        /\ ReadsAs(CursorOn(retained[k]), k, kept)
=============================================================================
