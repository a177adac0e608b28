---------------------------- MODULE SyncExchange ----------------------------
(***************************************************************************)
(* How a host gets patches from a peer: SyncController.syncWith with its   *)
(* retries, timeout and abort signal, over HTTP or on a peer object; the   *)
(* server behind it (HttpSyncServer, SyncAuthService, processSyncRequest); *)
(* and a requester that follows the pages of a bounded response.           *)
(*                                                                         *)
(* The network may delay a request past its timeout and deliver it again;  *)
(* the server may restart.  What the client does with the patches to its   *)
(* cache is HostInstalls' subject.  A patch is <<writer, place in chain>>. *)
(* The client has one key; signatures are taken to be right, and the rate  *)
(* limiter refuses as it likes.                                            *)
(***************************************************************************)
EXTENDS Naturals, Sequences, SequencesExt, FiniteSets

CONSTANTS
    SyncWriters,    \* writers the server has, numbered in the order of their ids
    Syncs,          \* calls of syncWith
    SyncRetries,    \* its option "retries"
    PageSize,       \* maxPatches of the paging requester
    MaxServed,      \* bound: patches in a chain of the server
    MaxClock,       \* bound: the client's lamport
    MaxArrivals,    \* bound: how often the network delivers a request
    MaxLives        \* bound: incarnations of the server

ASSUME SyncAssumption ==
    /\ SyncWriters \subseteq Nat /\ IsFiniteSet(SyncWriters)
    /\ SyncRetries \in Nat /\ PageSize \in Nat \ {0}
    /\ MaxServed \in Nat /\ MaxClock \in Nat /\ MaxArrivals \in Nat /\ MaxLives \in Nat

VARIABLES
    served,     \* served[w]: how long the server's chain of writer w is
    local,      \* local[w]: the client's tip of w, as a place in the chain; 0 when none
    forked,     \* writers whose tip at the client is not in the server's chain
    clock,      \* the client's _maxObservedLamport
    sync,       \* the calls of syncWith
    request,    \* every request sent over HTTP, and how often it arrived
    handler,    \* what the server is doing about each arrival
    secured,    \* is the server configured with auth?
    lastSeen,   \* its _lastSeenLamport; -1 is written 0, and lamports count from 1
    reserved,   \* the durable reservations of nonces
    expired,    \* nonces whose reservation has run out
    life,       \* incarnation of the server
    executed,   \* the requests that were processed, with the incarnation (history)
    pager       \* the paging requester

exchangeVars == <<served, local, forked, clock, sync, request, handler, secured, lastSeen,
                  reserved, expired, life, executed, pager>>
server == <<served, secured, lastSeen, reserved, expired, life, executed, handler>>

Ended == {"done", "failed", "aborted"}
NotStarted == [pc |-> "idle", over |-> "http", attempt |-> 0, signal |-> FALSE, got |-> <<>>]
NoPager == [pc |-> "idle", cursor |-> 0, got |-> {}, due |-> {}]

ExchangeInit ==
    /\ served = [w \in SyncWriters |-> 1]
    /\ local \in [SyncWriters -> 0..1]
    /\ forked \in SUBSET {w \in SyncWriters : local[w] > 0}
    /\ clock = 1
    /\ sync = [c \in Syncs |-> NotStarted]
    /\ request = <<>>
    /\ handler = {}
    /\ secured \in BOOLEAN
    /\ lastSeen = 0
    /\ reserved = {} /\ expired = {}
    /\ life = 1
    /\ executed = <<>>
    /\ pager = NoPager

-----------------------------------------------------------------------------
(* What a server answers *)

\* computeSyncDelta, and the ancestry check of processSyncRequest: a writer whose tip
\* at the requester is not an ancestor of the server's is skipped as divergent, and so
\* is one the requester has more of.
Needs(w, tip) == tip < served[w] /\ (tip > 0 => w \notin forked)

\* loadPatchRange for every writer of the delta: what lies between the two tips.
Missing(tips) ==
    UNION {{<<w, i>> : i \in (tips[w] + 1)..served[w]} :
              w \in {v \in SyncWriters : Needs(v, tips[v])}}

\* The order of an answer: by the id of the writer, and along its chain.
Earlier(x, y) == x[1] < y[1] \/ (x[1] = y[1] /\ x[2] < y[2])

\* How many patches of S the answer has up to x, when it has them in that order.
Place(S, x) == Cardinality({y \in S : ~Earlier(x, y)})

\* The ranges of the writers in the order of their ids, one after the other.
Delta(tips) ==
    [n \in 1..Cardinality(Missing(tips)) |->
        CHOOSE x \in Missing(tips) : Place(Missing(tips), x) = n]

\* mutant: the cursor names the last patch of the page, not the first of the next
PageSkipping(delta, cursor) ==
    [patches |-> SubSeq(delta, cursor + 1,
                        IF cursor + PageSize < Len(delta) THEN cursor + PageSize ELSE Len(delta)),
     hasMore |-> Len(delta) > cursor + PageSize,
     cursor |-> cursor + PageSize + 1]

\* appendPatchForPage over the delta: the cursor is the number of patches seen.
Page(delta, cursor) ==
    [patches |-> SubSeq(delta, cursor + 1,
                        IF cursor + PageSize < Len(delta) THEN cursor + PageSize ELSE Len(delta)),
     hasMore |-> Len(delta) > cursor + PageSize,
     cursor |-> cursor + PageSize]

-----------------------------------------------------------------------------
(* syncWith *)

\* shouldRetry, and the operation policy that counts the attempts.
RetryOr(c) ==
    [sync[c] EXCEPT !.pc = IF sync[c].attempt <= SyncRetries THEN "backoff" ELSE "failed"]

\* The caller asks for a sync, over HTTP or with a peer.
SyncWith(c, over) ==
    /\ sync[c].pc = "idle"
    /\ sync' = [sync EXCEPT ![c] = [NotStarted EXCEPT !.pc = "backoff", !.over = over]]
    /\ UNCHANGED <<local, forked, clock, request, pager, server>>

\* An attempt begins: the signal is looked at, the frontier is read, and the request is
\* signed with the host's highest lamport and sent.
Attempt(c) ==
    /\ sync[c].pc = "backoff"
    /\ IF sync[c].signal
       THEN sync' = [sync EXCEPT ![c].pc = "aborted"] /\ UNCHANGED request
       ELSE /\ sync' = [sync EXCEPT ![c].pc = "waiting", ![c].attempt = @ + 1]
            /\ request' = IF sync[c].over = "peer" THEN request
                          ELSE Append(request, [by |-> c, attempt |-> sync[c].attempt + 1,
                                                lamport |-> clock, tips |-> local,
                                                arrivals |-> 0])
    /\ UNCHANGED <<local, forked, clock, pager, server>>

\* mutant: only the first attempt has a timer
FirstTimeout(c) ==
    /\ sync[c].pc = "waiting" /\ sync[c].over = "http" /\ sync[c].attempt = 1
    /\ sync' = [sync EXCEPT ![c] = RetryOr(c)]
    /\ UNCHANGED <<local, forked, clock, request, pager, server>>

\* No headers have come after timeoutMs, and the fetch is given up; the request may be
\* anywhere by then.  A network failure looks the same from here.  The timer stops when
\* the headers come (_sendRequest).
Timeout(c) ==
    /\ sync[c].pc = "waiting" /\ sync[c].over = "http"
    /\ sync' = [sync EXCEPT ![c] = RetryOr(c)]
    /\ UNCHANGED <<local, forked, clock, request, pager, server>>

\* The caller's signal fires: a fetch ends at once, a body that is being read counts as
\* one that is not JSON, a backoff sees the signal when the next attempt begins; the
\* processing of a peer and of an answer does not look.
AbortSync(c) ==
    /\ sync[c].pc \in {"backoff", "waiting", "body", "answered"} /\ ~sync[c].signal
    /\ sync' = [sync EXCEPT ![c].signal = TRUE,
                            ![c].pc = CASE @ = "waiting" /\ sync[c].over = "http" -> "aborted"
                                        [] @ = "body" -> "failed"
                                        [] OTHER -> @]
    /\ UNCHANGED <<local, forked, clock, request, pager, server>>

\* The peer object answers, or throws; an exception of a peer is never retried.
PeerAnswers(c) ==
    /\ sync[c].pc = "waiting" /\ sync[c].over = "peer"
    /\ \/ sync' = [sync EXCEPT ![c].pc = "answered", ![c].got = Delta(local)]
       \/ sync' = [sync EXCEPT ![c].pc = "failed"]
    /\ UNCHANGED <<local, forked, clock, request, pager, server>>

\* The body that follows the headers of a 200 comes in and is JSON, or the read fails,
\* which is never retried.  No timer runs over it (_interpretResponse).
BodyRead(c) ==
    /\ sync[c].pc = "body"
    /\ \/ sync' = [sync EXCEPT ![c].pc = "answered"]
       \/ sync' = [sync EXCEPT ![c].pc = "failed"]
    /\ UNCHANGED <<local, forked, clock, request, pager, server>>

\* The answer is well formed and its writers pass the gate, or not.
Apply(c) ==
    /\ sync[c].pc = "answered"
    /\ \/ sync' = [sync EXCEPT ![c].pc = "done"]
       \/ sync' = [sync EXCEPT ![c].pc = "failed"]
    /\ UNCHANGED <<local, forked, clock, request, pager, server>>

\* The client commits a patch of its own or materializes: its clock goes on.
ClientWrites ==
    /\ clock < MaxClock
    /\ clock' = clock + 1
    /\ UNCHANGED <<local, forked, sync, request, pager, server>>

-----------------------------------------------------------------------------
(* The server *)

\* What the caller makes of a status: the body of a 200 is read, 5xx is retried, 4xx is
\* not.  An answer to an exchange that was given up is nobody's.
Answered(n, status, patches) ==
    LET c == request[n].by
        awaited == sync[c].pc = "waiting" /\ sync[c].attempt = request[n].attempt
    IN  sync' = [sync EXCEPT ![c] =
            CASE ~awaited -> @
              [] awaited /\ status = 200 -> [@ EXCEPT !.pc = "body", !.got = patches]
              [] awaited /\ status \in 400..499 -> [@ EXCEPT !.pc = "failed"]
              [] awaited /\ status >= 500 -> RetryOr(c)]

Refuse(n, status) == Answered(n, status, <<>>)

\* _validateFreshness
IsFresh(lamport) == lamport > lastSeen

\* A request arrives, and its signature is right: the lamport must be new to this
\* incarnation of the server, and is remembered before the nonce is looked at.
Arrive(n) ==
    /\ request[n].arrivals < MaxArrivals
    /\ request' = [request EXCEPT ![n].arrivals = @ + 1]
    /\ LET begin(pc) == handler' = handler \cup {[request |-> n, arrival |-> request[n].arrivals,
                                                  pc |-> pc]}
       IN  \/ /\ ~secured
              /\ begin("execute")
              /\ UNCHANGED <<sync, lastSeen>>
           \/ /\ secured /\ IsFresh(request[n].lamport)
              /\ lastSeen' = request[n].lamport
              /\ begin("reserve")
              /\ UNCHANGED sync
           \/ /\ secured /\ ~IsFresh(request[n].lamport)
              /\ Refuse(n, 403)
              /\ UNCHANGED <<handler, lastSeen>>
    /\ UNCHANGED <<served, local, forked, clock, secured, reserved, expired, life, executed,
                   pager>>

\* mutant: whether the nonce was there already is not looked at
ReserveBlindly(h) ==
    /\ h.pc = "reserve"
    /\ reserved' = reserved \cup {h.request}
    /\ handler' = (handler \ {h}) \cup {[h EXCEPT !.pc = "execute"]}
    /\ UNCHANGED <<served, local, forked, clock, sync, request, secured, lastSeen, expired,
                   life, executed, pager>>

\* _reserveNonce and then the rate limiter.  The store of reservations may be down.
Reserve(h) ==
    /\ h.pc = "reserve"
    /\ \/ /\ h.request \notin reserved
          /\ reserved' = reserved \cup {h.request}
          /\ handler' = (handler \ {h}) \cup {[h EXCEPT !.pc = "execute"]}
          /\ UNCHANGED sync
       \/ /\ h.request \notin reserved
          /\ reserved' = reserved \cup {h.request}
          /\ handler' = handler \ {h}
          /\ Refuse(h.request, 429)
       \/ /\ h.request \in reserved
          /\ handler' = handler \ {h}
          /\ Refuse(h.request, 403)
          /\ UNCHANGED reserved
       \/ /\ handler' = handler \ {h}
          /\ Refuse(h.request, 503)
          /\ UNCHANGED reserved
    /\ UNCHANGED <<served, local, forked, clock, request, secured, lastSeen, expired, life,
                   executed, pager>>

\* _executeSyncRequest: the patches the requester lacks, or 500.
Execute(h) ==
    /\ h.pc = "execute"
    /\ handler' = handler \ {h}
    /\ executed' = Append(executed, [request |-> h.request, life |-> life])
    /\ \/ Answered(h.request, 200, Delta(request[h.request].tips))
       \/ Refuse(h.request, 500)
    /\ UNCHANGED <<served, local, forked, clock, request, secured, lastSeen, reserved, expired,
                   life, pager>>

\* Somebody commits at the server.
ServerCommits(w) ==
    /\ served[w] < MaxServed
    /\ served' = [served EXCEPT ![w] = @ + 1]
    /\ UNCHANGED <<local, forked, clock, sync, request, handler, secured, lastSeen, reserved,
                   expired, life, executed, pager>>

\* The server's process ends and another begins: the reservations stay, the lamports
\* and whatever was being handled do not.
RestartServer ==
    /\ life < MaxLives
    /\ life' = life + 1
    /\ lastSeen' = 0
    /\ handler' = {}
    /\ UNCHANGED <<served, local, forked, clock, sync, request, secured, reserved, expired,
                   executed, pager>>

\* The ttl of a reservation passes.
Expire(n) ==
    /\ n \in reserved
    /\ reserved' = reserved \ {n}
    /\ expired' = expired \cup {n}
    /\ UNCHANGED <<served, local, forked, clock, sync, request, handler, secured, lastSeen,
                   life, executed, pager>>

-----------------------------------------------------------------------------
(* A requester that asks for pages, always from the frontier it began with *)

NextPage ==
    /\ pager.pc # "done"
    /\ LET page == Page(Delta(local), pager.cursor)
       IN  pager' = [pc |-> IF page.hasMore THEN "more" ELSE "done",
                     cursor |-> IF page.hasMore THEN page.cursor ELSE 0,
                     got |-> pager.got \cup ToSet(page.patches),
                     due |-> IF pager.pc = "idle" THEN Missing(local) ELSE pager.due]
    /\ UNCHANGED <<local, forked, clock, sync, request, server>>

-----------------------------------------------------------------------------
ClientStep(c) == Attempt(c) \/ Timeout(c) \/ Apply(c)
OtherSideAnswers(c) == PeerAnswers(c) \/ BodyRead(c)

ExchangeNext ==
    \/ \E c \in Syncs : SyncWith(c, "http") \/ SyncWith(c, "peer") \/ AbortSync(c)
    \/ \E c \in Syncs : ClientStep(c) \/ OtherSideAnswers(c)
    \/ \E n \in DOMAIN request : Arrive(n) \/ Expire(n)
    \/ \E h \in handler : Reserve(h) \/ Execute(h)
    \/ \E w \in SyncWriters : ServerCommits(w)
    \/ ClientWrites \/ RestartServer \/ NextPage

\* The client's own promises settle and its timers fire.  Nothing is assumed of the
\* network, of the HTTP server or of a peer object.
ExchangeFairness == \A c \in Syncs : WF_exchangeVars(ClientStep(c))

ExchangeSpec == ExchangeInit /\ [][ExchangeNext]_exchangeVars
FairExchangeSpec == ExchangeSpec /\ ExchangeFairness

-----------------------------------------------------------------------------
(* Properties *)

Patch == SyncWriters \X (1..MaxServed)
SyncStates == {"idle", "backoff", "waiting", "body", "answered"} \cup Ended

ExchangeTypeOK ==
    /\ served \in [SyncWriters -> Nat] /\ local \in [SyncWriters -> Nat]
    /\ forked \subseteq SyncWriters
    /\ clock \in Nat /\ lastSeen \in Nat /\ life \in Nat
    /\ sync \in [Syncs -> [pc : SyncStates, over : {"http", "peer"}, attempt : Nat,
                           signal : BOOLEAN, got : Seq(Patch)]]
    /\ request \in Seq([by : Syncs, attempt : Nat, lamport : Nat, tips : [SyncWriters -> Nat],
                        arrivals : Nat])
    /\ handler \subseteq [request : DOMAIN request, arrival : Nat, pc : {"reserve", "execute"}]
    /\ secured \in BOOLEAN
    /\ reserved \subseteq DOMAIN request /\ expired \subseteq DOMAIN request
    /\ executed \in Seq([request : DOMAIN request, life : Nat])
    /\ pager \in [pc : {"idle", "more", "done"}, cursor : Nat, got : SUBSET Patch,
                  due : SUBSET Patch]

\* A request that is delivered again, at once or after it was given up, is processed
\* once: the lamport sees to it within the life of a server, the reservation of the
\* nonce across a restart, for as long as the reservation lasts (SyncAuthService.verify).
ProcessedOnce ==
    secured => \A i, j \in DOMAIN executed :
        executed[i].request = executed[j].request =>
            \/ i = j
            \/ executed[i].request \in expired /\ executed[i].life # executed[j].life

\* A requester that follows the cursors to the end has everything the server had when
\* it asked first, although chains of the server grow between the pages and move the
\* patches that the cursor counts (processSyncRequest, appendPatchForPage).
PagesCover == pager.pc = "done" => pager.due \subseteq pager.got

\* The two awaits of a syncWith that no timer covers: the body behind the headers of a
\* 200 (FetchSyncHttpClientAdapter._interpretResponse) and a peer object's promise.
NoTimer(c) == sync[c].pc = "body" \/ (sync[c].pc = "waiting" /\ sync[c].over = "peer")

\* A syncWith that was called comes to an end, with patches, with an error or aborted,
\* however often it retries and whatever becomes of its requests, unless it waits for
\* ever where it has no timer; and over HTTP the caller's signal ends it even there.
SyncSettles ==
    \A c \in Syncs :
        /\ sync[c].pc = "backoff" ~> (sync[c].pc \in Ended \/ []NoTimer(c))
        /\ (sync[c].signal /\ sync[c].over = "http") ~> sync[c].pc \in Ended
=============================================================================
