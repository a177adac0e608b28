----------------------------- MODULE SyncProofs -----------------------------
(***************************************************************************)
(* What holds of the sync exchange and of the states a host installs, for  *)
(* any number of writers, calls, deliveries, restarts and subscribers.     *)
(*                                                                         *)
(*   requests  a request that is delivered again is processed once.  The   *)
(*             inductive invariant (AuthInv) says what each arrival that   *)
(*             is being handled knows: its lamport is behind the server's, *)
(*             no other arrival of the request is under way, and the nonce *)
(*             of whatever was processed is spent;                         *)
(*   pages     a requester that follows cursors gets all it was due.  The  *)
(*             patches it lacks are numbered by their places in the order  *)
(*             of an answer (DeltaHasAll), which only move back; what was  *)
(*             due and has not come lies past the cursor (PagesInv);       *)
(*   installs  the frontier beside a clean cache is held by it, and what   *)
(*             subscribers were sent adds up to the state in the cache.    *)
(*             The inductive invariant (InstallsInv) keeps apart what      *)
(*             always holds (InstallsTyped, BehindRefs), what holds while  *)
(*             calls do not overlap (OneCall, Told) and what takes every   *)
(*             ref to move through the cache (HoldsRefs).                  *)
(***************************************************************************)
EXTENDS SyncExchange, HostInstalls, FiniteSetTheorems, SequenceTheorems, TLAPS

-----------------------------------------------------------------------------
(* Requests *)

Call(G) == [pc : SyncStates, over : {"http", "peer"}, attempt : Nat, signal : BOOLEAN, got : G]

Request == [by : Syncs, attempt : Nat, lamport : Nat, tips : {local}, arrivals : Nat]

Execution(D) == [request : D, life : Nat]

(* What a request and its handling are made of; what was answered is open. *)
RequestsTyped ==
    /\ clock \in Nat /\ lastSeen \in Nat /\ life \in Nat
    /\ \E G : sync \in [Syncs -> Call(G)]
    /\ request \in Seq(Request)
    /\ handler \subseteq [request : DOMAIN request, arrival : Nat, pc : {"reserve", "execute"}]
    /\ executed \in Seq(Execution(DOMAIN request))

(* Within a life of the server, a request that came in is not fresh again. *)
Seen(n) == request[n].lamport <= lastSeen

(* A nonce that was reserved, whether or not the reservation still stands. *)
Spent(n) == n \in reserved \cup expired

Handled(h) ==
    /\ Seen(h.request)
    /\ \A g \in handler : g.request = h.request => g = h
    /\ \A i \in DOMAIN executed : executed[i].life = life => executed[i].request # h.request
    /\ h.pc = "execute" =>
         /\ Spent(h.request)
         /\ \A i \in DOMAIN executed : executed[i].request = h.request => h.request \in expired

Done(i) ==
    /\ executed[i].life <= life
    /\ executed[i].life = life => Seen(executed[i].request)
    /\ Spent(executed[i].request)

AuthInv ==
    secured => /\ \A h \in handler : Handled(h)
               /\ \A i \in DOMAIN executed : Done(i)
               /\ ProcessedOnce

ExchangeInv == RequestsTyped /\ AuthInv

LEMMA ExchangeInitially == ExchangeInit => ExchangeInv
<1> SUFFICES ASSUME ExchangeInit PROVE ExchangeInv  OBVIOUS
<1>1. sync \in [Syncs -> Call({<<>>})]
    BY DEF ExchangeInit, NotStarted, Call, SyncStates
<1>2. RequestsTyped  BY <1>1 DEF ExchangeInit, RequestsTyped
<1>3. AuthInv  BY DEF ExchangeInit, AuthInv, ProcessedOnce
<1> QED BY <1>2, <1>3 DEF ExchangeInv

(* A step that touches neither what is handled nor what was executed, and    *)
(* only adds to the requests.                                                *)
LEMMA AuthKept ==
  ASSUME ExchangeInv, RequestsTyped',
         UNCHANGED <<handler, secured, lastSeen, life, executed>>,
         \A n \in DOMAIN request :
             n \in DOMAIN request' /\ request'[n].lamport = request[n].lamport,
         reserved \cup expired \subseteq reserved' \cup expired', expired \subseteq expired'
  PROVE  ExchangeInv'
<1> SUFFICES ASSUME secured PROVE /\ \A h \in handler : Handled(h)'
                                  /\ \A i \in DOMAIN executed : Done(i)'
                                  /\ ProcessedOnce'
    BY DEF ExchangeInv, AuthInv
<1>1. \A h \in handler : h.request \in DOMAIN request  BY DEF ExchangeInv, RequestsTyped
<1>2. ASSUME NEW i \in DOMAIN executed PROVE executed[i].request \in DOMAIN request
  <2>1. PICK D : D = DOMAIN request  OBVIOUS
  <2>2. executed \in Seq(Execution(D))  BY <2>1 DEF ExchangeInv, RequestsTyped
  <2>3. executed[i] \in Execution(D)  BY <2>2
  <2>4. executed[i].request \in D  BY <2>3 DEF Execution
  <2> QED BY <2>1, <2>4
<1>3. ASSUME NEW n \in DOMAIN request PROVE (Seen(n) => Seen(n)') /\ (Spent(n) => Spent(n)')
    BY <1>3 DEF Seen, Spent
<1>4. \A h \in handler : Handled(h)'
    BY <1>1, <1>2, <1>3 DEF ExchangeInv, AuthInv, Handled
<1>5. \A i \in DOMAIN executed : Done(i)'
    BY <1>2, <1>3 DEF ExchangeInv, AuthInv, Done
<1>6. ProcessedOnce'  BY DEF ExchangeInv, AuthInv, ProcessedOnce
<1> QED BY <1>4, <1>5, <1>6

(* A call of syncWith goes on as the answer says. *)
LEMMA AnsweredTyped ==
  ASSUME NEW G, sync \in [Syncs -> Call(G)], request \in Seq(Request),
         NEW n \in DOMAIN request, NEW status \in {200, 403, 429, 500, 503}, NEW patches,
         Answered(n, status, patches)
  PROVE  \E H : sync' \in [Syncs -> Call(H)]
<1> DEFINE c == request[n].by
<1>0. request[n] \in Request  OBVIOUS
<1>1. c \in Syncs  BY <1>0 DEF Request
<1>2. sync[c] \in Call(G)  BY <1>1
<1>3. RetryOr(c) \in Call(G)
  <2>1. \A x \in SyncStates : [sync[c] EXCEPT !.pc = x] \in Call(G)  BY <1>2 DEF Call
  <2>2. "backoff" \in SyncStates /\ "failed" \in SyncStates  BY DEF SyncStates, Ended
  <2> QED BY <2>1, <2>2 DEF RetryOr
<1> DEFINE awaited == sync[c].pc = "waiting" /\ sync[c].attempt = request[n].attempt
           r == CASE ~awaited -> sync[c]
                  [] awaited /\ status = 200 ->
                       [sync[c] EXCEPT !.pc = "body", !.got = patches]
                  [] awaited /\ status \in 400..499 -> [sync[c] EXCEPT !.pc = "failed"]
                  [] awaited /\ status >= 500 -> RetryOr(c)
<1>4. sync' = [sync EXCEPT ![c] = r]  BY DEF Answered
<1>r. \/ r = sync[c] \/ r = [sync[c] EXCEPT !.pc = "body", !.got = patches]
      \/ r = [sync[c] EXCEPT !.pc = "failed"] \/ r = RetryOr(c)
  <2> HIDE DEF c
  <2>1. status = 200 \/ status \in 400..499 \/ status >= 500  OBVIOUS
  <2> QED BY <2>1
<1> HIDE DEF r, c
<1>5. r \in Call(G \cup {patches})
  <2>0. "body" \in SyncStates /\ "failed" \in SyncStates  BY DEF SyncStates, Ended
  <2>1. CASE r = sync[c]  BY <1>2, <2>1 DEF Call
  <2>2. CASE r = [sync[c] EXCEPT !.pc = "body", !.got = patches]
      BY <1>2, <2>0, <2>2 DEF Call
  <2>3. CASE r = [sync[c] EXCEPT !.pc = "failed"]  BY <1>2, <2>0, <2>3 DEF Call
  <2>4. CASE r = RetryOr(c)  BY <1>3, <2>4 DEF Call
  <2> QED BY <1>r, <2>1, <2>2, <2>3, <2>4
<1> DEFINE X == Call(G \cup {patches})
<1>6. \A d \in Syncs : sync[d] \in X  BY DEF Call
<1>7. r \in X  BY <1>5
<1> HIDE DEF X
<1>8. sync' \in [Syncs -> X]  BY <1>1, <1>4, <1>6, <1>7
<1> QED BY <1>8 DEF X

(* One call of syncWith changes. *)
LEMMA CallTyped ==
  ASSUME NEW G, sync \in [Syncs -> Call(G)], NEW c \in Syncs, NEW g, NEW r \in Call(G \cup {g}),
         sync' = [sync EXCEPT ![c] = r]
  PROVE  \E H : sync' \in [Syncs -> Call(H)]
<1> DEFINE X == Call(G \cup {g})
<1>1. \A d \in Syncs : sync[d] \in X  BY DEF Call
<1>2. r \in X  OBVIOUS
<1> HIDE DEF X
<1>3. sync' \in [Syncs -> X]  BY <1>1, <1>2
<1> QED BY <1>3 DEF X

LEMMA TypedKept ==
  ASSUME RequestsTyped, UNCHANGED <<local, request>>,
         clock' \in Nat, lastSeen' \in Nat, life' \in Nat,
         \E G : sync' \in [Syncs -> Call(G)],
         handler' \subseteq [request : DOMAIN request, arrival : Nat, pc : {"reserve", "execute"}],
         executed' \in Seq(Execution(DOMAIN request))
  PROVE  RequestsTyped'
<1>1. Request' = Request  BY DEF Request
<1>2. request' \in Seq(Request')  BY <1>1 DEF RequestsTyped
<1> QED BY <1>2 DEF RequestsTyped

(* What a caller, its timers and its peer do. *)
LEMMA ClientKeeps ==
  ASSUME ExchangeInv, NEW c \in Syncs,
         \/ SyncWith(c, "http") \/ SyncWith(c, "peer") \/ AbortSync(c)
         \/ Timeout(c) \/ PeerAnswers(c) \/ BodyRead(c) \/ Apply(c)
  PROVE  ExchangeInv'
<1>0. PICK G : sync \in [Syncs -> Call(G)]  BY DEF ExchangeInv, RequestsTyped
<1>1. sync[c] \in Call(G)  BY <1>0
<1>2. UNCHANGED <<local, clock, request, server>>
    BY DEF SyncWith, AbortSync, Timeout, PeerAnswers, BodyRead, Apply
<1>3. PICK g : \E r \in Call(G \cup {g}) : sync' = [sync EXCEPT ![c] = r]
  <2>0. /\ "backoff" \in SyncStates /\ "aborted" \in SyncStates /\ "answered" \in SyncStates
        /\ "failed" \in SyncStates /\ "done" \in SyncStates
      BY DEF SyncStates, Ended
  <2>1. ASSUME NEW over \in {"http", "peer"}, SyncWith(c, over)
        PROVE  \E g : \E r \in Call(G \cup {g}) : sync' = [sync EXCEPT ![c] = r]
    <3>1. sync' = [sync EXCEPT ![c] = [NotStarted EXCEPT !.pc = "backoff", !.over = over]]
        BY <2>1 DEF SyncWith
    <3>2. [NotStarted EXCEPT !.pc = "backoff", !.over = over] \in Call(G \cup {<<>>})
        BY <2>0, <2>1 DEF NotStarted, Call
    <3> QED BY <3>1, <3>2
  <2>2. CASE AbortSync(c)
    <3>1. PICK x \in SyncStates :
            sync' = [sync EXCEPT ![c] = [sync[c] EXCEPT !.signal = TRUE, !.pc = x]]
      <4> DEFINE x == CASE sync[c].pc = "waiting" /\ sync[c].over = "http" -> "aborted"
                        [] sync[c].pc = "body" -> "failed"
                        [] OTHER -> sync[c].pc
      <4>1. sync' = [sync EXCEPT ![c] = [sync[c] EXCEPT !.signal = TRUE, !.pc = x]]
          BY <2>2 DEF AbortSync
      <4>2. sync[c].pc \in SyncStates  BY <1>1 DEF Call
      <4>3. x = "aborted" \/ x = "failed" \/ x = sync[c].pc
        <5>1. CASE sync[c].pc = "body"  BY <5>1
        <5>2. CASE sync[c].pc # "body"  BY <5>2
        <5> QED BY <5>1, <5>2
      <4> HIDE DEF x
      <4>4. x \in SyncStates  BY <2>0, <4>2, <4>3
      <4> QED BY <4>1, <4>4
    <3>2. [sync[c] EXCEPT !.signal = TRUE, !.pc = x] \in Call(G \cup {<<>>})  BY <1>1 DEF Call
    <3> QED BY <3>1, <3>2
  <2>3. CASE Timeout(c)
    <3>1. sync' = [sync EXCEPT ![c] = RetryOr(c)]  BY <2>3 DEF Timeout
    <3>2. \A x \in SyncStates : [sync[c] EXCEPT !.pc = x] \in Call(G \cup {<<>>})
        BY <1>1 DEF Call
    <3>3. RetryOr(c) \in Call(G \cup {<<>>})  BY <2>0, <3>2 DEF RetryOr
    <3> QED BY <3>1, <3>3
  <2>4. CASE PeerAnswers(c)
    <3>1. \/ sync' = [sync EXCEPT ![c] = [sync[c] EXCEPT !.pc = "answered", !.got = Delta(local)]]
          \/ sync' = [sync EXCEPT ![c] = [sync[c] EXCEPT !.pc = "failed"]]
        BY <2>4 DEF PeerAnswers
    <3>2. /\ [sync[c] EXCEPT !.pc = "answered", !.got = Delta(local)] \in Call(G \cup {Delta(local)})
          /\ [sync[c] EXCEPT !.pc = "failed"] \in Call(G \cup {Delta(local)})
        BY <1>1, <2>0 DEF Call
    <3> QED BY <3>1, <3>2
  <2>5. CASE BodyRead(c)
    <3>1. \/ sync' = [sync EXCEPT ![c] = [sync[c] EXCEPT !.pc = "answered"]]
          \/ sync' = [sync EXCEPT ![c] = [sync[c] EXCEPT !.pc = "failed"]]
        BY <2>5 DEF BodyRead
    <3>2. /\ [sync[c] EXCEPT !.pc = "answered"] \in Call(G \cup {<<>>})
          /\ [sync[c] EXCEPT !.pc = "failed"] \in Call(G \cup {<<>>})
        BY <1>1, <2>0 DEF Call
    <3> QED BY <3>1, <3>2
  <2>6. CASE Apply(c)
    <3>1. \/ sync' = [sync EXCEPT ![c] = [sync[c] EXCEPT !.pc = "done"]]
          \/ sync' = [sync EXCEPT ![c] = [sync[c] EXCEPT !.pc = "failed"]]
        BY <2>6 DEF Apply
    <3>2. /\ [sync[c] EXCEPT !.pc = "done"] \in Call(G \cup {<<>>})
          /\ [sync[c] EXCEPT !.pc = "failed"] \in Call(G \cup {<<>>})
        BY <1>1, <2>0 DEF Call
    <3> QED BY <3>1, <3>2
  <2> QED BY <2>1, <2>2, <2>3, <2>4, <2>5, <2>6
<1>4. \E H : sync' \in [Syncs -> Call(H)]  BY <1>0, <1>3, CallTyped
<1>5. RequestsTyped'  BY <1>2, <1>4, TypedKept DEF ExchangeInv, RequestsTyped, server
<1> QED BY <1>2, <1>5, AuthKept DEF server

(* An attempt sends a request of its own, with a nonce of its own. *)
LEMMA AttemptKeeps ==
  ASSUME ExchangeInv, NEW c \in Syncs, Attempt(c)
  PROVE  ExchangeInv'
<1>0. PICK G : sync \in [Syncs -> Call(G)]  BY DEF ExchangeInv, RequestsTyped
<1>1. sync[c] \in Call(G) /\ sync[c].attempt \in Nat  BY <1>0 DEF Call
<1>2. UNCHANGED <<local, clock, server>>  BY DEF Attempt
<1>3. \E r \in Call(G \cup {<<>>}) : sync' = [sync EXCEPT ![c] = r]
  <2>1. "waiting" \in SyncStates /\ "aborted" \in SyncStates  BY DEF SyncStates, Ended
  <2>2. \/ sync' = [sync EXCEPT ![c] = [sync[c] EXCEPT !.pc = "aborted"]]
        \/ sync' = [sync EXCEPT ![c] = [sync[c] EXCEPT !.pc = "waiting",
                                                       !.attempt = sync[c].attempt + 1]]
    <3>1. CASE sync[c].signal  BY <3>1 DEF Attempt
    <3>2. CASE ~sync[c].signal  BY <3>2 DEF Attempt
    <3> QED BY <3>1, <3>2
  <2>3. /\ [sync[c] EXCEPT !.pc = "aborted"] \in Call(G \cup {<<>>})
        /\ \A a \in Nat : [sync[c] EXCEPT !.pc = "waiting", !.attempt = a] \in Call(G \cup {<<>>})
      BY <1>1, <2>1 DEF Call
  <2>4. sync[c].attempt + 1 \in Nat  BY <1>1
  <2> QED BY <2>2, <2>3, <2>4
<1>4. \E H : sync' \in [Syncs -> Call(H)]  BY <1>0, <1>3, CallTyped
<1> DEFINE q == [by |-> c, attempt |-> sync[c].attempt + 1, lamport |-> clock, tips |-> local,
                 arrivals |-> 0]
<1>5. q \in Request  BY <1>1 DEF Request, ExchangeInv, RequestsTyped
<1>6. request' = request \/ request' = Append(request, q)  BY DEF Attempt
<1> HIDE DEF q
<1>7. request \in Seq(Request)  BY DEF ExchangeInv, RequestsTyped
<1>8. request' \in Seq(Request)
      /\ \A n \in DOMAIN request : n \in DOMAIN request' /\ request'[n] = request[n]
    BY <1>5, <1>6, <1>7
<1>9. Request' = Request  BY <1>2 DEF Request
<1>10. handler \subseteq [request : DOMAIN request', arrival : Nat, pc : {"reserve", "execute"}]
  <2>1. PICK D, E : D = DOMAIN request /\ E = DOMAIN request'  OBVIOUS
  <2>2. D \subseteq E  BY <1>8, <2>1
  <2>3. handler \subseteq [request : D, arrival : Nat, pc : {"reserve", "execute"}]
      BY <2>1 DEF ExchangeInv, RequestsTyped
  <2>4. handler \subseteq [request : E, arrival : Nat, pc : {"reserve", "execute"}]
      BY <2>2, <2>3
  <2> QED BY <2>1, <2>4
<1>11. executed \in Seq(Execution(DOMAIN request'))
  <2>1. PICK D, E : D = DOMAIN request /\ E = DOMAIN request'  OBVIOUS
  <2>2. D \subseteq E  BY <1>8, <2>1
  <2>3. executed \in Seq(Execution(D))  BY <2>1 DEF ExchangeInv, RequestsTyped
  <2>4. Execution(D) \subseteq Execution(E)  BY <2>2 DEF Execution
  <2>5. executed \in Seq(Execution(E))  BY <2>3, <2>4
  <2> QED BY <2>1, <2>5
<1>12. RequestsTyped'
    BY <1>2, <1>4, <1>8, <1>9, <1>10, <1>11 DEF ExchangeInv, RequestsTyped, server
<1> QED BY <1>2, <1>8, <1>12, AuthKept DEF server

LEMMA OthersKeep ==
  ASSUME ExchangeInv,
         \/ ClientWrites \/ NextPage \/ (\E w \in SyncWriters : ServerCommits(w))
         \/ (\E n \in DOMAIN request : Expire(n)) \/ UNCHANGED exchangeVars
  PROVE  ExchangeInv'
<1>1. /\ UNCHANGED <<local, sync, request, handler, secured, lastSeen, life, executed>>
      /\ clock' \in Nat
      /\ reserved \cup expired \subseteq reserved' \cup expired' /\ expired \subseteq expired'
    BY DEF ClientWrites, NextPage, ServerCommits, Expire, server, exchangeVars, ExchangeInv,
           RequestsTyped
<1>2. RequestsTyped'  BY <1>1, TypedKept DEF ExchangeInv, RequestsTyped
<1> QED BY <1>1, <1>2, AuthKept

(* Refused or not, a request that came in stays in the list as it was sent. *)
LEMMA ArriveKeeps ==
  ASSUME ExchangeInv, NEW n \in DOMAIN request, Arrive(n)
  PROVE  ExchangeInv'
<1>0. request \in Seq(Request) /\ request[n] \in Request /\ lastSeen \in Nat
    BY DEF ExchangeInv, RequestsTyped
<1> DEFINE q == [request[n] EXCEPT !.arrivals = request[n].arrivals + 1]
           begun(pc) == [request |-> n, arrival |-> request[n].arrivals, pc |-> pc]
<1>1. UNCHANGED <<local, clock, secured, reserved, expired, life, executed>>  BY DEF Arrive
<1>2. request' = [request EXCEPT ![n] = q]  BY DEF Arrive
<1>3. q \in Request /\ q.lamport = request[n].lamport
  <2>1. \A a \in Nat : /\ [request[n] EXCEPT !.arrivals = a] \in Request
                       /\ [request[n] EXCEPT !.arrivals = a].lamport = request[n].lamport
      BY <1>0 DEF Request
  <2>2. request[n].arrivals + 1 \in Nat  BY <1>0 DEF Request
  <2> QED BY <2>1, <2>2
<1> HIDE DEF q
<1>4. request' \in Seq(Request) /\ DOMAIN request' = DOMAIN request
      /\ \A m \in DOMAIN request : request'[m].lamport = request[m].lamport
    BY <1>0, <1>2, <1>3
<1>5. Request' = Request  BY <1>1 DEF Request
<1>6. PICK G : sync \in [Syncs -> Call(G)]  BY DEF ExchangeInv, RequestsTyped
<1>7. \E H : sync' \in [Syncs -> Call(H)]
  <2>1. sync' = sync \/ Answered(n, 403, <<>>)  BY DEF Arrive, Refuse
  <2>2. CASE sync' = sync  BY <1>6, <2>2
  <2>3. CASE Answered(n, 403, <<>>)
    <3>1. PICK status, patches :
              status \in {200, 403, 429, 500, 503} /\ Answered(n, status, patches)
        BY <2>3
    <3> QED BY <1>0, <1>6, <3>1, AnsweredTyped
  <2> QED BY <2>1, <2>2, <2>3
<1>8. \/ ~secured /\ handler' = handler \cup {begun("execute")} /\ lastSeen' = lastSeen
      \/ /\ request[n].lamport > lastSeen
         /\ handler' = handler \cup {begun("reserve")} /\ lastSeen' = request[n].lamport
      \/ handler' = handler /\ lastSeen' = lastSeen
    BY DEF Arrive, IsFresh
<1>9. request[n].lamport \in Nat /\ request[n].arrivals \in Nat  BY <1>0 DEF Request
<1>10. lastSeen' \in Nat /\ lastSeen <= lastSeen'  BY <1>0, <1>8, <1>9
<1>11. RequestsTyped'
  <2>1. PICK D : D = DOMAIN request /\ D = DOMAIN request'  BY <1>4
  <2>2. handler \subseteq [request : D, arrival : Nat, pc : {"reserve", "execute"}]
      BY <2>1 DEF ExchangeInv, RequestsTyped
  <2>3. begun("execute") \in [request : D, arrival : Nat, pc : {"reserve", "execute"}]
        /\ begun("reserve") \in [request : D, arrival : Nat, pc : {"reserve", "execute"}]
      BY <1>9, <2>1
  <2>4. handler' \subseteq [request : D, arrival : Nat, pc : {"reserve", "execute"}]
      BY <1>8, <2>2, <2>3
  <2>5. executed' \in Seq(Execution(D))  BY <1>1, <2>1 DEF ExchangeInv, RequestsTyped
  <2> QED BY <1>1, <1>4, <1>5, <1>7, <1>10, <2>1, <2>4, <2>5 DEF ExchangeInv, RequestsTyped
<1>12. AuthInv'
  <2> SUFFICES ASSUME secured PROVE /\ \A h \in handler' : Handled(h)'
                                    /\ \A i \in DOMAIN executed : Done(i)'
                                    /\ ProcessedOnce'
      BY <1>1 DEF AuthInv
  <2>0. /\ \A h \in handler : h.request \in DOMAIN request /\ Handled(h)
        /\ \A i \in DOMAIN executed : Done(i)
      BY DEF ExchangeInv, AuthInv, RequestsTyped
  <2>d. ASSUME NEW i \in DOMAIN executed PROVE executed[i].request \in DOMAIN request
    <3>1. PICK D : D = DOMAIN request  OBVIOUS
    <3>2. executed \in Seq(Execution(D))  BY <3>1 DEF ExchangeInv, RequestsTyped
    <3>3. executed[i] \in Execution(D)  BY <3>2
    <3>4. executed[i].request \in D  BY <3>3 DEF Execution
    <3> QED BY <3>1, <3>4
  <2>1. ASSUME NEW m \in DOMAIN request PROVE (Seen(m) => Seen(m)') /\ (Spent(m)' <=> Spent(m))
    <3>1. request[m] \in Request  BY <1>0, <2>1
    <3>2. request[m].lamport \in Nat  BY <3>1 DEF Request
    <3>3. request'[m].lamport = request[m].lamport  BY <1>4, <2>1
    <3> QED BY <1>0, <1>1, <1>10, <3>2, <3>3 DEF Seen, Spent
  <2>2. \A i \in DOMAIN executed : Done(i)'  BY <1>1, <2>0, <2>1, <2>d DEF Done
  <2>3. ProcessedOnce'  BY <1>1 DEF ExchangeInv, AuthInv, ProcessedOnce
  <2>4. CASE handler' = handler
    <3>1. \A h \in handler : Handled(h)'  BY <1>1, <2>0, <2>1, <2>4 DEF Handled
    <3> QED BY <2>2, <2>3, <2>4, <3>1
  <2>5. CASE /\ request[n].lamport > lastSeen
             /\ handler' = handler \cup {begun("reserve")} /\ lastSeen' = request[n].lamport
    <3>1. PICK b : b = begun("reserve")  OBVIOUS
    <3>2. b.request = n /\ b.pc = "reserve"  BY <3>1
    <3>3. ~Seen(n)  BY <1>0, <1>9, <2>5 DEF Seen
    <3>4. Seen(n)'  BY <1>4, <1>9, <2>5 DEF Seen
    <3>5. \A h \in handler : h.request # n  BY <2>0, <3>3 DEF Handled
    <3>6. \A i \in DOMAIN executed : executed[i].life = life => executed[i].request # n
        BY <2>0, <3>3 DEF Done
    <3>7. handler' = handler \cup {b}  BY <2>5, <3>1
    <3>8. Handled(b)'  BY <1>1, <3>2, <3>4, <3>5, <3>6, <3>7 DEF Handled
    <3>9. \A h \in handler : Handled(h)'
        BY <1>1, <2>0, <2>1, <3>2, <3>5, <3>7 DEF Handled
    <3> QED BY <2>2, <2>3, <3>7, <3>8, <3>9
  <2> QED BY <1>8, <2>4, <2>5
<1> QED BY <1>11, <1>12 DEF ExchangeInv

(* The reservation is taken, refused, or cannot be made. *)
LEMMA ReserveKeeps ==
  ASSUME ExchangeInv, NEW h \in handler, Reserve(h)
  PROVE  ExchangeInv'
<1> DEFINE e == [h EXCEPT !.pc = "execute"]
           n == h.request
<1>0. h \in [request : DOMAIN request, arrival : Nat, pc : {"reserve", "execute"}]
      /\ request \in Seq(Request)
    BY DEF ExchangeInv, RequestsTyped
<1>1. UNCHANGED <<local, clock, request, secured, lastSeen, expired, life, executed>>
    BY DEF Reserve
<1>2. PICK D : D = DOMAIN request  OBVIOUS
<1>3. n \in D /\ e \in [request : D, arrival : Nat, pc : {"reserve", "execute"}]
      /\ e.request = n /\ e.pc = "execute"
    BY <1>0, <1>2
<1>4. reserved \subseteq reserved'  BY DEF Reserve
<1>5. \/ handler' = handler \ {h}
      \/ /\ n \notin reserved /\ n \in reserved'
         /\ handler' = (handler \ {h}) \cup {e}
    BY DEF Reserve
<1>6. sync' = sync \/ \E status \in {200, 403, 429, 500, 503} : Answered(n, status, <<>>)
    BY DEF Reserve, Refuse
<1> HIDE DEF n, e
<1>7. PICK G : sync \in [Syncs -> Call(G)]  BY DEF ExchangeInv, RequestsTyped
<1>8. \E H : sync' \in [Syncs -> Call(H)]
  <2>1. CASE sync' = sync  BY <1>7, <2>1
  <2>2. CASE sync' # sync
    <3>1. PICK status \in {200, 403, 429, 500, 503} : Answered(n, status, <<>>)  BY <1>6, <2>2
    <3>2. PICK patches : patches = <<>>  OBVIOUS
    <3>3. Answered(n, status, patches) /\ n \in DOMAIN request  BY <1>2, <1>3, <3>1, <3>2
    <3> QED BY <1>0, <1>7, <3>3, AnsweredTyped
  <2> QED BY <2>1, <2>2
<1>9. RequestsTyped'
  <2>1. handler \subseteq [request : D, arrival : Nat, pc : {"reserve", "execute"}]
      BY <1>2 DEF ExchangeInv, RequestsTyped
  <2>2. handler' \subseteq [request : D, arrival : Nat, pc : {"reserve", "execute"}]
      BY <1>3, <1>5, <2>1
  <2>3. executed' \in Seq(Execution(D))  BY <1>1, <1>2 DEF ExchangeInv, RequestsTyped
  <2> QED BY <1>1, <1>2, <1>8, <2>2, <2>3, TypedKept DEF ExchangeInv, RequestsTyped
<1>10. AuthInv'
  <2> SUFFICES ASSUME secured PROVE /\ \A g \in handler' : Handled(g)'
                                    /\ \A i \in DOMAIN executed : Done(i)'
                                    /\ ProcessedOnce'
      BY <1>1 DEF AuthInv
  <2>0. /\ \A g \in handler : Handled(g)
        /\ \A i \in DOMAIN executed : Done(i)
      BY DEF ExchangeInv, AuthInv
  <2>1. \A m : (Seen(m)' <=> Seen(m)) /\ (Spent(m) => Spent(m)')
      BY <1>1, <1>4 DEF Seen, Spent
  <2>2. \A i \in DOMAIN executed : Done(i)'  BY <1>1, <2>0, <2>1 DEF Done
  <2>3. ProcessedOnce'  BY <1>1 DEF ExchangeInv, AuthInv, ProcessedOnce
  <2>4. ASSUME NEW g \in handler \ {h} PROVE Handled(g)'
    <3>1. g.request # n  BY <2>0, <2>4 DEF Handled, n
    <3>2. \A k \in handler' : k.request = g.request => k = g
        BY <1>3, <1>5, <2>0, <2>4, <3>1 DEF Handled
    <3> QED BY <1>1, <2>0, <2>1, <2>4, <3>2 DEF Handled
  <2>5. CASE handler' = handler \ {h}  BY <2>2, <2>3, <2>4, <2>5
  <2>6. CASE /\ n \notin reserved /\ n \in reserved'
             /\ handler' = (handler \ {h}) \cup {e}
    <3>1. Seen(n)'  BY <2>0, <2>1 DEF Handled, n
    <3>2. \A k \in handler' : k.request = n => k = e  BY <2>0, <2>6 DEF Handled, n
    <3>3. \A i \in DOMAIN executed : executed[i].life = life => executed[i].request # n
        BY <2>0 DEF Handled, n
    <3>4. Spent(n)'  BY <2>6 DEF Spent
    <3>5. \A i \in DOMAIN executed : executed[i].request = n => n \in expired
        BY <2>0, <2>6 DEF Done, Spent
    <3>6. Handled(e)'  BY <1>1, <1>3, <3>1, <3>2, <3>3, <3>4, <3>5 DEF Handled
    <3> QED BY <2>2, <2>3, <2>4, <2>6, <3>6
  <2> QED BY <1>5, <2>5, <2>6
<1> QED BY <1>9, <1>10 DEF ExchangeInv

LEMMA ExecuteKeeps ==
  ASSUME ExchangeInv, NEW h \in handler, Execute(h)
  PROVE  ExchangeInv'
<1> DEFINE n == h.request
           x == [request |-> n, life |-> life]
           k == Len(executed) + 1
<1>0. h \in [request : DOMAIN request, arrival : Nat, pc : {"reserve", "execute"}]
      /\ request \in Seq(Request) /\ life \in Nat
    BY DEF ExchangeInv, RequestsTyped
<1>1. UNCHANGED <<local, clock, request, secured, lastSeen, reserved, expired, life>>
      /\ handler' = handler \ {h} /\ h.pc = "execute"
    BY DEF Execute
<1>2. PICK D : D = DOMAIN request  OBVIOUS
<1>3. n \in D  BY <1>0, <1>2
<1>4. x \in Execution(D) /\ x.request = n /\ x.life = life  BY <1>0, <1>3 DEF Execution
<1>5. executed \in Seq(Execution(D))  BY <1>2 DEF ExchangeInv, RequestsTyped
<1>6. executed' = Append(executed, x)  BY DEF Execute
<1>7. \E patches : \E status \in {200, 403, 429, 500, 503} : Answered(n, status, patches)
    BY DEF Execute, Refuse
<1> HIDE DEF n, x
<1>8. /\ executed' \in Seq(Execution(D)) /\ DOMAIN executed' = 1..k /\ executed'[k] = x
      /\ k \in Nat /\ DOMAIN executed = 1..(k - 1)
      /\ \A i \in DOMAIN executed : i \in DOMAIN executed' /\ executed'[i] = executed[i]
    BY <1>4, <1>5, <1>6
<1> HIDE DEF k
<1>9. PICK G : sync \in [Syncs -> Call(G)]  BY DEF ExchangeInv, RequestsTyped
<1>10. \E H : sync' \in [Syncs -> Call(H)]
  <2>1. PICK patches : \E status \in {200, 403, 429, 500, 503} : Answered(n, status, patches)
      BY <1>7
  <2>2. PICK status \in {200, 403, 429, 500, 503} : Answered(n, status, patches)  BY <2>1
  <2>3. n \in DOMAIN request  BY <1>2, <1>3
  <2> QED BY <1>0, <1>9, <2>2, <2>3, AnsweredTyped
<1>11. RequestsTyped'
  <2>1. handler \subseteq [request : D, arrival : Nat, pc : {"reserve", "execute"}]
      BY <1>2 DEF ExchangeInv, RequestsTyped
  <2>2. handler' \subseteq [request : D, arrival : Nat, pc : {"reserve", "execute"}]
      BY <1>1, <2>1
  <2> QED BY <1>1, <1>2, <1>8, <1>10, <2>2, TypedKept DEF ExchangeInv, RequestsTyped
<1>12. AuthInv'
  <2> SUFFICES ASSUME secured PROVE /\ \A g \in handler' : Handled(g)'
                                    /\ \A i \in DOMAIN executed' : Done(i)'
                                    /\ ProcessedOnce'
      BY <1>1 DEF AuthInv
  <2>0. /\ \A g \in handler : Handled(g)
        /\ \A i \in DOMAIN executed : Done(i)
        /\ ProcessedOnce
      BY DEF ExchangeInv, AuthInv
  <2>1. \A m : (Seen(m)' <=> Seen(m)) /\ (Spent(m)' <=> Spent(m))  BY <1>1 DEF Seen, Spent
  <2>2. Handled(h) /\ Seen(n) /\ Spent(n)  BY <1>1, <2>0 DEF Handled, n
  <2>3. \A i \in DOMAIN executed' : i = k \/ i \in DOMAIN executed  BY <1>8
  <2>4. ASSUME NEW g \in handler' PROVE Handled(g)'
    <3>1. g \in handler /\ g # h  BY <1>1, <2>4
    <3>2. g.request # n  BY <2>0, <3>1 DEF Handled, n
    <3>3. \A i \in DOMAIN executed' : executed'[i].request = g.request =>
             i \in DOMAIN executed /\ executed'[i] = executed[i]
        BY <1>4, <1>8, <2>3, <3>2
    <3>4. Handled(g)  BY <2>0, <3>1
    <3> QED BY <1>1, <2>1, <3>1, <3>3, <3>4 DEF Handled
  <2>5. ASSUME NEW i \in DOMAIN executed' PROVE Done(i)'
    <3>1. CASE i = k  BY <1>0, <1>1, <1>4, <1>8, <2>1, <2>2, <3>1 DEF Done
    <3>2. CASE i \in DOMAIN executed  BY <1>1, <1>8, <2>0, <2>1, <3>2 DEF Done
    <3> QED BY <2>3, <3>1, <3>2
  <2>6. ASSUME NEW i \in DOMAIN executed, executed[i].request = n
        PROVE  n \in expired /\ executed[i].life # life
      BY <1>1, <2>2, <2>6 DEF Handled, n
  <2>7. ProcessedOnce'
    <3> SUFFICES ASSUME NEW i \in DOMAIN executed', NEW j \in DOMAIN executed', i # j,
                        executed'[i].request = executed'[j].request
                 PROVE  executed'[i].request \in expired' /\ executed'[i].life # executed'[j].life
        BY DEF ProcessedOnce
    <3>1. CASE i = k
      <4>1. j \in DOMAIN executed /\ executed'[j] = executed[j]  BY <1>8, <2>3, <3>1
      <4> QED BY <1>1, <1>4, <1>8, <2>6, <3>1, <4>1
    <3>2. CASE j = k
      <4>1. i \in DOMAIN executed /\ executed'[i] = executed[i]  BY <1>8, <2>3, <3>2
      <4> QED BY <1>1, <1>4, <1>8, <2>6, <3>2, <4>1
    <3>3. CASE i # k /\ j # k
      <4>1. i \in DOMAIN executed /\ j \in DOMAIN executed  BY <2>3, <3>3
      <4>2. executed'[i] = executed[i] /\ executed'[j] = executed[j]  BY <1>8, <4>1
      <4> QED BY <1>1, <2>0, <4>1, <4>2 DEF ProcessedOnce
    <3> QED BY <3>1, <3>2, <3>3
  <2> QED BY <2>4, <2>5, <2>7
<1> QED BY <1>11, <1>12 DEF ExchangeInv

LEMMA RestartServerKeeps ==
  ASSUME ExchangeInv, RestartServer
  PROVE  ExchangeInv'
<1>1. UNCHANGED <<local, clock, sync, request, secured, reserved, expired, executed>>
      /\ handler' = {} /\ life' = life + 1 /\ lastSeen' = 0 /\ life \in Nat
    BY DEF RestartServer, ExchangeInv, RequestsTyped
<1>2. RequestsTyped'  BY <1>1, TypedKept DEF ExchangeInv, RequestsTyped
<1>3. AuthInv'
  <2> SUFFICES ASSUME secured PROVE (\A i \in DOMAIN executed : Done(i)') /\ ProcessedOnce'
      BY <1>1 DEF AuthInv
  <2>1. ASSUME NEW i \in DOMAIN executed PROVE Done(i)'
    <3>1. PICK D : D = DOMAIN request  OBVIOUS
    <3>2. executed \in Seq(Execution(D))  BY <3>1 DEF ExchangeInv, RequestsTyped
    <3>3. executed[i] \in Execution(D)  BY <3>2
    <3>4. executed[i].life \in Nat  BY <3>3 DEF Execution
    <3>5. executed[i].life <= life /\ Spent(executed[i].request)
        BY DEF ExchangeInv, AuthInv, Done
    <3> QED BY <1>1, <3>4, <3>5 DEF Done, Spent
  <2>2. ProcessedOnce'  BY <1>1 DEF ExchangeInv, AuthInv, ProcessedOnce
  <2> QED BY <2>1, <2>2
<1> QED BY <1>2, <1>3 DEF ExchangeInv

(* A request that the network delivers again is processed once: within a     *)
(* life of the server because its lamport is no longer fresh, across a       *)
(* restart because its nonce stays reserved, whatever order the two checks   *)
(* of concurrent arrivals interleave in.                                     *)
THEOREM DeliveredAgainProcessedOnce == ExchangeSpec => []ProcessedOnce
<1>1. ExchangeInv /\ [ExchangeNext]_exchangeVars => ExchangeInv'
  <2> SUFFICES ASSUME ExchangeInv, [ExchangeNext]_exchangeVars PROVE ExchangeInv'  OBVIOUS
  <2> QED BY ClientKeeps, AttemptKeeps, OthersKeep, ArriveKeeps, ReserveKeeps, ExecuteKeeps,
             RestartServerKeeps DEF ExchangeNext, ClientStep, OtherSideAnswers
<1>2. ExchangeInv => ProcessedOnce  BY DEF ExchangeInv, AuthInv, ProcessedOnce
<1> QED BY <1>1, <1>2, ExchangeInitially, PTL DEF ExchangeSpec

-----------------------------------------------------------------------------
(* Pages *)

(* A finite set of patches is numbered by the places of its members, 1 for   *)
(* the first: no two have the same place, and none is left out.              *)
Patches == Nat \X Nat

LEMMA EarlierIsTotal ==
  ASSUME NEW x \in Patches, NEW y \in Patches, x # y
  PROVE  (Earlier(x, y) /\ ~Earlier(y, x)) \/ (Earlier(y, x) /\ ~Earlier(x, y))
BY DEF Earlier, Patches

LEMMA EarlierIsTransitive ==
  ASSUME NEW x \in Patches, NEW y \in Patches, NEW z \in Patches, Earlier(x, y), ~Earlier(x, z)
  PROVE  ~Earlier(y, z)
BY DEF Earlier, Patches

LEMMA PlaceInRange ==
  ASSUME NEW S \in SUBSET Patches, IsFiniteSet(S), NEW x \in S
  PROVE  Place(S, x) \in 1..Cardinality(S)
<1> DEFINE U == {y \in S : ~Earlier(x, y)}
<1>1. U \in SUBSET S /\ x \in U  BY DEF Earlier, Patches
<1> HIDE DEF U
<1>2. IsFiniteSet(U) /\ Cardinality(U) <= Cardinality(S)  BY <1>1, FS_Subset
<1>3. Cardinality(U) \in Nat /\ Cardinality(S) \in Nat  BY <1>2, FS_CardinalityType
<1>4. Cardinality(U) # 0  BY <1>1, <1>2, FS_EmptySet
<1>5. Place(S, x) = Cardinality(U)  BY DEF Place, U
<1> QED BY <1>2, <1>3, <1>4, <1>5

LEMMA PlaceIncreases ==
  ASSUME NEW S \in SUBSET Patches, IsFiniteSet(S), NEW x \in S, NEW y \in S, Earlier(x, y)
  PROVE  Place(S, x) < Place(S, y)
<1> DEFINE U == {z \in S : ~Earlier(x, z)}
           V == {z \in S : ~Earlier(y, z)}
<1>1. U \in SUBSET V
  <2>1. ASSUME NEW z \in U PROVE z \in V
    <3>1. z \in S /\ ~Earlier(x, z)  OBVIOUS
    <3>2. x \in Patches /\ y \in Patches /\ z \in Patches  BY <3>1
    <3> QED BY <3>1, <3>2, EarlierIsTransitive
  <2> QED BY <2>1
<1>2. y \in V /\ y \notin U  BY DEF Earlier, Patches
<1>3. V \in SUBSET S  OBVIOUS
<1>p. Place(S, x) = Cardinality(U) /\ Place(S, y) = Cardinality(V)  BY DEF Place
<1> HIDE DEF U, V
<1>4. IsFiniteSet(V)  BY <1>3, FS_Subset
<1>5. /\ IsFiniteSet(U) /\ Cardinality(U) <= Cardinality(V)
      /\ (Cardinality(V) = Cardinality(U) => V = U)
    BY <1>1, <1>4, FS_Subset
<1>6. Cardinality(U) \in Nat /\ Cardinality(V) \in Nat  BY <1>4, <1>5, FS_CardinalityType
<1> QED BY <1>2, <1>5, <1>6, <1>p

LEMMA PlaceIsInjective ==
  ASSUME NEW S \in SUBSET Patches, IsFiniteSet(S), NEW x \in S, NEW y \in S,
         Place(S, x) = Place(S, y)
  PROVE  x = y
<1> SUFFICES ASSUME x # y PROVE FALSE  OBVIOUS
<1>1. Earlier(x, y) \/ Earlier(y, x)  BY EarlierIsTotal
<1>2. Place(S, x) \in Nat /\ Place(S, y) \in Nat
  <2>1. Cardinality(S) \in Nat  BY FS_CardinalityType
  <2> QED BY <2>1, PlaceInRange
<1>3. CASE Earlier(x, y)  BY <1>2, <1>3, PlaceIncreases
<1>4. CASE Earlier(y, x)  BY <1>2, <1>4, PlaceIncreases
<1> QED BY <1>1, <1>3, <1>4

(* Where patches are added, those that were there move back, if at all. *)
LEMMA PlaceGrows ==
  ASSUME NEW S \in SUBSET Patches, NEW T \in SUBSET S, IsFiniteSet(S), NEW x \in T
  PROVE  Place(T, x) <= Place(S, x)
<1> DEFINE U == {y \in T : ~Earlier(x, y)}
           V == {y \in S : ~Earlier(x, y)}
<1>1. U \in SUBSET V /\ V \in SUBSET S  OBVIOUS
<1>2. Place(T, x) = Cardinality(U) /\ Place(S, x) = Cardinality(V)  BY DEF Place
<1> HIDE DEF U, V
<1>3. IsFiniteSet(V)  BY <1>1, FS_Subset
<1> QED BY <1>1, <1>2, <1>3, FS_Subset

(* What the server has is bounded, and what a requester lacks of it finite. *)
PagesTyped ==
    /\ served \in [SyncWriters -> 0..(MaxServed + 1)]
    /\ local \in [SyncWriters -> Nat]
    /\ pager.cursor \in Nat
    /\ pager.pc \in {"idle", "more", "done"}
    /\ pager.pc = "idle" => pager.cursor = 0

LEMMA MissingMember ==
  ASSUME NEW tips, NEW x
  PROVE  x \in Missing(tips) <=>
            \E w \in SyncWriters : /\ Needs(w, tips[w])
                                   /\ \E i \in (tips[w] + 1)..served[w] : x = <<w, i>>
BY DEF Missing

LEMMA MissingFinite ==
  ASSUME PagesTyped
  PROVE  Missing(local) \in SUBSET Patches /\ IsFiniteSet(Missing(local))
<1> USE SyncAssumption DEF PagesTyped
<1> DEFINE B == SyncWriters \X (0..(MaxServed + 1))
<1>1. ASSUME NEW x \in Missing(local) PROVE x \in B
  <2>1. PICK w \in SyncWriters : \E i \in (local[w] + 1)..served[w] : x = <<w, i>>
      BY MissingMember
  <2>2. PICK i \in (local[w] + 1)..served[w] : x = <<w, i>>  BY <2>1
  <2>3. served[w] \in 0..(MaxServed + 1) /\ local[w] \in Nat  OBVIOUS
  <2>4. i \in 0..(MaxServed + 1)  BY <2>3
  <2> QED BY <2>2, <2>4
<1>2. IsFiniteSet(0..(MaxServed + 1))  BY FS_Interval
<1>3. IsFiniteSet(B)  BY <1>2, FS_Product
<1>4. Missing(local) \in SUBSET B  BY <1>1
<1>5. B \subseteq Patches
  <2>1. 0..(MaxServed + 1) \subseteq Nat  OBVIOUS
  <2> QED BY <2>1 DEF Patches
<1> HIDE DEF B
<1> QED BY <1>3, <1>4, <1>5, FS_Subset

(* The delta has every missing patch, at its place. *)
LEMMA DeltaHasAll ==
  ASSUME PagesTyped
  PROVE  /\ Cardinality(Missing(local)) \in Nat
         /\ Len(Delta(local)) = Cardinality(Missing(local))
         /\ Delta(local) \in Seq(Missing(local))
         /\ \A x \in Missing(local) :
               /\ Place(Missing(local), x) \in 1..Cardinality(Missing(local))
               /\ Delta(local)[Place(Missing(local), x)] = x
<1>1. PICK M : M = Missing(local)  OBVIOUS
<1>2. M \in SUBSET Patches /\ IsFiniteSet(M)  BY <1>1, MissingFinite
<1>3. PICK N : N = Cardinality(M)  OBVIOUS
<1>4. N \in Nat  BY <1>2, <1>3, FS_CardinalityType
<1>5. \A x \in M : Place(M, x) \in 1..N  BY <1>2, <1>3, PlaceInRange
<1> DEFINE f == [x \in M |-> Place(M, x)]
<1>6. f \in Injection(M, 1..N)
  <2>1. f \in [M -> 1..N]  BY <1>5
  <2>2. \A x, y \in M : f[x] = f[y] => x = y  BY <1>2, PlaceIsInjective
  <2> QED BY <2>1, <2>2 DEF Injection, IsInjective
<1>7. f \in Surjection(M, 1..N)
  <2>1. IsFiniteSet(1..N) /\ Cardinality(1..N) = N  BY <1>4, FS_Interval
  <2>2. Cardinality(M) = Cardinality(1..N)  BY <1>3, <2>1
  <2> HIDE DEF f
  <2> QED BY <1>6, <2>1, <2>2, FS_Injection
<1>8. \A n \in 1..N : \E x \in M : Place(M, x) = n  BY <1>7 DEF Surjection
<1>d. Delta(local) = [n \in 1..N |-> CHOOSE x \in M : Place(M, x) = n]
    BY <1>1, <1>3 DEF Delta
<1>9. \A n \in 1..N : Delta(local)[n] \in M /\ Place(M, Delta(local)[n]) = n
    BY <1>8, <1>d
<1>10. ASSUME NEW x \in M PROVE Delta(local)[Place(M, x)] = x
  <2>1. Place(M, x) \in 1..N  BY <1>5
  <2>2. PICK y : y = Delta(local)[Place(M, x)]  OBVIOUS
  <2>3. y \in M /\ Place(M, y) = Place(M, x)  BY <1>9, <2>1, <2>2
  <2> QED BY <1>2, <2>2, <2>3, PlaceIsInjective
<1>11. Delta(local) \in [1..N -> M]  BY <1>9, <1>d
<1>12. Delta(local) \in Seq(M)  BY <1>4, <1>11
<1>13. Len(Delta(local)) = N  BY <1>4, <1>11, <1>12
<1> QED BY <1>1, <1>3, <1>4, <1>5, <1>10, <1>12, <1>13

(* Between two pages: what was due and has not come lies past the cursor. *)
Ahead(x) == x \in Missing(local) /\ Place(Missing(local), x) > pager.cursor

PagesInv ==
    /\ PagesTyped
    /\ pager.pc = "more" => \A x \in pager.due : x \in pager.got \/ Ahead(x)
    /\ PagesCover

LEMMA PagesInitially == ExchangeInit => PagesInv
<1> SUFFICES ASSUME ExchangeInit PROVE PagesInv  OBVIOUS
<1>1. PagesTyped
  <2>1. 1 \in 0..(MaxServed + 1)  BY SyncAssumption
  <2> QED BY <2>1 DEF PagesTyped, ExchangeInit, NoPager
<1> QED BY <1>1 DEF PagesInv, PagesCover, ExchangeInit, NoPager

LEMMA NextPageKeeps ==
  ASSUME PagesInv, NextPage
  PROVE  PagesInv'
<1> DEFINE M == Missing(local)
           D == Delta(local)
           page == Page(D, pager.cursor)
           c == pager.cursor
<1>1. PagesTyped  BY DEF PagesInv
<1>2. UNCHANGED <<served, local, forked>>  BY DEF NextPage, server
<1>3. M' = M  BY <1>2 DEF Missing, Needs
<1>4. /\ Cardinality(M) \in Nat /\ Len(D) = Cardinality(M) /\ D \in Seq(M)
      /\ \A x \in M : Place(M, x) \in 1..Cardinality(M) /\ D[Place(M, x)] = x
    BY <1>1, DeltaHasAll
<1>5. c \in Nat /\ PageSize \in Nat \ {0}  BY <1>1, SyncAssumption DEF PagesTyped
<1>6. pager' = [pc |-> IF page.hasMore THEN "more" ELSE "done",
                cursor |-> IF page.hasMore THEN page.cursor ELSE 0,
                got |-> pager.got \cup ToSet(page.patches),
                due |-> IF pager.pc = "idle" THEN M ELSE pager.due]
    BY DEF NextPage
<1>7. /\ page.hasMore <=> Cardinality(M) > c + PageSize
      /\ page.cursor = c + PageSize
      /\ page.patches = SubSeq(D, c + 1, IF c + PageSize < Len(D) THEN c + PageSize ELSE Len(D))
    BY <1>4 DEF Page
<1>8. PagesTyped'
  <2>1. pager'.cursor \in Nat /\ pager'.pc \in {"more", "done"}  BY <1>5, <1>6, <1>7
  <2> QED BY <1>1, <1>2, <2>1 DEF PagesTyped
<1>9. ASSUME NEW x \in pager'.due PROVE x \in pager.got \/ (x \in M /\ Place(M, x) > c)
  <2>1. CASE pager.pc = "idle"
    <3>1. x \in M  BY <1>6, <2>1
    <3>2. c = 0  BY <1>1, <2>1 DEF PagesTyped
    <3> QED BY <1>4, <3>1, <3>2
  <2>2. CASE pager.pc # "idle"
    <3>1. pager.pc = "more"  BY <1>1, <2>2 DEF PagesTyped, NextPage
    <3>2. x \in pager.due  BY <1>6, <2>2
    <3> QED BY <3>1, <3>2 DEF PagesInv, Ahead
  <2> QED BY <2>1, <2>2
<1>10. ASSUME NEW x \in M, Place(M, x) > c, Place(M, x) <= c + PageSize
       PROVE  x \in ToSet(page.patches)
  <2> DEFINE p == Place(M, x)
             e == IF c + PageSize < Len(D) THEN c + PageSize ELSE Len(D)
  <2>1. p \in 1..Cardinality(M) /\ D[p] = x  BY <1>4
  <2>2. p \in (c + 1)..e /\ e \in Nat /\ e <= Len(D)  BY <1>4, <1>5, <1>10, <2>1
  <2>3. page.patches = SubSeq(D, c + 1, e)  BY <1>7
  <2> HIDE DEF M, D, p, e, c, page
  <2>4. PICK q \in 1..(e - c) : q = p - c  BY <1>5, <2>2
  <2>5. q \in DOMAIN SubSeq(D, c + 1, e) /\ SubSeq(D, c + 1, e)[q] = D[p]
    <3>1. D \in Seq(M) /\ c + 1 \in 1..(Len(D) + 1) /\ e \in c..Len(D)  BY <1>4, <1>5, <2>2
    <3>2. /\ Len(SubSeq(D, c + 1, e)) = e - c
          /\ \A i \in 1..(e - c) : SubSeq(D, c + 1, e)[i] = D[c + i]
      <4>1. e - (c + 1) + 1 = e - c  BY <1>5, <2>2
      <4>2. \A i \in 1..(e - c) : (c + 1) + i - 1 = c + i  BY <1>5, <2>2
      <4> QED BY <3>1, <4>1, <4>2, <1>5, <2>2, SubSeqProperties
    <3>3. SubSeq(D, c + 1, e) \in Seq(M)  BY <3>1, SubSeqProperties
    <3>4. DOMAIN SubSeq(D, c + 1, e) = 1..(e - c)  BY <3>2, <3>3
    <3>5. c + q = p  BY <1>5, <2>2, <2>4
    <3> QED BY <3>2, <3>4, <3>5
  <2> QED BY <2>1, <2>3, <2>5 DEF ToSet
<1>11. CASE page.hasMore
  <2>1. pager'.pc = "more" /\ pager'.cursor = c + PageSize  BY <1>6, <1>7, <1>11
  <2>2. ASSUME NEW x \in pager'.due PROVE x \in pager'.got \/ Ahead(x)'
    <3>1. CASE x \in pager.got  BY <1>6, <3>1
    <3>2. CASE x \in M /\ Place(M, x) > c /\ Place(M, x) <= c + PageSize
        BY <1>6, <1>10, <3>2
    <3>3. CASE x \in M /\ ~(Place(M, x) <= c + PageSize)
      <4>1. PICK p : p = Place(M, x)  OBVIOUS
      <4>2. p \in Nat  BY <1>4, <3>3, <4>1
      <4>3. p > c + PageSize  BY <1>5, <3>3, <4>1, <4>2
      <4>4. Place(M, x)' = Place(M', x)  BY DEF Place, Earlier
      <4> QED BY <1>3, <2>1, <3>3, <4>1, <4>3, <4>4 DEF Ahead
    <3> QED BY <1>9, <3>1, <3>2, <3>3
  <2> QED BY <1>8, <2>1, <2>2 DEF PagesInv, PagesCover
<1>12. CASE ~page.hasMore
  <2>1. pager'.pc = "done"  BY <1>6, <1>12
  <2>2. \A x \in M : Place(M, x) <= c + PageSize  BY <1>4, <1>5, <1>7, <1>12, SMTT(20)
  <2>3. pager'.due \subseteq pager'.got  BY <1>6, <1>9, <1>10, <2>2
  <2> QED BY <1>8, <2>1, <2>3 DEF PagesInv, PagesCover
<1> QED BY <1>11, <1>12

LEMMA ServerCommitsKeeps ==
  ASSUME PagesInv, NEW w \in SyncWriters, ServerCommits(w)
  PROVE  PagesInv'
<1>1. PagesTyped  BY DEF PagesInv
<1>2. served' = [served EXCEPT ![w] = @ + 1] /\ UNCHANGED <<local, forked, pager>>
      /\ served[w] < MaxServed
    BY DEF ServerCommits
<1>3. PagesTyped'
  <2>1. served' \in [SyncWriters -> 0..(MaxServed + 1)]
      BY <1>1, <1>2, SyncAssumption DEF PagesTyped
  <2> QED BY <1>1, <1>2, <2>1 DEF PagesTyped
<1>4. \A v \in SyncWriters : served[v] \in Nat /\ served'[v] \in Nat /\ served[v] <= served'[v]
    BY <1>1, <1>2, SyncAssumption DEF PagesTyped
<1>5. PICK M : M = Missing(local)  OBVIOUS
<1>6. PICK N : N = Missing(local)'  OBVIOUS
<1>7. M \in SUBSET N
  <2>1. ASSUME NEW x \in M PROVE x \in N
    <3>1. PICK v \in SyncWriters : /\ Needs(v, local[v])
                                   /\ \E i \in (local[v] + 1)..served[v] : x = <<v, i>>
        BY <1>5, MissingMember
    <3>2. PICK i \in (local[v] + 1)..served[v] : x = <<v, i>>  BY <3>1
    <3>3. local[v] \in Nat  BY <1>1 DEF PagesTyped
    <3>4. i \in (local'[v] + 1)..served'[v]  BY <1>2, <1>4, <3>3
    <3>5. Needs(v, local[v])'  BY <1>2, <1>4, <3>1, <3>3 DEF Needs
    <3> QED BY <1>6, <3>2, <3>4, <3>5 DEF Missing
  <2> QED BY <2>1
<1>8. N \in SUBSET Patches /\ IsFiniteSet(N)
  <2>1. (Missing(local) \in SUBSET Patches /\ IsFiniteSet(Missing(local)))'
      BY <1>3, MissingFinite, PTL
  <2> QED BY <1>6, <2>1 DEF Patches
<1>9. ASSUME NEW x, Ahead(x) PROVE Ahead(x)'
  <2>1. x \in M /\ x \in N  BY <1>5, <1>7, <1>9 DEF Ahead
  <2>2. Place(M, x) <= Place(N, x)  BY <1>7, <1>8, <2>1, PlaceGrows
  <2>3. M \in SUBSET Patches /\ IsFiniteSet(M)  BY <1>1, <1>5, MissingFinite
  <2>4. Place(M, x) \in Nat /\ Place(N, x) \in Nat
    <3>1. Cardinality(M) \in Nat /\ Cardinality(N) \in Nat  BY <1>8, <2>3, FS_CardinalityType
    <3>2. Place(M, x) \in 1..Cardinality(M)  BY <2>1, <2>3, PlaceInRange
    <3>3. Place(N, x) \in 1..Cardinality(N)  BY <2>1, <1>8, PlaceInRange
    <3> QED BY <3>1, <3>2, <3>3
  <2>5. Place(M, x) > pager.cursor  BY <1>5, <1>9 DEF Ahead
  <2>6. pager.cursor \in Nat  BY <1>1 DEF PagesTyped
  <2>7. Place(N, x) > pager'.cursor  BY <1>2, <2>2, <2>4, <2>5, <2>6
  <2> QED BY <1>6, <2>1, <2>7 DEF Ahead, Place, Earlier
<1> QED BY <1>2, <1>3, <1>9 DEF PagesInv, PagesCover

LEMMA PagesUntouched ==
  ASSUME PagesInv, UNCHANGED <<served, local, forked, pager>>
  PROVE  PagesInv'
<1>1. Missing(local)' = Missing(local)  BY DEF Missing, Needs
<1>2. \A x : Ahead(x) => Ahead(x)'  BY <1>1 DEF Ahead, Place, Earlier
<1> QED BY <1>2 DEF PagesInv, PagesTyped, PagesCover

(* A requester that follows the cursors to the end misses nothing that the   *)
(* server had when it was first asked, for any page size and however the     *)
(* chains grow meanwhile: growth moves patches back in the answer, past the  *)
(* cursor, and never before it.                                              *)
THEOREM PagesLeaveNoHole == ExchangeSpec => []PagesCover
<1>1. PagesInv /\ [ExchangeNext]_exchangeVars => PagesInv'
  <2> SUFFICES ASSUME PagesInv, [ExchangeNext]_exchangeVars PROVE PagesInv'  OBVIOUS
  <2>1. CASE NextPage  BY <2>1, NextPageKeeps
  <2>2. CASE \E w \in SyncWriters : ServerCommits(w)  BY <2>2, ServerCommitsKeeps
  <2>3. CASE UNCHANGED <<served, local, forked, pager>>  BY <2>3, PagesUntouched
  <2>4. ASSUME NEW c \in Syncs,
               \/ SyncWith(c, "http") \/ SyncWith(c, "peer") \/ AbortSync(c) \/ Attempt(c)
               \/ Timeout(c) \/ PeerAnswers(c) \/ BodyRead(c) \/ Apply(c)
        PROVE  UNCHANGED <<served, local, forked, pager>>
      BY <2>4 DEF SyncWith, AbortSync, Attempt, Timeout, PeerAnswers, BodyRead, Apply, server
  <2>5. ASSUME NEW n, Arrive(n) \/ Expire(n)
        PROVE  UNCHANGED <<served, local, forked, pager>>
      BY <2>5 DEF Arrive, Expire
  <2>6. ASSUME NEW h, Reserve(h) \/ Execute(h)
        PROVE  UNCHANGED <<served, local, forked, pager>>
      BY <2>6 DEF Reserve, Execute
  <2>7. ASSUME ClientWrites \/ RestartServer \/ UNCHANGED exchangeVars
        PROVE  UNCHANGED <<served, local, forked, pager>>
      BY <2>7 DEF ClientWrites, RestartServer, exchangeVars, server
  <2> QED BY <2>1, <2>2, <2>3, <2>4, <2>5, <2>6, <2>7 DEF ExchangeNext, ClientStep, OtherSideAnswers
<1>2. PagesInv => PagesCover  BY DEF PagesInv
<1> QED BY <1>1, <1>2, PagesInitially, PTL DEF ExchangeSpec

-----------------------------------------------------------------------------
(* What is in the cache of a host, and who was told *)

Tips == [HostWriters -> Nat]
HostPatch == HostWriters \X Nat
HostState == SUBSET HostPatch

CacheType == [at : Nat, dirty : BOOLEAN, last : Tips \cup {Null}, notified : HostState]
CommitType == [pc : {"idle", "hashing"}, state : Nat, place : Nat]
ReadType == [pc : {"idle", "reading", "installed", "framed"}, tips : Tips, state : Nat]
ApplyType == [pc : {"idle", "asked", "materializing", "gated", "hashing"}, tips : Tips,
              patches : HostState, result : HostState, last : Tips]
SubscriberType == [pc : {"absent", "pending", "on"}, copy : HostState]

(* A response holds what the peer had above the tips it was asked from. *)
Answer(a) == \E q \in Tips : a.patches = UpTo(q) \ UpTo(a.tips)

InstallsTyped ==
    /\ refs \in Tips /\ peer \in Tips
    /\ states \in Seq(HostState)
    /\ cache \in CacheType /\ cache.at <= Len(states)
    /\ commit \in CommitType /\ (commit.pc = "hashing" => commit.state \in DOMAIN states)
    /\ read \in ReadType
    /\ (read.pc \in {"installed", "framed"} => read.state \in DOMAIN states)
    /\ apply \in ApplyType /\ (apply.pc \in {"materializing", "gated"} => Answer(apply))
    /\ subs \in [Subscribers -> SubscriberType]

(* Tips are read from the refs, which only grow. *)
BehindRefs ==
    /\ commit.pc = "hashing" => commit.place <= refs[OwnWriter]
    /\ apply.pc # "idle" => \A w \in HostWriters : apply.tips[w] <= refs[w]

(* The calls that are in flight, one at a time. *)
OneCall ==
    /\ commit.pc = "hashing" =>
         read.pc = "idle" /\ apply.pc = "idle" /\ commit.state = cache.at
    /\ read.pc # "idle" => apply.pc \in {"idle", "materializing"}
    /\ read.pc \in {"installed", "framed"} => read.state = cache.at
    /\ apply.pc = "materializing" => read.pc = "reading" \/ cache.at # 0
    /\ apply.pc \in {"gated", "hashing"} => cache.at # 0

(* A subscriber has the state last notified or, if it came later, the        *)
(* cached one; the two differ only while an installed state is to be told.   *)
Told ==
    /\ commit.pc = "idle" /\ read.pc \notin {"installed", "framed"} => cache.notified = Cached
    /\ \A s \in Subscribers :
         subs[s].pc = "on" => subs[s].copy = cache.notified \/ subs[s].copy = Cached

(* With every ref moving through the cache, the cache has all of our chains  *)
(* once the state that is being read is installed.                           *)
HoldsRefs ==
    /\ read.pc = "reading" => read.tips = refs
    /\ cache.at # 0 /\ read.pc # "reading" => UpTo(refs) \subseteq Cached
    /\ cache.last # Null /\ read.pc \notin {"reading", "installed"} =>
         UpTo(cache.last) \subseteq Cached
    /\ apply.pc = "hashing" => UpTo(apply.last) \cup Cached \subseteq apply.result

InstallsInv ==
    /\ InstallsTyped /\ BehindRefs
    /\ orderly => OneCall /\ Told
    /\ orderly /\ steady => HoldsRefs

-----------------------------------------------------------------------------

LEMMA UpToMember ==
  ASSUME NEW f \in Tips
  PROVE  /\ UpTo(f) \in HostState
         /\ \A w \in HostWriters, i \in Nat : <<w, i>> \in UpTo(f) <=> i \in 1..f[w]
         /\ \A p \in UpTo(f) : \E w \in HostWriters : \E i \in 1..f[w] : p = <<w, i>>
BY DEF UpTo, Tips, HostState, HostPatch

LEMMA UpToGrows ==
  ASSUME NEW f \in Tips, NEW g \in Tips, \A w \in HostWriters : f[w] <= g[w]
  PROVE  UpTo(f) \subseteq UpTo(g)
<1> SUFFICES ASSUME NEW p \in UpTo(f) PROVE p \in UpTo(g)  OBVIOUS
<1>1. PICK w \in HostWriters : \E i \in 1..f[w] : p = <<w, i>>  BY UpToMember
<1>2. PICK i \in 1..f[w] : p = <<w, i>>  BY <1>1
<1>3. f[w] \in Nat /\ g[w] \in Nat /\ f[w] <= g[w]  BY DEF Tips
<1>4. i \in 1..g[w] /\ i \in Nat  BY <1>3
<1> QED BY <1>2, <1>4, UpToMember

(* The one patch more. *)
LEMMA UpToNext ==
  ASSUME NEW f \in Tips, NEW w \in HostWriters
  PROVE  UpTo([f EXCEPT ![w] = @ + 1]) \subseteq UpTo(f) \cup {<<w, f[w] + 1>>}
<1> DEFINE g == [f EXCEPT ![w] = @ + 1]
<1>1. g \in Tips /\ g[w] = f[w] + 1 /\ \A u \in HostWriters \ {w} : g[u] = f[u]  BY DEF Tips
<1> HIDE DEF g
<1> SUFFICES ASSUME NEW p \in UpTo(g) PROVE p \in UpTo(f) \cup {<<w, f[w] + 1>>}
    BY DEF g
<1>2. PICK u \in HostWriters : \E i \in 1..g[u] : p = <<u, i>>  BY <1>1, UpToMember
<1>3. PICK i \in 1..g[u] : p = <<u, i>>  BY <1>2
<1>4. f[u] \in Nat /\ i \in Nat  BY <1>1, <1>3 DEF Tips
<1>5. CASE u = w /\ i = f[w] + 1  BY <1>3, <1>5
<1>6. CASE ~(u = w /\ i = f[w] + 1)
  <2>1. i \in 1..f[u]  BY <1>1, <1>3, <1>4, <1>6
  <2> QED BY <1>3, <1>4, <2>1, UpToMember
<1> QED BY <1>5, <1>6

(* The frontier that a response leaves names what was in the state or came   *)
(* with it, if the state had everything up to the tips of the request.       *)
LEMMA TipOfAnswer ==
  ASSUME NEW a, NEW q \in Tips, NEW t \in Tips, a = UpTo(q) \ UpTo(t),
         NEW w \in HostWriters, \E p \in a : p[1] = w
  PROVE  /\ Tip(w, a) \in Nat
         /\ \A i \in 1..Tip(w, a) : <<w, i>> \in a \/ <<w, i>> \in UpTo(t)
<1>0. q[w] \in Nat /\ t[w] \in Nat  BY DEF Tips
<1>1. PICK p \in a : p[1] = w  OBVIOUS
<1>2. PICK u \in HostWriters : \E i \in 1..q[u] : p = <<u, i>>  BY <1>1, UpToMember
<1>3. PICK i \in 1..q[u] : p = <<u, i>>  BY <1>2
<1>4. u = w /\ i \in Nat /\ p = <<w, i>>  BY <1>0, <1>1, <1>3
<1>5. ~(i \in 1..t[w])  BY <1>1, <1>4, UpToMember
<1>6. q[w] \in 1..q[w] /\ ~(q[w] \in 1..t[w])  BY <1>0, <1>3, <1>4, <1>5
<1>7. <<w, q[w]>> \in a  BY <1>0, <1>6, UpToMember
<1>8. <<w, q[w] + 1>> \notin a
  <2>1. ~(q[w] + 1 \in 1..q[w]) /\ q[w] + 1 \in Nat  BY <1>0
  <2> QED BY <2>1, UpToMember
<1>9. q[w] \in {x[2] : x \in a}
  <2>1. <<w, q[w]>>[2] = q[w]  OBVIOUS
  <2> QED BY <1>7, <2>1
<1> DEFINE n == Tip(w, a)
<1>10. n \in {x[2] : x \in a} /\ <<w, n>> \in a /\ <<w, n + 1>> \notin a
    BY <1>7, <1>8, <1>9 DEF Tip
<1>11. n \in Nat /\ n \in 1..q[w]
  <2>1. <<w, n>> \in UpTo(q)  BY <1>10
  <2>2. PICK v \in HostWriters : \E j \in 1..q[v] : <<w, n>> = <<v, j>>  BY <2>1, UpToMember
  <2>3. PICK j \in 1..q[v] : <<w, n>> = <<v, j>>  BY <2>2
  <2>4. v = w /\ n = j  BY <2>3
  <2> QED BY <1>0, <2>3, <2>4
<1> HIDE DEF n
<1>12. ASSUME NEW k \in 1..n PROVE <<w, k>> \in a \/ <<w, k>> \in UpTo(t)
  <2>1. k \in 1..q[w] /\ k \in Nat  BY <1>0, <1>11, <1>12
  <2>2. <<w, k>> \in UpTo(q)  BY <2>1, UpToMember
  <2> QED BY <2>2
<1> QED BY <1>11, <1>12 DEF n

LEMMA FrontierTyped ==
  ASSUME NEW a, NEW q \in Tips, NEW t \in Tips, a = UpTo(q) \ UpTo(t),
         NEW last \in Tips \cup {Null}
  PROVE  FrontierWith(last, a) \in Tips
<1>1. ASSUME NEW w \in HostWriters PROVE FrontierWith(last, a)[w] \in Nat
  <2>1. CASE \E p \in a : p[1] = w
    <3>1. FrontierWith(last, a)[w] = Tip(w, a)  BY <2>1 DEF FrontierWith
    <3> QED BY <2>1, <3>1, TipOfAnswer
  <2>2. CASE ~(\E p \in a : p[1] = w)
    <3>1. FrontierWith(last, a)[w] = IF last = Null THEN 0 ELSE last[w]
        BY <2>2 DEF FrontierWith
    <3> QED BY <3>1 DEF Tips
  <2> QED BY <2>1, <2>2
<1> QED BY <1>1 DEF FrontierWith, Tips

LEMMA FrontierCovered ==
  ASSUME NEW a, NEW q \in Tips, NEW t \in Tips, a = UpTo(q) \ UpTo(t),
         NEW last \in Tips \cup {Null}, NEW C, UpTo(t) \subseteq C,
         last # Null => UpTo(last) \subseteq C
  PROVE  UpTo(FrontierWith(last, a)) \subseteq C \cup a
<1> DEFINE f == FrontierWith(last, a)
<1>1. f \in Tips  BY FrontierTyped
<1> SUFFICES ASSUME NEW p \in UpTo(f) PROVE p \in C \cup a  OBVIOUS
<1>2. PICK w \in HostWriters : \E i \in 1..f[w] : p = <<w, i>>  BY <1>1, UpToMember
<1>3. PICK i \in 1..f[w] : p = <<w, i>>  BY <1>2
<1>4. CASE \E x \in a : x[1] = w
  <2>1. f[w] = Tip(w, a)  BY <1>4 DEF FrontierWith
  <2> HIDE DEF f
  <2>2. <<w, i>> \in a \/ <<w, i>> \in UpTo(t)  BY <1>3, <1>4, <2>1, TipOfAnswer
  <2> QED BY <1>3, <2>2
<1>5. CASE ~(\E x \in a : x[1] = w)
  <2>1. f[w] = IF last = Null THEN 0 ELSE last[w]  BY <1>5 DEF FrontierWith
  <2> HIDE DEF f
  <2>2. CASE last = Null  BY <1>3, <2>1, <2>2
  <2>3. CASE last # Null
    <3>1. i \in 1..last[w] /\ last \in Tips  BY <1>3, <2>1, <2>3
    <3>2. last[w] \in Nat  BY <3>1 DEF Tips
    <3>3. i \in Nat  BY <3>1, <3>2
    <3>4. <<w, i>> \in UpTo(last)  BY <3>1, <3>3, UpToMember
    <3> QED BY <1>3, <2>3, <3>4
  <2> QED BY <2>2, <2>3
<1> QED BY <1>4, <1>5

(* Being sent the difference takes a copy of the one state, or of the other, *)
(* to the other.                                                             *)
LEMMA PatchedIsTold ==
  ASSUME NEW copy, NEW before, NEW after, copy = before \/ copy = after
  PROVE  Patched(copy, before, after) = after
BY DEF Patched

LEMMA NotifiedEffect ==
  ASSUME subs \in [Subscribers -> SubscriberType], NEW state \in HostState,
         NEW c \in CacheType, Notified(state, c)
  PROVE  /\ subs' \in [Subscribers -> SubscriberType]
         /\ cache' \in CacheType /\ cache'.notified = state
         /\ cache'.at = c.at /\ cache'.dirty = c.dirty /\ cache'.last = c.last
         /\ \A s \in Subscribers :
              /\ subs'[s].pc = "on" => subs[s].pc # "absent"
              /\ subs[s].pc = "pending" => subs'[s].copy = state
              /\ subs[s].pc = "on" /\ (subs[s].copy = c.notified \/ subs[s].copy = state) =>
                   subs'[s].copy = state
<1>1. /\ subs' = [s \in Subscribers |->
              IF subs[s].pc = "absent" THEN subs[s]
              ELSE [pc |-> "on", copy |-> IF subs[s].pc = "pending" THEN state
                       ELSE Patched(subs[s].copy, c.notified, state)]]
      /\ cache' = [c EXCEPT !.notified = state]
    BY DEF Notified, Notify
<1>2. /\ cache' \in CacheType /\ cache'.notified = state
      /\ cache'.at = c.at /\ cache'.dirty = c.dirty /\ cache'.last = c.last
    BY <1>1 DEF CacheType
<1>3. c.notified \in HostState  BY DEF CacheType
<1>4. ASSUME NEW s \in Subscribers
      PROVE  /\ subs'[s] \in SubscriberType
             /\ subs'[s].pc = "on" => subs[s].pc # "absent"
             /\ subs[s].pc = "pending" => subs'[s].copy = state
             /\ subs[s].pc = "on" /\ (subs[s].copy = c.notified \/ subs[s].copy = state) =>
                  subs'[s].copy = state
  <2>0. subs[s] \in SubscriberType  OBVIOUS
  <2>1. CASE subs[s].pc = "absent"
    <3>1. subs'[s] = subs[s]  BY <1>1, <2>1
    <3> QED BY <2>0, <2>1, <3>1
  <2>2. CASE subs[s].pc = "pending"
    <3>1. subs'[s] = [pc |-> "on", copy |-> state]  BY <1>1, <2>2
    <3> QED BY <2>2, <3>1 DEF SubscriberType
  <2>3. CASE subs[s].pc = "on"
    <3>1. subs'[s] = [pc |-> "on", copy |-> Patched(subs[s].copy, c.notified, state)]
        BY <1>1, <2>3
    <3>2. Patched(subs[s].copy, c.notified, state) \in HostState
        BY <1>3, <2>0 DEF Patched, SubscriberType, HostState
    <3>3. subs[s].copy = c.notified \/ subs[s].copy = state =>
             Patched(subs[s].copy, c.notified, state) = state
        BY PatchedIsTold
    <3> QED BY <2>3, <3>1, <3>2, <3>3 DEF SubscriberType
  <2> QED BY <2>0, <2>1, <2>2, <2>3 DEF SubscriberType
<1>5. subs' = [s \in Subscribers |-> subs'[s]]  BY <1>1
<1> QED BY <1>2, <1>4, <1>5

LEMMA CachedTyped == ASSUME InstallsTyped PROVE Cached \in HostState
<1>1. CASE cache.at = 0  BY <1>1 DEF Cached, HostState
<1>2. CASE cache.at # 0
  <2>1. cache.at \in DOMAIN states  BY <1>2 DEF InstallsTyped, CacheType
  <2>2. states[cache.at] \in HostState  BY <2>1 DEF InstallsTyped
  <2> QED BY <1>2, <2>2 DEF Cached
<1> QED BY <1>1, <1>2

(* A new call is orderly only when nothing is in flight. *)
LEMMA StartsQuiet ==
  ASSUME orderly' = (orderly /\ Quiet), orderly'
  PROVE  orderly /\ commit.pc = "idle" /\ read.pc = "idle" /\ apply.pc = "idle"
BY DEF Quiet

LEMMA InstallsInitially == InstallsInit => InstallsInv
<1> SUFFICES ASSUME InstallsInit PROVE InstallsInv  OBVIOUS
<1>0. NoTips \in Tips  BY DEF NoTips, Tips
<1>1. refs \in Tips /\ peer \in Tips
    BY InstallsAssumption DEF InstallsInit, Tips, HostWriters
<1>2. /\ states = <<>> /\ cache.at = 0 /\ cache.last = Null /\ cache.notified = {}
      /\ commit.pc = "idle" /\ read.pc = "idle" /\ apply.pc = "idle"
    BY DEF InstallsInit, NoCommit, NoRead, NoApply
<1>3. \A s \in Subscribers : subs[s] \in SubscriberType /\ subs[s].pc = "absent"
    BY DEF InstallsInit, Absent, SubscriberType, HostState
<1>4. cache \in CacheType  BY DEF InstallsInit, CacheType, HostState
<1>5. commit \in CommitType /\ read \in ReadType /\ apply \in ApplyType
    BY <1>0 DEF InstallsInit, NoCommit, NoRead, NoApply, CommitType, ReadType, ApplyType,
       HostState
<1>6. InstallsTyped
  <2>1. subs \in [Subscribers -> SubscriberType]  BY <1>3 DEF InstallsInit
  <2>2. states \in Seq(HostState) /\ Len(states) = 0  BY <1>2
  <2> QED BY <1>1, <1>2, <1>4, <1>5, <2>1, <2>2 DEF InstallsTyped
<1>7. Cached = {}  BY <1>2 DEF Cached
<1>8. BehindRefs /\ OneCall /\ Told /\ HoldsRefs
    BY <1>2, <1>3, <1>7 DEF BehindRefs, OneCall, Told, HoldsRefs
<1> QED BY <1>6, <1>8 DEF InstallsInv

(* The watch, the peer and the subscribers leave the cache alone. *)
LEMMA WatchKeeps ==
  ASSUME InstallsInv, UNCHANGED <<refs, states, cache, commit, read, apply, subs, orderly, steady>>,
         peer' \in Tips
  PROVE  InstallsInv'
<1>1. InstallsTyped'  BY DEF InstallsInv, InstallsTyped
<1>2. Cached' = Cached  BY DEF Cached
<1>3. BehindRefs'  BY DEF InstallsInv, BehindRefs
<1>4. orderly => OneCall'  BY DEF InstallsInv, OneCall
<1>5. orderly => Told'  BY <1>2 DEF InstallsInv, Told
<1>6. orderly /\ steady => HoldsRefs'  BY <1>2 DEF InstallsInv, HoldsRefs
<1> QED BY <1>1, <1>3, <1>4, <1>5, <1>6 DEF InstallsInv

LEMMA OthersKeepInstalls ==
  ASSUME InstallsInv,
         \/ Watch \/ Unwatch \/ PollBegins \/ PollEnds \/ UNCHANGED installVars
         \/ (\E w \in HostWriters : PeerGrows(w))
  PROVE  InstallsInv'
<1>1. UNCHANGED <<refs, states, cache, commit, read, apply, subs, orderly, steady>>
    BY DEF Watch, Unwatch, PollBegins, PollEnds, PeerGrows, installVars
<1>2. peer' \in Tips
  <2>0. peer \in Tips  BY DEF InstallsInv, InstallsTyped
  <2>1. ASSUME NEW w \in HostWriters, PeerGrows(w) PROVE peer' \in Tips
      BY <2>0, <2>1 DEF PeerGrows, Tips
  <2> QED BY <2>0, <2>1 DEF Watch, Unwatch, PollBegins, PollEnds, installVars
<1> QED BY <1>1, <1>2, WatchKeeps

(* Refs that grow stay above the tips that were read from them. *)
LEMMA BehindGrows ==
  ASSUME InstallsTyped, BehindRefs, refs' \in Tips, \A w \in HostWriters : refs[w] <= refs'[w],
         UNCHANGED apply, commit' = commit \/ commit'.place <= refs'[OwnWriter]
  PROVE  BehindRefs'
<1>1. ASSUME commit' = commit, commit.pc = "hashing" PROVE commit.place <= refs'[OwnWriter]
  <2>1. OwnWriter \in HostWriters  BY DEF HostWriters
  <2>2. commit.place \in Nat /\ refs[OwnWriter] \in Nat /\ refs'[OwnWriter] \in Nat
        /\ refs[OwnWriter] <= refs'[OwnWriter] /\ commit.place <= refs[OwnWriter]
      BY <1>1, <2>1 DEF InstallsTyped, CommitType, Tips, BehindRefs
  <2> QED BY <2>2
<1>2. ASSUME apply.pc # "idle", NEW w \in HostWriters PROVE apply.tips[w] <= refs'[w]
  <2>1. apply.tips[w] \in Nat /\ refs[w] \in Nat /\ refs'[w] \in Nat
        /\ refs[w] <= refs'[w] /\ apply.tips[w] <= refs[w]
      BY <1>2 DEF InstallsTyped, ApplyType, Tips, BehindRefs
  <2> QED BY <2>1
<1> QED BY <1>1, <1>2 DEF BehindRefs

LEMMA RefMovesKeeps ==
  ASSUME InstallsInv, RefMoves PROVE InstallsInv'
<1>1. UNCHANGED <<peer, states, cache, commit, read, apply, subs, orderly>> /\ steady' = FALSE
      /\ refs' = [refs EXCEPT ![OtherWriter] = @ + 1]
    BY DEF RefMoves
<1>2. refs \in Tips /\ refs' \in Tips /\ \A w \in HostWriters : refs[w] <= refs'[w]
  <2>1. refs \in Tips  BY DEF InstallsInv, InstallsTyped
  <2> QED BY <1>1, <2>1 DEF Tips, HostWriters
<1>3. InstallsTyped'  BY <1>1, <1>2 DEF InstallsInv, InstallsTyped
<1>4. Cached' = Cached  BY <1>1 DEF Cached
<1>5. BehindRefs'  BY <1>1, <1>2, BehindGrows DEF InstallsInv
<1>6. orderly => OneCall'  BY <1>1 DEF InstallsInv, OneCall
<1>7. orderly => Told'  BY <1>1, <1>4 DEF InstallsInv, Told
<1> QED BY <1>1, <1>3, <1>5, <1>6, <1>7 DEF InstallsInv

LEMMA SubscribersKeep ==
  ASSUME InstallsInv, NEW s \in Subscribers,
         Unsubscribe(s) \/ (\E replay \in BOOLEAN : Subscribe(s, replay))
  PROVE  InstallsInv'
<1>1. UNCHANGED <<refs, peer, states, cache, commit, read, apply, orderly, steady>>
    BY DEF Unsubscribe, Subscribe
<1>2. Cached' = Cached  BY <1>1 DEF Cached
<1>3. PICK r \in SubscriberType : subs' = [subs EXCEPT ![s] = r] /\ (r.pc = "on" => r.copy = Cached)
  <2>1. CASE Unsubscribe(s)
    <3>1. subs' = [subs EXCEPT ![s] = Absent]  BY <2>1 DEF Unsubscribe
    <3>2. Absent \in SubscriberType /\ Absent.pc = "absent"
        BY DEF Absent, SubscriberType, HostState
    <3> QED BY <3>1, <3>2
  <2>2. ASSUME NEW replay \in BOOLEAN, Subscribe(s, replay)
        PROVE  \E r \in SubscriberType :
                   subs' = [subs EXCEPT ![s] = r] /\ (r.pc = "on" => r.copy = Cached)
    <3>1. PICK x \in {"pending", "on"} : subs' = [subs EXCEPT ![s] = [pc |-> x, copy |-> Cached]]
        BY <2>2 DEF Subscribe
    <3>2. Cached \in HostState  BY CachedTyped DEF InstallsInv
    <3>3. PICK C : C = Cached  OBVIOUS
    <3>4. [pc |-> x, copy |-> C] \in SubscriberType /\ [pc |-> x, copy |-> C].copy = C
        BY <3>2, <3>3 DEF SubscriberType
    <3> QED BY <3>1, <3>3, <3>4
  <2> QED BY <2>1, <2>2
<1>4. subs \in [Subscribers -> SubscriberType]  BY DEF InstallsInv, InstallsTyped
<1>5. subs' \in [Subscribers -> SubscriberType] /\ subs'[s] = r
      /\ \A t \in Subscribers \ {s} : subs'[t] = subs[t]
    BY <1>3, <1>4
<1>6. InstallsTyped'  BY <1>1, <1>5 DEF InstallsInv, InstallsTyped
<1>7. BehindRefs'  BY <1>1 DEF InstallsInv, BehindRefs
<1>8. orderly => OneCall'  BY <1>1 DEF InstallsInv, OneCall
<1>9. orderly => Told'  BY <1>1, <1>2, <1>3, <1>5 DEF InstallsInv, Told
<1>10. orderly /\ steady => HoldsRefs'  BY <1>1, <1>2 DEF InstallsInv, HoldsRefs
<1> QED BY <1>1, <1>6, <1>7, <1>8, <1>9, <1>10 DEF InstallsInv

-----------------------------------------------------------------------------
(* Commits *)

LEMMA CommitKeeps ==
  ASSUME InstallsInv, Commit PROVE InstallsInv'
<1> DEFINE n == NewPatch
<1>0. InstallsTyped /\ BehindRefs /\ commit.pc = "idle"  BY DEF InstallsInv, Commit
<1>1. UNCHANGED <<peer, read, apply, subs>> /\ orderly' = (orderly /\ Quiet)
      /\ refs' = [refs EXCEPT ![OwnWriter] = @ + 1]
    BY DEF Commit
<1>2. OwnWriter \in HostWriters /\ refs \in Tips /\ refs[OwnWriter] \in Nat
    BY <1>0 DEF InstallsTyped, Tips, HostWriters
<1>3. refs' \in Tips /\ refs'[OwnWriter] = refs[OwnWriter] + 1
      /\ \A w \in HostWriters : refs[w] <= refs'[w]
    BY <1>1, <1>2 DEF Tips
<1>4. n = <<OwnWriter, refs[OwnWriter] + 1>> /\ n[2] = refs[OwnWriter] + 1 /\ n \in HostPatch
    BY <1>2 DEF NewPatch, HostPatch
<1>5. UpTo(refs') \subseteq UpTo(refs) \cup {n}  BY <1>1, <1>2, <1>4, UpToNext
<1> HIDE DEF n
<1>6. ASSUME Clean, states' = [states EXCEPT ![cache.at] = @ \cup {n}],
             commit' = [pc |-> "hashing", state |-> cache.at, place |-> n[2]],
             UNCHANGED <<cache, steady>>
      PROVE  InstallsInv'
  <2>1. cache.at # 0 /\ cache.at \in Nat /\ cache.at \in DOMAIN states
        /\ states \in Seq(HostState)
      BY <1>0, <1>6 DEF Clean, InstallsTyped, CacheType
  <2>2. states[cache.at] \cup {n} \in HostState  BY <1>4, <2>1 DEF HostState
  <2>3. states' \in Seq(HostState) /\ DOMAIN states' = DOMAIN states /\ Len(states') = Len(states)
        /\ states'[cache.at] = states[cache.at] \cup {n}
      BY <1>6, <2>1, <2>2
  <2>4. commit' \in CommitType /\ commit'.pc = "hashing" /\ commit'.state = cache.at
        /\ commit'.place = refs'[OwnWriter]
    <3>1. PICK m \in Nat : m = n[2] /\ m = refs'[OwnWriter]  BY <1>2, <1>3, <1>4
    <3>2. commit' = [pc |-> "hashing", state |-> cache.at, place |-> m]  BY <1>6, <3>1
    <3> QED BY <2>1, <3>1, <3>2 DEF CommitType
  <2>5. InstallsTyped'  BY <1>0, <1>1, <1>3, <1>6, <2>1, <2>3, <2>4 DEF InstallsTyped
  <2>6. commit'.place <= refs'[OwnWriter]  BY <1>2, <1>3, <2>4
  <2>7. BehindRefs'  BY <1>0, <1>1, <1>3, <2>6, BehindGrows
  <2>8. Cached' = Cached \cup {n}  BY <1>6, <2>1, <2>3 DEF Cached
  <2>9. ASSUME orderly' PROVE OneCall' /\ Told' /\ (steady' => HoldsRefs')
    <3>1. orderly /\ read.pc = "idle" /\ apply.pc = "idle" /\ commit.pc = "idle"
        BY <1>1, <2>9, StartsQuiet
    <3>2. OneCall'  BY <1>1, <1>6, <2>4, <3>1 DEF OneCall
    <3>3. cache.notified = Cached  BY <3>1 DEF InstallsInv, Told
    <3>4. Told'  BY <1>1, <1>6, <2>4, <3>1, <3>3 DEF InstallsInv, Told
    <3>5. steady' => HoldsRefs'
      <4> SUFFICES ASSUME steady' PROVE HoldsRefs'  OBVIOUS
      <4>1. HoldsRefs  BY <1>6, <3>1 DEF InstallsInv
      <4>2. UpTo(refs) \subseteq Cached  BY <2>1, <3>1, <4>1 DEF HoldsRefs
      <4>3. UpTo(refs') \subseteq Cached'  BY <1>5, <2>8, <4>2
      <4>4. cache.last # Null => UpTo(cache.last) \subseteq Cached'
          BY <2>8, <3>1, <4>1 DEF HoldsRefs
      <4> QED BY <1>1, <1>6, <3>1, <4>3, <4>4 DEF HoldsRefs
    <3> QED BY <3>2, <3>4, <3>5
  <2> QED BY <2>5, <2>7, <2>9 DEF InstallsInv
<1>7. ASSUME cache' = [cache EXCEPT !.dirty = TRUE], steady' = FALSE, UNCHANGED <<states, commit>>
      PROVE  InstallsInv'
  <2>1. cache' \in CacheType /\ cache'.at = cache.at /\ cache'.notified = cache.notified
      BY <1>0, <1>7 DEF InstallsTyped, CacheType
  <2>2. InstallsTyped'  BY <1>0, <1>1, <1>3, <1>7, <2>1 DEF InstallsTyped
  <2>3. BehindRefs'  BY <1>0, <1>1, <1>3, <1>7, BehindGrows
  <2>4. Cached' = Cached  BY <1>7, <2>1 DEF Cached
  <2>5. ASSUME orderly' PROVE OneCall' /\ Told'
    <3>1. orderly /\ read.pc = "idle" /\ apply.pc = "idle" /\ commit.pc = "idle"
        BY <1>1, <2>5, StartsQuiet
    <3>2. OneCall'  BY <1>1, <1>7, <3>1 DEF OneCall
    <3>3. Told'  BY <1>1, <1>7, <2>1, <2>4, <3>1 DEF InstallsInv, Told
    <3> QED BY <3>2, <3>3
  <2> QED BY <1>7, <2>2, <2>3, <2>5 DEF InstallsInv
<1> QED BY <1>6, <1>7 DEF Commit, n

LEMMA CommitInstallsKeeps ==
  ASSUME InstallsInv, CommitInstalls PROVE InstallsInv'
<1> DEFINE l == IF cache.last = Null THEN cache.last
                ELSE [cache.last EXCEPT ![OwnWriter] = commit.place]
           c == [cache EXCEPT !.at = commit.state, !.dirty = FALSE, !.last = l]
           state == states[commit.state]
<1>0. InstallsTyped /\ BehindRefs /\ commit.pc = "hashing"  BY DEF InstallsInv, CommitInstalls
<1>1. UNCHANGED <<refs, peer, states, read, apply, orderly, steady>> /\ commit' = NoCommit
      /\ Notified(state, c)
    BY DEF CommitInstalls
<1>2. commit.state \in DOMAIN states /\ commit.state \in Nat /\ commit.state # 0
      /\ state \in HostState /\ commit.place \in Nat /\ cache \in CacheType
      /\ commit.state <= Len(states)
    BY <1>0 DEF InstallsTyped, CommitType
<1>3. l \in Tips \cup {Null}
  <2>1. cache.last \in Tips \cup {Null}  BY <1>2 DEF CacheType
  <2> QED BY <1>2, <2>1 DEF Tips
<1> HIDE DEF l
<1>4. c \in CacheType /\ c.at = commit.state /\ c.last = l /\ c.notified = cache.notified
    BY <1>2, <1>3 DEF CacheType
<1> HIDE DEF c, state
<1>5. subs \in [Subscribers -> SubscriberType]  BY <1>0 DEF InstallsTyped
<1>6. /\ subs' \in [Subscribers -> SubscriberType]
      /\ cache' \in CacheType /\ cache'.notified = state
      /\ cache'.at = commit.state /\ cache'.last = l
      /\ \A s \in Subscribers :
           /\ subs'[s].pc = "on" => subs[s].pc # "absent"
           /\ subs[s].pc = "pending" => subs'[s].copy = state
           /\ subs[s].pc = "on" /\ (subs[s].copy = cache.notified \/ subs[s].copy = state) =>
                subs'[s].copy = state
    BY <1>1, <1>2, <1>4, <1>5, NotifiedEffect
<1>7. commit' \in CommitType /\ commit'.pc = "idle"  BY <1>1 DEF NoCommit, CommitType
<1>8. InstallsTyped'  BY <1>0, <1>1, <1>2, <1>6, <1>7 DEF InstallsTyped
<1>9. BehindRefs'  BY <1>0, <1>1, <1>7 DEF BehindRefs
<1>10. Cached' = state  BY <1>1, <1>2, <1>6 DEF Cached, state
<1>11. ASSUME orderly PROVE OneCall' /\ Told' /\ (steady => HoldsRefs')
  <2>1. read.pc = "idle" /\ apply.pc = "idle" /\ commit.state = cache.at /\ Told
      BY <1>0, <1>11 DEF InstallsInv, OneCall
  <2>2. Cached = state  BY <1>2, <2>1 DEF Cached, state
  <2>3. OneCall'  BY <1>1, <1>7, <2>1 DEF OneCall
  <2>4. \A s \in Subscribers : subs'[s].pc = "on" => subs'[s].copy = state
    <3> SUFFICES ASSUME NEW s \in Subscribers, subs'[s].pc = "on" PROVE subs'[s].copy = state
        OBVIOUS
    <3>1. subs[s].pc \in {"pending", "on"}  BY <1>5, <1>6 DEF SubscriberType
    <3> QED BY <1>6, <2>1, <2>2, <3>1 DEF Told
  <2>5. Told'  BY <1>6, <1>10, <2>4 DEF Told
  <2>6. ASSUME steady PROVE HoldsRefs'
    <3>1. HoldsRefs  BY <1>11, <2>6 DEF InstallsInv
    <3>2. UpTo(refs) \subseteq state  BY <1>2, <2>1, <2>2, <3>1 DEF HoldsRefs
    <3>3. ASSUME l # Null PROVE UpTo(l) \subseteq state
      <4>0. PICK k : k = cache.last  OBVIOUS
      <4>1. k # Null /\ k \in Tips /\ l = [k EXCEPT ![OwnWriter] = commit.place] /\ l \in Tips
          BY <1>2, <1>3, <3>3, <4>0 DEF l, CacheType
      <4>2. UpTo(k) \subseteq state  BY <2>1, <2>2, <3>1, <4>0, <4>1 DEF HoldsRefs
      <4> SUFFICES ASSUME NEW p \in UpTo(l) PROVE p \in state  OBVIOUS
      <4>3. PICK w \in HostWriters : \E i \in 1..l[w] : p = <<w, i>>  BY <4>1, UpToMember
      <4>4. PICK i \in 1..l[w] : p = <<w, i>>  BY <4>3
      <4>5. l[w] \in Nat  BY <4>1 DEF Tips
      <4>6. i \in Nat  BY <4>4, <4>5
      <4>7. CASE w = OwnWriter
        <5>1. l[w] = commit.place  BY <4>1, <4>7 DEF Tips
        <5>2. refs \in Tips /\ refs[w] \in Nat /\ commit.place <= refs[w]
            BY <1>0, <4>7 DEF InstallsTyped, BehindRefs, Tips, HostWriters
        <5>3. i \in 1..refs[w]  BY <1>2, <4>4, <4>6, <5>1, <5>2
        <5> QED BY <3>2, <4>4, <4>6, <5>2, <5>3, UpToMember
      <4>8. CASE w # OwnWriter
        <5>1. l[w] = k[w]  BY <4>1, <4>8 DEF Tips
        <5> QED BY <4>1, <4>2, <4>4, <4>6, <5>1, UpToMember
      <4> QED BY <4>7, <4>8
    <3> QED BY <1>1, <1>6, <1>10, <2>1, <3>2, <3>3 DEF HoldsRefs
  <2> QED BY <2>3, <2>5, <2>6
<1> QED BY <1>1, <1>8, <1>9, <1>11 DEF InstallsInv

(* What makes a host disorderly, or only its cache dirty. *)
LEMMA CommitOthersKeep ==
  ASSUME InstallsInv, CommitFails \/ StrandWrites \/ Join PROVE InstallsInv'
<1>0. InstallsTyped /\ BehindRefs  BY DEF InstallsInv
<1>1. CASE CommitFails
  <2>1. commit' \in CommitType /\ commit'.pc = "idle"
      BY <1>1 DEF CommitFails, NoCommit, CommitType
  <2>2. UNCHANGED <<refs, peer, states, cache, read, apply, subs, steady>> /\ orderly' = FALSE
      BY <1>1 DEF CommitFails
  <2>3. InstallsTyped' /\ BehindRefs'  BY <1>0, <2>1, <2>2 DEF InstallsTyped, BehindRefs
  <2> QED BY <2>2, <2>3 DEF InstallsInv
<1>2. CASE StrandWrites
  <2>1. UNCHANGED <<refs, peer, states, commit, read, apply, subs, steady>>
        /\ orderly' = (orderly /\ Quiet) /\ cache' = [cache EXCEPT !.dirty = TRUE]
      BY <1>2 DEF StrandWrites
  <2>2. cache' \in CacheType /\ cache'.at = cache.at /\ cache'.notified = cache.notified
        /\ cache'.last = cache.last
      BY <1>0, <2>1 DEF InstallsTyped, CacheType
  <2>3. InstallsTyped' /\ BehindRefs'  BY <1>0, <2>1, <2>2 DEF InstallsTyped, BehindRefs
  <2>4. Cached' = Cached  BY <2>1, <2>2 DEF Cached
  <2>5. ASSUME orderly' PROVE OneCall' /\ Told' /\ (steady => HoldsRefs')
    <3>1. orderly /\ read.pc = "idle" /\ apply.pc = "idle" /\ commit.pc = "idle"
        BY <2>1, <2>5, StartsQuiet
    <3>2. OneCall'  BY <2>1, <3>1 DEF OneCall
    <3>3. Told'  BY <2>1, <2>2, <2>4, <3>1 DEF InstallsInv, Told
    <3>4. steady => HoldsRefs'  BY <2>1, <2>2, <2>4, <3>1 DEF InstallsInv, HoldsRefs
    <3> QED BY <3>2, <3>3, <3>4
  <2> QED BY <2>1, <2>3, <2>5 DEF InstallsInv
<1>3. CASE Join
  <2> DEFINE S == Cached \cup UpTo(peer)
             m == Len(states) + 1
  <2>1. UNCHANGED <<refs, peer, commit, read, apply, subs, steady>> /\ orderly' = FALSE
        /\ states' = Append(states, S) /\ cache' = [cache EXCEPT !.at = m, !.dirty = FALSE]
      BY <1>3 DEF Join
  <2>2. S \in HostState
    <3>1. UpTo(peer) \in HostState  BY <1>0, UpToMember DEF InstallsTyped
    <3> QED BY <1>0, <3>1, CachedTyped DEF HostState
  <2> HIDE DEF S
  <2>3. states \in Seq(HostState) /\ m \in Nat  BY <1>0 DEF InstallsTyped
  <2>4. states' \in Seq(HostState) /\ Len(states') = m /\ DOMAIN states \subseteq DOMAIN states'
      BY <2>1, <2>2, <2>3
  <2> HIDE DEF m
  <2>5. cache' \in CacheType /\ cache'.at = m  BY <1>0, <2>1, <2>3 DEF InstallsTyped, CacheType
  <2>6. InstallsTyped' /\ BehindRefs'
      BY <1>0, <2>1, <2>3, <2>4, <2>5 DEF InstallsTyped, BehindRefs
  <2> QED BY <2>1, <2>6 DEF InstallsInv
<1> QED BY <1>1, <1>2, <1>3

-----------------------------------------------------------------------------
(* Materializations *)

LEMMA ReadBegins ==
  ASSUME refs \in Tips, read' = [NoRead EXCEPT !.pc = "reading", !.tips = refs]
  PROVE  read' \in ReadType /\ read'.pc = "reading" /\ read'.tips = refs
BY DEF NoRead, ReadType, NoTips, Tips

LEMMA MaterializeKeeps ==
  ASSUME InstallsInv, Materialize PROVE InstallsInv'
<1>0. InstallsTyped /\ BehindRefs /\ refs \in Tips  BY DEF InstallsInv, InstallsTyped
<1>1. UNCHANGED <<refs, peer, states, cache, commit, apply, subs>>
      /\ orderly' = (orderly /\ Quiet)
      /\ read' = [NoRead EXCEPT !.pc = "reading", !.tips = refs]
    BY DEF Materialize, Reads
<1>2. read' \in ReadType /\ read'.pc = "reading" /\ read'.tips = refs
    BY <1>0, <1>1, ReadBegins
<1>3. InstallsTyped' /\ BehindRefs'  BY <1>0, <1>1, <1>2 DEF InstallsTyped, BehindRefs
<1>4. Cached' = Cached  BY <1>1 DEF Cached
<1>5. ASSUME orderly' PROVE OneCall' /\ Told' /\ HoldsRefs'
  <2>1. orderly /\ read.pc = "idle" /\ apply.pc = "idle" /\ commit.pc = "idle"
      BY <1>1, <1>5, StartsQuiet
  <2>2. OneCall'  BY <1>1, <1>2, <2>1 DEF OneCall
  <2>3. Told'  BY <1>1, <1>2, <1>4, <2>1 DEF InstallsInv, Told
  <2>4. HoldsRefs'  BY <1>1, <1>2, <2>1 DEF HoldsRefs
  <2> QED BY <2>2, <2>3, <2>4
<1> QED BY <1>3, <1>5 DEF InstallsInv

LEMMA ReadInstallsKeeps ==
  ASSUME InstallsInv, ReadInstalls PROVE InstallsInv'
<1> DEFINE S == UpTo(read.tips)
           m == Len(states) + 1
<1>0. InstallsTyped /\ BehindRefs /\ read.pc = "reading" /\ read \in ReadType /\ cache \in CacheType
    BY DEF InstallsInv, InstallsTyped, ReadInstalls
<1>1. UNCHANGED <<refs, peer, commit, apply, subs, orderly, steady>>
      /\ states' = Append(states, S) /\ cache' = [cache EXCEPT !.at = m, !.dirty = FALSE]
      /\ read' = [read EXCEPT !.pc = "installed", !.state = m]
    BY DEF ReadInstalls
<1>2. S \in HostState  BY <1>0, UpToMember DEF ReadType
<1>3. states \in Seq(HostState) /\ m \in Nat /\ m # 0  BY <1>0 DEF InstallsTyped
<1> HIDE DEF S
<1>4. states' \in Seq(HostState) /\ Len(states') = m /\ DOMAIN states \subseteq DOMAIN states'
      /\ m \in DOMAIN states' /\ states'[m] = S
    BY <1>1, <1>2, <1>3
<1> HIDE DEF m
<1>5. cache' \in CacheType /\ cache'.at = m /\ cache'.last = cache.last
      /\ cache'.notified = cache.notified
    BY <1>0, <1>1, <1>3 DEF CacheType
<1>6. read' \in ReadType /\ read'.pc = "installed" /\ read'.state = m
    BY <1>0, <1>1, <1>3 DEF ReadType
<1>7. InstallsTyped' /\ BehindRefs'
    BY <1>0, <1>1, <1>3, <1>4, <1>5, <1>6 DEF InstallsTyped, BehindRefs
<1>8. Cached' = S  BY <1>3, <1>4, <1>5 DEF Cached
<1>9. ASSUME orderly PROVE OneCall' /\ Told' /\ (steady => HoldsRefs')
  <2>1. commit.pc = "idle" /\ apply.pc \in {"idle", "materializing"}
      BY <1>0, <1>9 DEF InstallsInv, InstallsTyped, CommitType, OneCall
  <2>2. OneCall'  BY <1>1, <1>3, <1>5, <1>6, <2>1 DEF OneCall
  <2>3. cache.notified = Cached  BY <1>0, <1>9, <2>1 DEF InstallsInv, Told
  <2>4. Told'  BY <1>1, <1>5, <1>6, <1>9, <2>3 DEF InstallsInv, Told
  <2>5. ASSUME steady PROVE HoldsRefs'
    <3>1. read.tips = refs  BY <1>0, <1>9, <2>5 DEF InstallsInv, HoldsRefs
    <3>2. UpTo(refs) \subseteq Cached'  BY <1>8, <3>1 DEF S
    <3> QED BY <1>1, <1>6, <2>1, <3>2 DEF HoldsRefs
  <2> QED BY <2>2, <2>4, <2>5
<1> QED BY <1>1, <1>7, <1>9 DEF InstallsInv

LEMMA ReadFrontierKeeps ==
  ASSUME InstallsInv, ReadFrontier PROVE InstallsInv'
<1>0. InstallsTyped /\ BehindRefs /\ read.pc = "installed" /\ read \in ReadType
      /\ cache \in CacheType /\ refs \in Tips /\ read.state \in DOMAIN states
    BY DEF InstallsInv, InstallsTyped, ReadFrontier
<1>1. UNCHANGED <<refs, peer, states, commit, apply, subs, orderly, steady>>
      /\ cache' = [cache EXCEPT !.last = refs] /\ read' = [read EXCEPT !.pc = "framed"]
    BY DEF ReadFrontier
<1>2. cache' \in CacheType /\ cache'.at = cache.at /\ cache'.last = refs
      /\ cache'.notified = cache.notified
    BY <1>0, <1>1 DEF CacheType
<1>3. read' \in ReadType /\ read'.pc = "framed" /\ read'.state = read.state
    BY <1>0, <1>1 DEF ReadType
<1>4. InstallsTyped' /\ BehindRefs'
    BY <1>0, <1>1, <1>2, <1>3 DEF InstallsTyped, BehindRefs
<1>5. Cached' = Cached  BY <1>1, <1>2 DEF Cached
<1>6. ASSUME orderly PROVE OneCall' /\ Told' /\ (steady => HoldsRefs')
  <2>1. commit.pc = "idle" /\ apply.pc \in {"idle", "materializing"} /\ read.state = cache.at
      BY <1>0, <1>6 DEF InstallsInv, InstallsTyped, CommitType, OneCall
  <2>2. cache.at # 0  BY <1>0, <2>1 DEF InstallsTyped
  <2>3. OneCall'  BY <1>1, <1>2, <1>3, <2>1, <2>2 DEF OneCall
  <2>4. Told'  BY <1>1, <1>2, <1>3, <1>5, <1>6 DEF InstallsInv, Told
  <2>5. ASSUME steady PROVE HoldsRefs'
    <3>1. UpTo(refs) \subseteq Cached  BY <1>0, <1>6, <2>2, <2>5 DEF InstallsInv, HoldsRefs
    <3> QED BY <1>1, <1>2, <1>3, <1>5, <2>1, <3>1 DEF HoldsRefs
  <2> QED BY <2>3, <2>4, <2>5
<1> QED BY <1>1, <1>4, <1>6 DEF InstallsInv

LEMMA ReadNotifiesKeeps ==
  ASSUME InstallsInv, NEW gc \in BOOLEAN, ReadNotifies(gc) PROVE InstallsInv'
<1> DEFINE state == states[read.state]
           m == Len(states) + 1
           c == IF gc THEN [cache EXCEPT !.at = m] ELSE cache
<1>0. InstallsTyped /\ BehindRefs /\ read.pc = "framed" /\ cache \in CacheType
      /\ read.state \in DOMAIN states /\ states \in Seq(HostState)
      /\ subs \in [Subscribers -> SubscriberType]
    BY DEF InstallsInv, InstallsTyped, ReadNotifies
<1>1. UNCHANGED <<refs, peer, commit, apply, orderly, steady>>
      /\ states' = (IF gc THEN Append(states, state) ELSE states)
      /\ Notified(state, c) /\ read' = NoRead
    BY DEF ReadNotifies
<1>2. state \in HostState /\ m \in Nat /\ m # 0  BY <1>0
<1> HIDE DEF state
<1>3. /\ states' \in Seq(HostState)
      /\ DOMAIN states \subseteq DOMAIN states'
      /\ gc => (Len(states') = m /\ states'[m] = state)
      /\ ~gc => states' = states
  <2>1. CASE gc
    <3>1. states' = Append(states, state)  BY <1>1, <2>1
    <3> QED BY <1>0, <1>2, <2>1, <3>1
  <2>2. CASE ~gc  BY <1>0, <1>1, <2>2
  <2> QED BY <2>1, <2>2
<1> HIDE DEF m
<1>4. /\ c \in CacheType /\ c.last = cache.last /\ c.notified = cache.notified
      /\ gc => c.at = m
      /\ ~gc => c.at = cache.at
  <2>1. [cache EXCEPT !.at = m] \in CacheType /\ [cache EXCEPT !.at = m].at = m
        /\ [cache EXCEPT !.at = m].last = cache.last
        /\ [cache EXCEPT !.at = m].notified = cache.notified
      BY <1>0, <1>2 DEF CacheType
  <2>2. CASE gc  BY <2>1, <2>2
  <2>3. CASE ~gc  BY <1>0, <2>3
  <2> QED BY <2>2, <2>3
<1> HIDE DEF c
<1>5. /\ subs' \in [Subscribers -> SubscriberType]
      /\ cache' \in CacheType /\ cache'.notified = state
      /\ cache'.at = c.at /\ cache'.last = cache.last
      /\ \A s \in Subscribers :
           /\ subs'[s].pc = "on" => subs[s].pc # "absent"
           /\ subs[s].pc = "pending" => subs'[s].copy = state
           /\ subs[s].pc = "on" /\ (subs[s].copy = cache.notified \/ subs[s].copy = state) =>
                subs'[s].copy = state
    BY <1>0, <1>1, <1>2, <1>4, NotifiedEffect
<1>6. read' \in ReadType /\ read'.pc = "idle"
    BY <1>1 DEF NoRead, NoTips, ReadType, Tips
<1>7. cache'.at <= Len(states')
  <2>1. CASE gc
    <3>1. cache'.at = m /\ Len(states') = m  BY <1>3, <1>4, <1>5, <2>1
    <3> QED BY <1>2, <3>1
  <2>2. CASE ~gc  BY <1>0, <1>3, <1>4, <1>5, <2>2 DEF InstallsTyped
  <2> QED BY <2>1, <2>2
<1>8. InstallsTyped' /\ BehindRefs'
    BY <1>0, <1>1, <1>3, <1>5, <1>6, <1>7 DEF InstallsTyped, BehindRefs
<1>9. ASSUME orderly PROVE OneCall' /\ Told' /\ (steady => HoldsRefs')
  <2>1. commit.pc = "idle" /\ apply.pc \in {"idle", "materializing"} /\ read.state = cache.at
      BY <1>0, <1>9 DEF InstallsInv, InstallsTyped, CommitType, OneCall
  <2>2. cache.at # 0  BY <1>0, <2>1
  <2>3. Cached = state /\ Cached' = state /\ cache'.at # 0
    <3>1. Cached = state  BY <2>1, <2>2 DEF Cached, state
    <3>2. CASE gc
      <4>1. cache'.at = m /\ states'[m] = state  BY <1>3, <1>4, <1>5, <3>2
      <4> QED BY <1>2, <3>1, <4>1 DEF Cached
    <3>3. CASE ~gc
      <4>1. cache'.at = cache.at /\ states' = states  BY <1>3, <1>4, <1>5, <3>3
      <4> QED BY <2>2, <3>1, <4>1 DEF Cached
    <3> QED BY <3>1, <3>2, <3>3
  <2>4. OneCall'  BY <1>1, <1>6, <2>1, <2>3 DEF OneCall
  <2>5. \A s \in Subscribers : subs'[s].pc = "on" => subs'[s].copy = state
    <3> SUFFICES ASSUME NEW s \in Subscribers, subs'[s].pc = "on" PROVE subs'[s].copy = state
        OBVIOUS
    <3>1. subs[s].pc \in {"pending", "on"}  BY <1>0, <1>5 DEF SubscriberType
    <3> QED BY <1>5, <1>9, <2>3, <3>1 DEF InstallsInv, Told
  <2>6. Told'  BY <1>5, <2>3, <2>5 DEF Told
  <2>7. ASSUME steady PROVE HoldsRefs'
    <3>1. HoldsRefs  BY <1>9, <2>7 DEF InstallsInv
    <3>2. UpTo(refs) \subseteq state /\ (cache.last # Null => UpTo(cache.last) \subseteq state)
        BY <1>0, <2>2, <2>3, <3>1 DEF HoldsRefs
    <3> QED BY <1>1, <1>5, <1>6, <2>1, <2>3, <3>2 DEF HoldsRefs
  <2> QED BY <2>4, <2>6, <2>7
<1> QED BY <1>1, <1>8, <1>9 DEF InstallsInv

-----------------------------------------------------------------------------
(* Sync responses *)

(* A call of syncWith goes on and has not put anything into the cache. *)
LEMMA ApplyKeeps ==
  ASSUME InstallsInv, UNCHANGED <<refs, peer, states, cache, commit, read, subs, steady>>,
         apply' \in ApplyType,
         apply'.pc \in {"materializing", "gated"} => Answer(apply'),
         apply'.pc = "idle" \/ apply'.tips = refs \/ (apply.pc # "idle" /\ apply'.tips = apply.tips),
         orderly' => /\ orderly
                     /\ apply'.pc # "idle" => commit.pc = "idle" /\ read.pc = "idle"
                     /\ apply'.pc # "idle" /\ apply'.pc # "asked" => cache.at # 0
                     /\ steady /\ apply'.pc = "hashing" =>
                          UpTo(apply'.last) \cup Cached \subseteq apply'.result
  PROVE  InstallsInv'
<1>0. InstallsTyped /\ BehindRefs  BY DEF InstallsInv
<1>1. InstallsTyped'
  <2>1. apply'.pc \in {"materializing", "gated"} => Answer(apply)'  BY DEF Answer
  <2> QED BY <1>0, <2>1 DEF InstallsTyped
<1>2. BehindRefs'
  <2>1. \A w \in HostWriters : refs[w] <= refs[w]  BY <1>0 DEF InstallsTyped, Tips
  <2> QED BY <1>0, <2>1 DEF BehindRefs
<1>3. Cached' = Cached  BY DEF Cached
<1>4. orderly' => OneCall'  BY DEF InstallsInv, OneCall
<1>5. orderly' => Told'  BY <1>3 DEF InstallsInv, Told
<1>6. orderly' /\ steady' => HoldsRefs'  BY <1>3 DEF InstallsInv, HoldsRefs
<1> QED BY <1>1, <1>2, <1>4, <1>5, <1>6 DEF InstallsInv

LEMMA NoApplyTyped == NoApply \in ApplyType /\ NoApply.pc = "idle"
BY DEF NoApply, ApplyType, NoTips, Tips, HostState

LEMMA SyncAsksKeeps ==
  ASSUME InstallsInv, SyncAsks PROVE InstallsInv'
<1>0. refs \in Tips  BY DEF InstallsInv, InstallsTyped
<1>1. UNCHANGED <<refs, peer, states, cache, commit, read, subs, steady>>
      /\ apply' = [NoApply EXCEPT !.pc = "asked", !.tips = refs]
      /\ orderly' = (orderly /\ Quiet)
    BY DEF SyncAsks
<1>2. apply' \in ApplyType /\ apply'.pc = "asked" /\ apply'.tips = refs
    BY <1>0, <1>1, NoApplyTyped DEF ApplyType
<1>3. orderly' => orderly /\ commit.pc = "idle" /\ read.pc = "idle"  BY <1>1, StartsQuiet
<1> QED BY <1>1, <1>2, <1>3, ApplyKeeps

LEMMA SyncAnsweredKeeps ==
  ASSUME InstallsInv, NEW materialize \in BOOLEAN, SyncAnswered(materialize) PROVE InstallsInv'
<1> DEFINE P == UpTo(peer) \ UpTo(apply.tips)
<1>0. InstallsTyped /\ BehindRefs /\ apply.pc = "asked" /\ apply \in ApplyType /\ peer \in Tips
      /\ refs \in Tips
    BY DEF InstallsInv, InstallsTyped, SyncAnswered
<1>1. UNCHANGED <<refs, peer, states, cache, commit, subs, orderly>>  BY DEF SyncAnswered
<1>2. P \in HostState  BY <1>0, UpToMember DEF ApplyType, HostState
<1>3. orderly => commit.pc = "idle" /\ read.pc = "idle"
    BY <1>0 DEF InstallsInv, InstallsTyped, CommitType, ReadType, OneCall
<1>4. CASE cache.at = 0 /\ ~materialize
  <2>1. apply' = NoApply /\ UNCHANGED <<read, steady>>  BY <1>4 DEF SyncAnswered
  <2> QED BY <1>1, <2>1, NoApplyTyped, ApplyKeeps
<1>5. ASSUME NEW x \in {"materializing", "gated"},
             apply' = [apply EXCEPT !.pc = x, !.patches = P]
      PROVE  apply' \in ApplyType /\ apply'.pc = x /\ apply'.tips = apply.tips /\ Answer(apply')
  <2> HIDE DEF P
  <2>1. apply' \in ApplyType /\ apply'.pc = x /\ apply'.tips = apply.tips /\ apply'.patches = P
      BY <1>0, <1>2, <1>5 DEF ApplyType
  <2>2. apply'.patches = UpTo(peer) \ UpTo(apply'.tips)  BY <2>1 DEF P
  <2> QED BY <1>0, <2>1, <2>2 DEF Answer
<1>6. CASE cache.at # 0
  <2>1. apply' = [apply EXCEPT !.pc = "gated", !.patches = P] /\ UNCHANGED <<read, steady>>
      BY <1>6 DEF SyncAnswered
  <2>2. apply' \in ApplyType /\ apply'.pc = "gated" /\ apply'.tips = apply.tips /\ Answer(apply')
      BY <1>5, <2>1
  <2> QED BY <1>0, <1>1, <1>3, <1>6, <2>1, <2>2, ApplyKeeps
<1>7. CASE cache.at = 0 /\ materialize
  <2>1. apply' = [apply EXCEPT !.pc = "materializing", !.patches = P]  BY <1>7 DEF SyncAnswered
  <2>2. /\ apply' \in ApplyType /\ apply'.pc = "materializing" /\ apply'.tips = apply.tips
        /\ Answer(apply)'
      BY <1>5, <2>1 DEF Answer
  <2>3. Cached' = Cached  BY <1>1 DEF Cached
  <2>4. CASE read.pc = "idle"
    <3>1. read' = [NoRead EXCEPT !.pc = "reading", !.tips = refs]
        BY <1>7, <2>4 DEF SyncAnswered, Reads
    <3>2. read' \in ReadType /\ read'.pc = "reading" /\ read'.tips = refs
        BY <1>0, <3>1, ReadBegins
    <3>3. InstallsTyped' /\ BehindRefs'
        BY <1>0, <1>1, <2>2, <3>2 DEF InstallsTyped, BehindRefs
    <3>4. ASSUME orderly PROVE OneCall' /\ Told' /\ HoldsRefs'
      <4>1. OneCall'  BY <1>1, <1>3, <2>2, <3>2, <3>4 DEF OneCall
      <4>2. Told'  BY <1>1, <1>3, <2>3, <2>4, <3>2, <3>4 DEF InstallsInv, Told
      <4>3. HoldsRefs'  BY <1>1, <2>2, <3>2 DEF HoldsRefs
      <4> QED BY <4>1, <4>2, <4>3
    <3> QED BY <1>1, <3>3, <3>4 DEF InstallsInv
  <2>5. CASE read.pc # "idle"
    <3>1. UNCHANGED <<read, steady>>  BY <1>7, <2>5 DEF SyncAnswered
    <3>2. InstallsTyped' /\ BehindRefs'
        BY <1>0, <1>1, <2>2, <3>1 DEF InstallsTyped, BehindRefs
    <3> QED BY <1>1, <1>3, <2>5, <3>2 DEF InstallsInv
  <2> QED BY <2>4, <2>5
<1> QED BY <1>4, <1>6, <1>7

LEMMA SyncMaterializedKeeps ==
  ASSUME InstallsInv, SyncMaterialized PROVE InstallsInv'
<1>0. InstallsTyped /\ apply.pc = "materializing" /\ read.pc = "idle" /\ apply \in ApplyType
      /\ Answer(apply)
    BY DEF InstallsInv, InstallsTyped, SyncMaterialized
<1>1. UNCHANGED <<refs, peer, states, cache, commit, read, subs, orderly, steady>>
      /\ apply' = [apply EXCEPT !.pc = "gated"]
    BY DEF SyncMaterialized
<1>2. apply' \in ApplyType /\ apply'.pc = "gated" /\ apply'.tips = apply.tips
      /\ apply'.patches = apply.patches
    BY <1>0, <1>1 DEF ApplyType
<1>3. Answer(apply')  BY <1>0, <1>2 DEF Answer
<1>4. orderly => commit.pc = "idle" /\ cache.at # 0
    BY <1>0 DEF InstallsInv, InstallsTyped, CommitType, OneCall
<1> QED BY <1>0, <1>1, <1>2, <1>3, <1>4, ApplyKeeps

LEMMA SyncAppliesKeeps ==
  ASSUME InstallsInv, NEW trusted \in BOOLEAN, SyncApplies(trusted) PROVE InstallsInv'
<1> DEFINE P == apply.patches
           R == Cached \cup P
           L == FrontierWith(cache.last, P)
<1>0. InstallsTyped /\ BehindRefs /\ apply.pc = "gated" /\ apply \in ApplyType /\ Answer(apply)
      /\ refs \in Tips /\ cache \in CacheType
    BY DEF InstallsInv, InstallsTyped, SyncApplies
<1>1. UNCHANGED <<refs, peer, states, cache, commit, read, subs, orderly, steady>>
    BY DEF SyncApplies
<1>2. PICK q \in Tips : P = UpTo(q) \ UpTo(apply.tips)  BY <1>0 DEF Answer
<1>3. apply.tips \in Tips /\ P \in HostState /\ cache.last \in Tips \cup {Null}
    BY <1>0 DEF ApplyType, CacheType
<1>4. orderly => commit.pc = "idle" /\ read.pc = "idle" /\ cache.at # 0
    BY <1>0 DEF InstallsInv, InstallsTyped, CommitType, ReadType, OneCall
<1>5. CASE apply' = NoApply  BY <1>1, <1>5, NoApplyTyped, ApplyKeeps
<1>6. CASE apply' = [apply EXCEPT !.pc = "hashing", !.result = R, !.last = L]
  <2>1. L \in Tips  BY <1>2, <1>3, FrontierTyped
  <2>2. R \in HostState  BY <1>0, <1>3, CachedTyped DEF HostState
  <2>3. ASSUME orderly, steady PROVE UpTo(L) \cup Cached \subseteq R
    <3>1. HoldsRefs  BY <2>3 DEF InstallsInv
    <3>2. UpTo(refs) \subseteq Cached /\ (cache.last # Null => UpTo(cache.last) \subseteq Cached)
        BY <1>4, <2>3, <3>1 DEF HoldsRefs
    <3>3. UpTo(apply.tips) \subseteq UpTo(refs)  BY <1>0, <1>3, UpToGrows DEF BehindRefs
    <3>4. PICK C, a, t, k : C = Cached /\ a = P /\ t = apply.tips /\ k = cache.last  OBVIOUS
    <3>5. UpTo(t) \subseteq C  BY <3>2, <3>3, <3>4
    <3>6. UpTo(FrontierWith(k, a)) \subseteq C \cup a
        BY <1>2, <1>3, <3>2, <3>4, <3>5, FrontierCovered
    <3> QED BY <3>4, <3>6
  <2> HIDE DEF L, R
  <2>4. apply' \in ApplyType /\ apply'.pc = "hashing" /\ apply'.tips = apply.tips
        /\ apply'.result = R /\ apply'.last = L
      BY <1>0, <1>6, <2>1, <2>2 DEF ApplyType
  <2> QED BY <1>0, <1>1, <1>4, <2>3, <2>4, ApplyKeeps
<1> QED BY <1>5, <1>6 DEF SyncApplies

LEMMA SyncFailsKeeps ==
  ASSUME InstallsInv, SyncFails PROVE InstallsInv'
<1>1. UNCHANGED <<refs, peer, states, cache, commit, read, subs, orderly, steady>>
      /\ apply' = NoApply
    BY DEF SyncFails
<1> QED BY <1>1, NoApplyTyped, ApplyKeeps

LEMMA SyncInstallsKeeps ==
  ASSUME InstallsInv, SyncInstalls PROVE InstallsInv'
<1> DEFINE state == apply.result
           m == Len(states) + 1
           c == [cache EXCEPT !.at = m, !.dirty = FALSE, !.last = apply.last]
<1>0. InstallsTyped /\ BehindRefs /\ apply.pc = "hashing" /\ cache \in CacheType
      /\ states \in Seq(HostState) /\ subs \in [Subscribers -> SubscriberType]
      /\ apply \in ApplyType
    BY DEF InstallsInv, InstallsTyped, SyncInstalls
<1>1. UNCHANGED <<refs, peer, commit, read, orderly, steady>>
      /\ states' = Append(states, state) /\ Notified(state, c) /\ apply' = NoApply
    BY DEF SyncInstalls
<1>2. state \in HostState /\ m \in Nat /\ m # 0 /\ apply.last \in Tips
    BY <1>0 DEF ApplyType
<1> HIDE DEF state
<1>3. states' \in Seq(HostState) /\ DOMAIN states \subseteq DOMAIN states'
      /\ Len(states') = m /\ states'[m] = state
    BY <1>0, <1>1, <1>2
<1> HIDE DEF m
<1>4. c \in CacheType /\ c.last = apply.last /\ c.notified = cache.notified /\ c.at = m
    BY <1>0, <1>2 DEF CacheType
<1> HIDE DEF c
<1>5. /\ subs' \in [Subscribers -> SubscriberType]
      /\ cache' \in CacheType /\ cache'.notified = state
      /\ cache'.at = m /\ cache'.last = apply.last
      /\ \A s \in Subscribers :
           /\ subs'[s].pc = "on" => subs[s].pc # "absent"
           /\ subs[s].pc = "pending" => subs'[s].copy = state
           /\ subs[s].pc = "on" /\ (subs[s].copy = cache.notified \/ subs[s].copy = state) =>
                subs'[s].copy = state
    BY <1>0, <1>1, <1>2, <1>4, NotifiedEffect
<1>6. apply' \in ApplyType /\ apply'.pc = "idle"  BY <1>1, NoApplyTyped
<1>7. InstallsTyped' /\ BehindRefs'
    BY <1>0, <1>1, <1>2, <1>3, <1>5, <1>6 DEF InstallsTyped, BehindRefs
<1>8. Cached' = state  BY <1>2, <1>3, <1>5 DEF Cached
<1>9. ASSUME orderly PROVE OneCall' /\ Told' /\ (steady => HoldsRefs')
  <2>1. commit.pc = "idle" /\ read.pc = "idle"
      BY <1>0, <1>9 DEF InstallsInv, InstallsTyped, CommitType, ReadType, OneCall
  <2>2. Told /\ cache.notified = Cached  BY <1>9, <2>1 DEF InstallsInv, Told
  <2>3. OneCall'  BY <1>1, <1>6, <2>1 DEF OneCall
  <2>4. \A s \in Subscribers : subs'[s].pc = "on" => subs'[s].copy = state
    <3> SUFFICES ASSUME NEW s \in Subscribers, subs'[s].pc = "on" PROVE subs'[s].copy = state
        OBVIOUS
    <3>1. subs[s].pc \in {"pending", "on"}  BY <1>0, <1>5 DEF SubscriberType
    <3> QED BY <1>5, <2>2, <3>1 DEF Told
  <2>5. Told'  BY <1>5, <1>8, <2>4 DEF Told
  <2>6. ASSUME steady PROVE HoldsRefs'
    <3>1. HoldsRefs /\ cache.at # 0  BY <1>0, <1>9, <2>6 DEF InstallsInv, OneCall
    <3>2. UpTo(refs) \subseteq Cached /\ UpTo(apply.last) \cup Cached \subseteq state
        BY <1>0, <2>1, <3>1 DEF HoldsRefs, state
    <3> QED BY <1>1, <1>5, <1>6, <1>8, <2>1, <3>2 DEF HoldsRefs
  <2> QED BY <2>3, <2>5, <2>6
<1> QED BY <1>1, <1>7, <1>9 DEF InstallsInv

-----------------------------------------------------------------------------

LEMMA InstallsStep == InstallsInv /\ [InstallsNext]_installVars => InstallsInv'
<1> SUFFICES ASSUME InstallsInv, [InstallsNext]_installVars PROVE InstallsInv'  OBVIOUS
<1>1. CASE HostStep
    BY <1>1, CommitInstallsKeeps, CommitOthersKeep, ReadInstallsKeeps, ReadFrontierKeeps,
       ReadNotifiesKeeps, SyncAnsweredKeeps, SyncAppliesKeeps, SyncMaterializedKeeps,
       SyncInstallsKeeps, SyncFailsKeeps DEF HostStep
<1>2. CASE ~HostStep
    BY <1>2, SubscribersKeep, CommitKeeps, CommitOthersKeep, MaterializeKeeps, SyncAsksKeeps,
       OthersKeepInstalls, RefMovesKeeps DEF InstallsNext
<1> QED BY <1>1, <1>2

(* With nothing in flight, the frontier that the host keeps beside a clean   *)
(* state names only patches of that state, whichever of a commit, a          *)
(* materialize and a sync response installed it last.                        *)
THEOREM KeptFrontierIsHeld == InstallsSpec => []FrontierIsHeld
<1>1. InstallsInv => FrontierIsHeld
    BY DEF InstallsInv, FrontierIsHeld, HoldsRefs, Quiet
<1> QED BY <1>1, InstallsInitially, InstallsStep, PTL DEF InstallsSpec

(* With nothing in flight, what a subscriber made of the differences it was  *)
(* sent is the state in the cache, whenever it subscribed and whatever       *)
(* replaced that state meanwhile.                                            *)
THEOREM SubscribersHaveTheState == InstallsSpec => []SubscribersFollow
<1>1. InstallsInv => SubscribersFollow
    BY DEF InstallsInv, SubscribersFollow, Told, Quiet
<1> QED BY <1>1, InstallsInitially, InstallsStep, PTL DEF InstallsSpec
=============================================================================
