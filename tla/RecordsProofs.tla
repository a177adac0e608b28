---------------------------- MODULE RecordsProofs ----------------------------
(***************************************************************************)
(* What holds of the ledgers a graph keeps beside its patches, for any     *)
(* number of processes, administrators, commits, retries and lost answers. *)
(*                                                                         *)
(*   audit  one receipt for each commit, on one chain (ReceiptsChained);   *)
(*          the walk of the verifier accepts what commits that do not      *)
(*          overlap have written (HonestChains); every commit without a    *)
(*          receipt that the service has heard of is counted               *)
(*          (GapsCounted).  Linked, OneTip, Recorded                       *)
(*          and InTurn say what the previous receipt, the expected head    *)
(*          and a call in progress know of the chain;                      *)
(*   trust  a key whose revocation was reported is never trusted again     *)
(*          (RevocationsHold): the chain only grows, and the fold of       *)
(*          TrustStateBuilder, by induction over the records, never        *)
(*          forgets a revocation.                                          *)
(***************************************************************************)
EXTENDS AuditChain, TrustChain, TLAPS, FiniteSetTheorems, SequenceTheorems, WellFoundedInduction

-----------------------------------------------------------------------------
(* Induction over the naturals, for sets rather than for operators *)

LEMMA LeastNatural ==
    ASSUME NEW T \in SUBSET Nat, T # {}
    PROVE  \E x \in T : \A y \in T : x <= y
<1> DEFINE R == OpToRel(<, Nat)
<1>1. IsWellFoundedOn(R, Nat)
  BY NatLessThanWellFounded
<1>2. \A x, y \in Nat : <<x, y>> \in R <=> x < y
  BY DEF OpToRel
<1> HIDE DEF R
<1>3. PICK x \in T : \A y \in T : ~(<<y, x>> \in R)
  BY <1>1, WFMin
<1>4. x \in Nat /\ \A y \in T : y \in Nat
  OBVIOUS
<1>5. \A y \in T : ~(y < x)
  BY <1>2, <1>3, <1>4, Zenon
<1> QED
  BY <1>4, <1>5

LEMMA SetInduction ==
    ASSUME NEW S, 0 \in S, \A n \in Nat : n \in S => n + 1 \in S
    PROVE  Nat \subseteq S
<1> SUFFICES ASSUME Nat \ S # {} PROVE FALSE
  OBVIOUS
<1>1. PICK x \in Nat \ S : \A y \in Nat \ S : x <= y
  BY LeastNatural
<1>2. x # 0 /\ x - 1 \in Nat
  BY <1>1
<1>3. x - 1 \in S
  BY <1>1, <1>2
<1> QED
  BY <1>1, <1>2, <1>3

-----------------------------------------------------------------------------
(* One step of what follows a data commit *)

CallAction(n) ==
    \/ Hook(n) \/ HookFails(n) \/ CallAudit(n)
    \/ Build(n) \/ Append_(n) \/ Appended(n) \/ Conflict(n) \/ AppendFails(n)
    \/ ReadTip(n) \/ TakeTip(n)

\* Under way and without a receipt; under way.
Running == {"published", "install", "digest", "append", "tip", "fresh"}
Active == Running \cup {"landed"}

SameCounts(s, t) ==
    s.committed = t.committed /\ s.failed = t.failed /\ s.skipped = t.skipped
      /\ s.dirty = t.dirty

\* What holds of a call and its service before a step and after it.
OwnTip(c, s) == c.prev = c.expected /\ s.prev = s.expected

\* One of the counters of a commit without a receipt has gone up.
GapCounted(s, t) ==
    \/ SameCounts(s, [t EXCEPT !.failed = @ + 1])
    \/ SameCounts(s, [t EXCEPT !.skipped = @ + 1])
    \/ SameCounts(s, [t EXCEPT !.dirty = @ + 1])

\* What may become of commit n: it goes on, its receipt is published, the audit service
\* never hears of it, it ends and is counted as a gap, or it ends with its receipt.
CallOutcome(n, p) ==
    \/ /\ call[n].pc \in Running /\ call'[n].pc \in Running \cup {"lost"}
       /\ SameCounts(svc'[p], svc[p]) /\ UNCHANGED <<log, head>>
    \/ /\ call[n].pc = "append" /\ call'[n].pc = "landed"
       /\ SameCounts(svc'[p], svc[p]) /\ Publish(n)
    \/ /\ call'[n].pc = "done"
       /\ GapCounted(svc'[p], svc[p]) /\ UNCHANGED <<log, head>>
    \/ /\ call[n].pc = "landed" /\ call'[n].pc = "done"
       /\ SameCounts(svc'[p], [svc[p] EXCEPT !.committed = @ + 1])
       /\ UNCHANGED <<log, head>>

OneCallMoves(n, p) ==
    /\ call[n].pc \in Active
    /\ call' \in Seq(CallState) /\ Len(call') = Len(call)
    /\ \A m \in DOMAIN call : m # n => call'[m] = call[m]
    /\ call'[n].process = p
    /\ svc' \in [Processes -> ServiceState]
    /\ \A q \in Processes : q # p => svc'[q] = svc[q]
    /\ UNCHANGED <<data, restarts, overlapped>>
    /\ OwnTip(call[n], svc[p]) => OwnTip(call'[n], svc'[p])
    /\ CallOutcome(n, p)

\* The call ends and its failure is counted.
ThrownBy(n, p, s) ==
    /\ p \in Processes
    /\ call' \in Seq(CallState) /\ Len(call') = Len(call)
    /\ \A m \in DOMAIN call : m # n => call'[m] = call[m]
    /\ call'[n].pc = "done" /\ call'[n].process = p
    /\ call'[n].prev = call[n].prev /\ call'[n].expected = call[n].expected
    /\ svc' \in [Processes -> ServiceState]
    /\ SameCounts(svc'[p], [s EXCEPT !.failed = @ + 1])
    /\ svc'[p].prev = s.prev /\ svc'[p].expected = s.expected
    /\ \A q \in Processes : q # p => svc'[q] = svc[q]

LEMMA ThrowTyped ==
    ASSUME AuditTypeOK, NEW n \in DOMAIN call, NEW p, p = call[n].process,
           NEW s \in ServiceState, Throw(n, s)
    PROVE  ThrownBy(n, p, s)
<1> DEFINE c == [call[n] EXCEPT !.pc = "done"]
           f == [s EXCEPT !.failed = @ + 1]
<1>0. call[n] \in CallState
  BY DEF AuditTypeOK
<1>1. p \in Processes
  BY <1>0 DEF CallState
<1>2. c \in CallState /\ c.pc = "done" /\ c.process = p /\ c.prev = call[n].prev
      /\ c.expected = call[n].expected
  BY <1>0 DEF CallState
<1>3. f \in ServiceState /\ f.prev = s.prev /\ f.expected = s.expected
  BY DEF ServiceState
<1>4. PICK b \in BOOLEAN : b = (f.retrying /\ ~call[n].retry)
  OBVIOUS
<1>5. svc' = [svc EXCEPT ![p] = [f EXCEPT !.retrying = b]]
  BY <1>4 DEF Throw
<1> HIDE DEF f
<1>6. /\ [f EXCEPT !.retrying = b] \in ServiceState
      /\ SameCounts([f EXCEPT !.retrying = b], f)
      /\ [f EXCEPT !.retrying = b].prev = s.prev
      /\ [f EXCEPT !.retrying = b].expected = s.expected
  BY <1>3 DEF ServiceState, SameCounts
<1>7. call \in Seq(CallState) /\ svc \in [Processes -> ServiceState]
  BY DEF AuditTypeOK
<1>8. call' = [call EXCEPT ![n] = c]
  BY DEF Throw
<1> HIDE DEF c
<1>9. /\ call' \in Seq(CallState) /\ Len(call') = Len(call) /\ call'[n] = c
      /\ \A m \in DOMAIN call : m # n => call'[m] = call[m]
  BY <1>2, <1>7, <1>8
<1>10. /\ svc' \in [Processes -> ServiceState] /\ svc'[p] = [f EXCEPT !.retrying = b]
       /\ \A q \in Processes : q # p => svc'[q] = svc[q]
  BY <1>1, <1>5, <1>6, <1>7
<1> QED
  BY <1>1, <1>2, <1>6, <1>9, <1>10 DEF ThrownBy, f

\* Only the place of a call in the code changes.
LEMMA PcMoves ==
    ASSUME AuditTypeOK, NEW n \in DOMAIN call, NEW pc,
           pc \in {"install", "digest", "tip", "done", "lost"},
           call' = [call EXCEPT ![n].pc = pc]
    PROVE  /\ call' \in Seq(CallState) /\ Len(call') = Len(call)
           /\ \A m \in DOMAIN call : m # n => call'[m] = call[m]
           /\ call'[n].pc = pc /\ call'[n].process = call[n].process
           /\ call'[n].prev = call[n].prev /\ call'[n].expected = call[n].expected
<1> DEFINE c == [call[n] EXCEPT !.pc = pc]
<1>1. call[n] \in CallState /\ call \in Seq(CallState)
  BY DEF AuditTypeOK
<1>2. c \in CallState /\ c.pc = pc /\ c.process = call[n].process /\ c.prev = call[n].prev
      /\ c.expected = call[n].expected
  BY <1>1 DEF CallState
<1>3. call' = [call EXCEPT ![n] = c]
  OBVIOUS
<1> HIDE DEF c
<1> QED
  BY <1>1, <1>2, <1>3

\* One counter of one service goes up.
LEMMA CountMoves ==
    ASSUME AuditTypeOK, NEW p \in Processes,
           \/ svc' = [svc EXCEPT ![p].dirty = @ + 1]
           \/ svc' = [svc EXCEPT ![p].skipped = @ + 1]
    PROVE  /\ svc' \in [Processes -> ServiceState]
           /\ \A q \in Processes : q # p => svc'[q] = svc[q]
           /\ svc'[p].prev = svc[p].prev /\ svc'[p].expected = svc[p].expected
           /\ GapCounted(svc'[p], svc[p])
<1>1. svc \in [Processes -> ServiceState] /\ svc[p] \in ServiceState
  BY DEF AuditTypeOK
<1>2. PICK s : s \in {[svc[p] EXCEPT !.dirty = @ + 1], [svc[p] EXCEPT !.skipped = @ + 1]}
               /\ svc' = [svc EXCEPT ![p] = s]
  OBVIOUS
<1>3. s \in ServiceState /\ s.prev = svc[p].prev /\ s.expected = svc[p].expected
  BY <1>1, <1>2 DEF ServiceState
<1>4. GapCounted(s, svc[p])
  BY <1>2 DEF GapCounted, SameCounts
<1> QED
  BY <1>1, <1>2, <1>3, <1>4

LEMMA NextCases ==
    ASSUME AuditNext
    PROVE  \/ \E p \in Processes, skip \in 1..(MaxSkip + 1), own \in BOOLEAN :
                 Commit(p, LastTick + skip, own)
           \/ \E n \in DOMAIN call : CallAction(n)
           \/ \E p \in Processes : Restart(p)
BY Zenon DEF AuditNext, CallAction

LEMMA CallStep ==
    ASSUME AuditTypeOK, NEW n \in DOMAIN call, NEW p, p = call[n].process, CallAction(n)
    PROVE  OneCallMoves(n, p)
<1> USE DEF Running, Active
<1>1. /\ call[n] \in CallState /\ p \in Processes /\ svc[p] \in ServiceState
      /\ call \in Seq(CallState) /\ svc \in [Processes -> ServiceState]
      /\ head \in Nat
  <2>1. call[n] \in CallState /\ call \in Seq(CallState) /\ svc \in [Processes -> ServiceState]
        /\ head \in Nat
    BY DEF AuditTypeOK
  <2>2. p \in Processes
    BY <2>1 DEF CallState
  <2> QED
    BY <2>1, <2>2
<1>2. ASSUME Throw(n, svc[p]), call[n].pc \in Active, UNCHANGED <<data, restarts, overlapped>>,
             UNCHANGED <<log, head>>
      PROVE  OneCallMoves(n, p)
  <2>1. ThrownBy(n, p, svc[p])
    BY <1>1, <1>2, ThrowTyped
  <2> QED
    BY <1>2, <2>1 DEF OneCallMoves, CallOutcome, GapCounted, ThrownBy, OwnTip
<1>3. ASSUME NEW pc \in {"install", "digest", "tip", "lost"}, call[n].pc \in Running,
             call' = [call EXCEPT ![n].pc = pc], UNCHANGED <<svc, data, log, head, restarts, overlapped>>
      PROVE  OneCallMoves(n, p)
  <2>1. /\ call' \in Seq(CallState) /\ Len(call') = Len(call)
        /\ \A m \in DOMAIN call : m # n => call'[m] = call[m]
        /\ call'[n].pc = pc /\ call'[n].process = p
        /\ call'[n].prev = call[n].prev /\ call'[n].expected = call[n].expected
    BY <1>3, PcMoves
  <2> QED
    BY <1>1, <1>3, <2>1 DEF OneCallMoves, CallOutcome, OwnTip, SameCounts
<1>4. ASSUME call[n].pc \in Running, call' = [call EXCEPT ![n].pc = "done"],
             UNCHANGED <<data, log, head, restarts, overlapped>>,
             \/ svc' = [svc EXCEPT ![p].dirty = @ + 1]
             \/ svc' = [svc EXCEPT ![p].skipped = @ + 1]
      PROVE  OneCallMoves(n, p)
  <2>1. /\ call' \in Seq(CallState) /\ Len(call') = Len(call)
        /\ \A m \in DOMAIN call : m # n => call'[m] = call[m]
        /\ call'[n].pc = "done" /\ call'[n].process = p
        /\ call'[n].prev = call[n].prev /\ call'[n].expected = call[n].expected
    BY <1>4, PcMoves
  <2>2. /\ svc' \in [Processes -> ServiceState]
        /\ \A q \in Processes : q # p => svc'[q] = svc[q]
        /\ svc'[p].prev = svc[p].prev /\ svc'[p].expected = svc[p].expected
        /\ GapCounted(svc'[p], svc[p])
    BY <1>1, <1>4, CountMoves
  <2> QED
    BY <1>4, <2>1, <2>2 DEF OneCallMoves, CallOutcome, OwnTip
<1>5. CASE Hook(n)
  BY <1>3, <1>4, <1>5 DEF Hook
<1>6. CASE HookFails(n)
  BY <1>3, <1>6 DEF HookFails
<1>7. CASE CallAudit(n)
  BY <1>3, <1>4, <1>7 DEF CallAudit
<1>8. CASE Build(n)
  <2>1. CASE Throw(n, svc[p])
    BY <1>2, <1>8, <2>1 DEF Build
  <2>2. CASE ~Throw(n, svc[p])
    <3> DEFINE c == [call[n] EXCEPT !.pc = "append", !.prev = svc[p].prev,
                                    !.expected = svc[p].expected]
    <3>1. call' = [call EXCEPT ![n] = c] /\ UNCHANGED <<svc, data, log, head, restarts, overlapped>>
      BY <1>1, <1>8, <2>2 DEF Build
    <3>2. c \in CallState /\ c.pc = "append" /\ c.process = p
          /\ c.prev = svc[p].prev /\ c.expected = svc[p].expected
      BY <1>1 DEF CallState, ServiceState
    <3>3. /\ call' \in Seq(CallState) /\ Len(call') = Len(call) /\ call'[n] = c
          /\ \A m \in DOMAIN call : m # n => call'[m] = call[m]
      BY <1>1, <3>1, <3>2
    <3> QED
      BY <1>1, <1>8, <3>1, <3>2, <3>3
         DEF OneCallMoves, CallOutcome, OwnTip, SameCounts, Build
  <2> QED
    BY <2>1, <2>2
<1>9. CASE Append_(n)
  <2>1. PICK h \in Nat : h = head'
    BY <1>9 DEF Append_, Publish, AuditTypeOK
  <2> DEFINE c == [call[n] EXCEPT !.pc = "landed", !.prev = h, !.expected = h]
  <2>2. call' = [call EXCEPT ![n] = c] /\ UNCHANGED <<svc, data, restarts, overlapped>>
    BY <1>1, <1>9, <2>1 DEF Append_
  <2>3. c \in CallState /\ c.pc = "landed" /\ c.process = p /\ c.prev = c.expected
    BY <1>1 DEF CallState
  <2>4. /\ call' \in Seq(CallState) /\ Len(call') = Len(call) /\ call'[n] = c
        /\ \A m \in DOMAIN call : m # n => call'[m] = call[m]
    BY <1>1, <2>2, <2>3
  <2> HIDE DEF c
  <2> QED
    BY <1>1, <1>9, <2>2, <2>3, <2>4 DEF OneCallMoves, CallOutcome, OwnTip, SameCounts, Append_
<1>10. CASE Appended(n)
  <2>1. PICK h \in Nat, e \in Nat : h = call[n].prev /\ e = call[n].expected
    BY <1>1 DEF CallState
  <2> DEFINE t == [svc[p] EXCEPT !.prev = h, !.expected = e, !.committed = @ + 1]
             u == [svc[p] EXCEPT !.committed = @ + 1]
  <2>2. PICK b \in BOOLEAN : b = (t.retrying /\ ~call[n].retry)
    OBVIOUS
  <2> DEFINE s == [t EXCEPT !.retrying = b]
  <2>3. svc' = [svc EXCEPT ![p] = s] /\ call' = [call EXCEPT ![n].pc = "done"]
        /\ UNCHANGED <<data, log, head, restarts, overlapped>>
    BY <1>1, <1>10, <2>1, <2>2 DEF Appended
  <2>4. t \in ServiceState /\ t.prev = h /\ t.expected = e /\ SameCounts(t, u)
    <3>1. [svc[p] EXCEPT !.prev = h, !.expected = e] \in ServiceState
      BY <1>1 DEF ServiceState
    <3>2. \A v \in ServiceState : [v EXCEPT !.committed = @ + 1] \in ServiceState
      BY DEF ServiceState
    <3>3. t.prev = h /\ t.expected = e
      BY <1>1 DEF ServiceState
    <3>4. t.committed = u.committed /\ t.failed = u.failed
      BY <1>1 DEF ServiceState
    <3>5. t.skipped = u.skipped /\ t.dirty = u.dirty
      BY <1>1 DEF ServiceState
    <3> QED
      BY <3>1, <3>2, <3>3, <3>4, <3>5 DEF SameCounts
  <2> HIDE DEF t, u
  <2>5. s \in ServiceState /\ s.prev = h /\ s.expected = e /\ SameCounts(s, u)
    BY <2>4 DEF ServiceState, SameCounts
  <2>6. svc' \in [Processes -> ServiceState] /\ svc'[p] = s
        /\ \A q \in Processes : q # p => svc'[q] = svc[q]
    BY <1>1, <2>3, <2>5
  <2> HIDE DEF s
  <2>7. /\ call' \in Seq(CallState) /\ Len(call') = Len(call)
        /\ \A m \in DOMAIN call : m # n => call'[m] = call[m]
        /\ call'[n].pc = "done" /\ call'[n].process = p
        /\ call'[n].prev = call[n].prev /\ call'[n].expected = call[n].expected
    BY <2>3, PcMoves
  <2> QED
    BY <1>10, <2>1, <2>3, <2>5, <2>6, <2>7 DEF OneCallMoves, CallOutcome, OwnTip, Appended, u
<1>11. CASE Conflict(n)
  <2>1. CASE call' = [call EXCEPT ![n].pc = "tip"] /\ UNCHANGED svc
    BY <1>3, <1>11, <2>1 DEF Conflict
  <2>2. CASE Throw(n, [svc[p] EXCEPT !.degraded = @ \/ call[n].retry])
    <3> DEFINE s == [svc[p] EXCEPT !.degraded = @ \/ call[n].retry]
    <3>1. s \in ServiceState /\ SameCounts(s, svc[p]) /\ s.prev = svc[p].prev
          /\ s.expected = svc[p].expected
      BY <1>1 DEF ServiceState, CallState, SameCounts
    <3> HIDE DEF s
    <3>2. ThrownBy(n, p, s)
      <4>1. Throw(n, s)
        BY <2>2 DEF s
      <4> QED
        BY <1>1, <3>1, <4>1, ThrowTyped
    <3>3. GapCounted(svc'[p], svc[p])
      BY <1>1, <3>1, <3>2 DEF ThrownBy, GapCounted, SameCounts, ServiceState
    <3> QED
      BY <1>11, <3>1, <3>2, <3>3 DEF OneCallMoves, CallOutcome, OwnTip, Conflict, ThrownBy
  <2> QED
    BY <1>11, <2>1, <2>2 DEF Conflict
<1>12. CASE AppendFails(n)
  BY <1>2, <1>12 DEF AppendFails
<1>13. CASE ReadTip(n)
  <2>1. CASE Throw(n, svc[p])
    BY <1>2, <1>13, <2>1 DEF ReadTip
  <2>2. CASE ~Throw(n, svc[p])
    <3> DEFINE c == [call[n] EXCEPT !.pc = "fresh", !.prev = head, !.expected = head]
    <3>1. call' = [call EXCEPT ![n] = c] /\ UNCHANGED <<svc, data, log, head, restarts, overlapped>>
      BY <1>1, <1>13, <2>2 DEF ReadTip
    <3>2. c \in CallState /\ c.pc = "fresh" /\ c.process = p /\ c.prev = c.expected
      BY <1>1 DEF CallState
    <3>3. /\ call' \in Seq(CallState) /\ Len(call') = Len(call) /\ call'[n] = c
          /\ \A m \in DOMAIN call : m # n => call'[m] = call[m]
      BY <1>1, <3>1, <3>2
    <3> HIDE DEF c
    <3> QED
      BY <1>1, <1>13, <3>1, <3>2, <3>3
         DEF OneCallMoves, CallOutcome, OwnTip, SameCounts, ReadTip
  <2> QED
    BY <2>1, <2>2
<1>14. CASE TakeTip(n)
  <2>1. PICK h \in Nat, e \in Nat : h = call[n].prev /\ e = call[n].expected
    BY <1>1 DEF CallState
  <2> DEFINE c == [call[n] EXCEPT !.pc = "digest", !.retry = TRUE]
             s == [svc[p] EXCEPT !.prev = h, !.expected = e, !.retrying = TRUE]
  <2>2. call' = [call EXCEPT ![n] = c] /\ svc' = [svc EXCEPT ![p] = s]
    BY <1>1, <1>14, <2>1 DEF TakeTip
  <2>3. c \in CallState /\ c.pc = "digest" /\ c.process = p /\ c.prev = h /\ c.expected = e
    BY <1>1, <2>1 DEF CallState
  <2>4. s \in ServiceState /\ s.prev = h /\ s.expected = e /\ SameCounts(s, svc[p])
    BY <1>1 DEF ServiceState, SameCounts
  <2>5. /\ call' \in Seq(CallState) /\ Len(call') = Len(call) /\ call'[n] = c
        /\ \A m \in DOMAIN call : m # n => call'[m] = call[m]
    BY <1>1, <2>2, <2>3
  <2>6. svc' \in [Processes -> ServiceState] /\ svc'[p] = s
        /\ \A q \in Processes : q # p => svc'[q] = svc[q]
    BY <1>1, <2>2, <2>4
  <2> HIDE DEF c, s
  <2> QED
    BY <1>14, <2>1, <2>3, <2>4, <2>5, <2>6 DEF OneCallMoves, CallOutcome, OwnTip, TakeTip
<1> QED
  BY <1>5, <1>6, <1>7, <1>8, <1>9, <1>10, <1>11, <1>12, <1>13, <1>14 DEF CallAction

-----------------------------------------------------------------------------
(* A commit, and the end of a process *)

OneMoreCall(p) ==
    LET n == Len(call) + 1 IN
    /\ call' \in Seq(CallState) /\ Len(call') = n
    /\ \A m \in DOMAIN call : call'[m] = call[m]
    /\ call'[n].process = p /\ call'[n].prev = call'[n].expected
    /\ call'[n].pc = "published" /\ UNCHANGED svc

LEMMA CommitStep ==
    ASSUME AuditTypeOK, NEW p \in Processes, NEW tick \in Nat, NEW own \in BOOLEAN,
           Commit(p, tick, own)
    PROVE  OneMoreCall(p) /\ data' = Append(data, tick) /\ data' \in Seq(Nat)
<1> DEFINE c == [process |-> p, pc |-> "published", own |-> own, prev |-> 0, expected |-> 0,
                 retry |-> FALSE]
<1>1. call \in Seq(CallState) /\ data \in Seq(Nat)
  BY DEF AuditTypeOK
<1>2. call' = Append(call, c) /\ data' = Append(data, tick) /\ UNCHANGED svc
  BY DEF Commit
<1>3. c \in CallState /\ c.process = p /\ c.prev = c.expected /\ c.pc = "published"
  BY DEF CallState
<1> HIDE DEF c
<1>4. /\ call' \in Seq(CallState) /\ Len(call') = Len(call) + 1 /\ call'[Len(call) + 1] = c
      /\ \A m \in DOMAIN call : call'[m] = call[m]
  BY <1>1, <1>2, <1>3
<1> QED
  BY <1>1, <1>2, <1>3, <1>4 DEF OneMoreCall

\* The process begins anew, and what it had under way is forgotten.
BegunAnew(p) ==
    /\ call' \in Seq(CallState) /\ Len(call') = Len(call)
    /\ \A m \in DOMAIN call :
          /\ call[m].process = p => call'[m].pc = "past"
          /\ call[m].process # p => call'[m] = call[m]
          /\ call'[m].process = call[m].process /\ call'[m].prev = call[m].prev
          /\ call'[m].expected = call[m].expected
    /\ svc' \in [Processes -> ServiceState]
    /\ svc'[p].prev = svc'[p].expected
    /\ svc'[p].committed = 0 /\ svc'[p].failed = 0 /\ svc'[p].skipped = 0 /\ svc'[p].dirty = 0
    /\ \A q \in Processes : q # p => svc'[q] = svc[q]

LEMMA RestartStep ==
    ASSUME AuditTypeOK, NEW p \in Processes, Restart(p)
    PROVE  BegunAnew(p)
<1>1. call \in Seq(CallState) /\ svc \in [Processes -> ServiceState] /\ head \in Nat
  BY DEF AuditTypeOK
<1>2. PICK tip \in Nat : svc' = [svc EXCEPT ![p] = Fresh(tip)]
  BY <1>1 DEF Restart
<1>3. /\ Fresh(tip) \in ServiceState /\ Fresh(tip).prev = Fresh(tip).expected
      /\ Fresh(tip).committed = 0 /\ Fresh(tip).failed = 0 /\ Fresh(tip).skipped = 0
      /\ Fresh(tip).dirty = 0
  BY DEF Fresh, ServiceState
<1>4. \A c \in CallState :
        /\ [c EXCEPT !.pc = "past"] \in CallState
        /\ [c EXCEPT !.pc = "past"].pc = "past"
        /\ [c EXCEPT !.pc = "past"].process = c.process
        /\ [c EXCEPT !.pc = "past"].prev = c.prev
        /\ [c EXCEPT !.pc = "past"].expected = c.expected
  BY DEF CallState
<1>5. call' = [m \in 1..Len(call) |-> IF call[m].process = p
                                     THEN [call[m] EXCEPT !.pc = "past"] ELSE call[m]]
  BY <1>1 DEF Restart
<1>6. \A m \in 1..Len(call) : call[m] \in CallState
  BY <1>1
<1>7. call' \in [1..Len(call) -> CallState]
  BY <1>4, <1>5, <1>6
<1>8. call' \in Seq(CallState) /\ Len(call') = Len(call)
  BY <1>1, <1>7, SeqDef
<1>9. \A m \in DOMAIN call :
          /\ call[m].process = p => call'[m].pc = "past"
          /\ call[m].process # p => call'[m] = call[m]
          /\ call'[m].process = call[m].process /\ call'[m].prev = call[m].prev
          /\ call'[m].expected = call[m].expected
  BY <1>1, <1>4, <1>5, <1>6
<1> QED
  BY <1>1, <1>2, <1>3, <1>8, <1>9 DEF BegunAnew

-----------------------------------------------------------------------------
(* Types *)

LEMMA TickTyped == ASSUME AuditTypeOK PROVE LastTick \in Nat
BY DEF AuditTypeOK, LastTick

LEMMA PublishTyped ==
    ASSUME AuditTypeOK, NEW n \in DOMAIN call, n \in DOMAIN data, Publish(n)
    PROVE  /\ log' \in Seq(ReceiptRecord) /\ Len(log') = Len(log) + 1 /\ head' = Len(log')
           /\ log'[Len(log) + 1] = Receipt(n)
           /\ \A i \in DOMAIN log : log'[i] = log[i]
<1>1. n \in Nat /\ Tick(n) \in Nat /\ call[n] \in CallState
  BY DEF AuditTypeOK, Tick
<1>2. Receipt(n) \in ReceiptRecord
  BY <1>1 DEF Receipt, ReceiptRecord, CallState
<1> QED
  BY <1>2 DEF Publish, AuditTypeOK

\* A commit has its call, from its publication on.
Paired == Len(data) = Len(call)

LEMMA AuditTypesInit == AuditInit => AuditTypeOK /\ Paired
<1> SUFFICES ASSUME AuditInit PROVE AuditTypeOK /\ Paired
  OBVIOUS
<1>1. PICK first \in {0, 1} :
        /\ data = [n \in 1..first |-> 1]
        /\ log = [n \in 1..first |-> [data |-> 1, tick |-> 1, prev |-> 0, parent |-> 0]]
        /\ head = first
        /\ svc = [p \in Processes |-> Fresh(first)]
        /\ call \in [1..first -> {[process |-> p, pc |-> "past", own |-> TRUE, prev |-> 0,
                                   expected |-> 0, retry |-> FALSE] : p \in Processes}]
  BY DEF AuditInit
<1>2. Fresh(first) \in ServiceState
  BY DEF Fresh, ServiceState
<1>3. [data |-> 1, tick |-> 1, prev |-> 0, parent |-> 0] \in ReceiptRecord
  BY DEF ReceiptRecord
<1>4. \A p \in Processes : [process |-> p, pc |-> "past", own |-> TRUE, prev |-> 0,
                            expected |-> 0, retry |-> FALSE] \in CallState
  BY DEF CallState
<1>5. data \in [1..first -> Nat] /\ log \in [1..first -> ReceiptRecord]
      /\ call \in [1..first -> CallState]
  BY <1>1, <1>3, <1>4
<1>6. \A S : \A q \in [1..first -> S] : q \in Seq(S) /\ Len(q) = first
  OBVIOUS
<1>7. data \in Seq(Nat) /\ log \in Seq(ReceiptRecord) /\ call \in Seq(CallState)
      /\ Len(data) = first /\ Len(log) = first /\ Len(call) = first
  BY <1>5, <1>6
<1>8. restarts \in 0..MaxRestarts /\ overlapped \in BOOLEAN
  <2>1. restarts = 0 /\ overlapped = FALSE
    BY DEF AuditInit
  <2>2. 0 \in 0..MaxRestarts
    BY AuditAssumption
  <2> QED
    BY <2>1, <2>2, Zenon
<1>9. head \in 0..Len(log) /\ svc \in [Processes -> ServiceState]
  BY <1>1, <1>2, <1>7
<1> QED
  BY <1>7, <1>8, <1>9 DEF AuditTypeOK, Paired

LEMMA AuditTypesStep == AuditTypeOK /\ Paired /\ [AuditNext]_auditVars => AuditTypeOK' /\ Paired'
<1> SUFFICES ASSUME AuditTypeOK, Paired, [AuditNext]_auditVars PROVE AuditTypeOK' /\ Paired'
  OBVIOUS
<1>0. DOMAIN data = DOMAIN call
  BY DEF AuditTypeOK, Paired
<1>1. ASSUME NEW p \in Processes, NEW skip \in 1..(MaxSkip + 1), NEW own \in BOOLEAN,
             Commit(p, LastTick + skip, own)
      PROVE  AuditTypeOK' /\ Paired'
  <2>1. LastTick + skip \in Nat
    BY TickTyped, AuditAssumption
  <2>2. OneMoreCall(p) /\ data' = Append(data, LastTick + skip) /\ data' \in Seq(Nat)
    BY <1>1, <2>1, CommitStep
  <2> QED
    BY <1>1, <2>1, <2>2 DEF Commit, AuditTypeOK, OneMoreCall, Paired
<1>2. ASSUME NEW n \in DOMAIN call, CallAction(n) PROVE AuditTypeOK' /\ Paired'
  <2>1. PICK p : p = call[n].process
    OBVIOUS
  <2>2. OneCallMoves(n, p)
    BY <1>2, <2>1, CallStep
  <2>3. log' \in Seq(ReceiptRecord) /\ head' \in 0..Len(log')
    <3>1. CASE UNCHANGED <<log, head>>
      BY <3>1 DEF AuditTypeOK
    <3>2. CASE Publish(n)
      BY <1>0, <3>2, PublishTyped
    <3> QED
      BY <2>2, <3>1, <3>2 DEF OneCallMoves, CallOutcome
  <2> QED
    BY <2>2, <2>3 DEF OneCallMoves, AuditTypeOK, Paired
<1>3. ASSUME NEW p \in Processes, Restart(p) PROVE AuditTypeOK' /\ Paired'
  <2>1. BegunAnew(p)
    BY <1>3, RestartStep
  <2>2. restarts' \in 0..MaxRestarts /\ UNCHANGED <<data, log, head, overlapped>>
    BY <1>3, AuditAssumption DEF Restart, AuditTypeOK
  <2> QED
    BY <2>1, <2>2 DEF BegunAnew, AuditTypeOK, Paired
<1>4. CASE UNCHANGED auditVars
  BY <1>4 DEF auditVars, AuditTypeOK, Paired
<1> QED
  BY <1>1, <1>2, <1>3, <1>4, NextCases

\* Every variable of the audit chain keeps its type, through overlapping calls, lost
\* answers and restarts.
THEOREM AuditTypes == AuditSpec => []AuditTypeOK
<1>1. AuditSpec => [](AuditTypeOK /\ Paired)
  BY AuditTypesInit, AuditTypesStep, PTL DEF AuditSpec
<1> QED
  BY <1>1, PTL

-----------------------------------------------------------------------------
(* The chain: every receipt on top of the one before *)

Linked ==
    /\ head = Len(log)
    /\ \A i \in DOMAIN log : log[i].parent = i - 1 /\ log[i].prev = i - 1

\* The previous receipt and the expected head of a service, and of a call, are one.
OneTip ==
    /\ \A p \in Processes : svc[p].prev = svc[p].expected
    /\ \A n \in DOMAIN call : call[n].prev = call[n].expected

\* A receipt is that of a call that has published it, and one that has has a receipt.
Recorded ==
    /\ \A i \in DOMAIN log :
           /\ log[i].data \in DOMAIN call
           /\ call[log[i].data].pc \notin Running
           /\ log[i].tick = Tick(log[i].data)
    /\ \A i, j \in DOMAIN log : log[i].data = log[j].data => i = j
    /\ \A n \in DOMAIN call : call[n].pc = "landed" => \E i \in DOMAIN log : log[i].data = n

\* Ticks rise, and while no commits have overlapped the one under way is the last.
InTurn ==
    /\ \A m, n \in DOMAIN data : m < n => data[m] < data[n]
    /\ ~overlapped => \A n \in DOMAIN call : call[n].pc \in Active => n = Len(call)
    /\ ~overlapped => \A i, j \in DOMAIN log : i < j => log[i].data < log[j].data

LEMMA ChainInit == AuditInit => Linked /\ OneTip /\ Recorded /\ InTurn
<1> SUFFICES ASSUME AuditInit PROVE Linked /\ OneTip /\ Recorded /\ InTurn
  OBVIOUS
<1>1. PICK first \in {0, 1} :
        /\ data = [n \in 1..first |-> 1]
        /\ log = [n \in 1..first |-> [data |-> 1, tick |-> 1, prev |-> 0, parent |-> 0]]
        /\ head = first
        /\ svc = [p \in Processes |-> Fresh(first)]
        /\ call \in [1..first -> {[process |-> p, pc |-> "past", own |-> TRUE, prev |-> 0,
                                   expected |-> 0, retry |-> FALSE] : p \in Processes}]
  BY DEF AuditInit
<1>2. /\ DOMAIN data = 1..first /\ DOMAIN log = 1..first /\ DOMAIN call = 1..first
      /\ Len(log) = first /\ Len(call) = first
  <2>1. AuditTypeOK
    BY AuditTypesInit
  <2> QED
    BY <1>1, <2>1 DEF AuditTypeOK
<1>3. \A n \in 1..first : n = 1 /\ data[n] = 1 /\ log[n].data = 1 /\ log[n].tick = 1
        /\ log[n].prev = 0 /\ log[n].parent = 0
  BY <1>1
<1>4. \A n \in 1..first : call[n].pc = "past" /\ call[n].prev = 0 /\ call[n].expected = 0
  BY <1>1
<1>5. Linked
  BY <1>1, <1>2, <1>3 DEF Linked
<1>6. OneTip
  BY <1>1, <1>2, <1>4 DEF OneTip, Fresh
<1>7. Recorded
  BY <1>2, <1>3, <1>4 DEF Recorded, Tick, Running
<1>8. InTurn
  BY <1>2, <1>3, <1>4 DEF InTurn, Running, Active
<1> QED
  BY <1>5, <1>6, <1>7, <1>8

LEMMA CommitKeepsChain ==
    ASSUME AuditTypeOK, Paired, Linked, OneTip, Recorded, InTurn,
           NEW p \in Processes, NEW skip \in 1..(MaxSkip + 1), NEW own \in BOOLEAN,
           Commit(p, LastTick + skip, own)
    PROVE  Linked' /\ OneTip' /\ Recorded' /\ InTurn'
<1>1. LastTick \in Nat /\ skip \in Nat /\ skip >= 1
  BY TickTyped, AuditAssumption
<1>2. OneMoreCall(p) /\ data' = Append(data, LastTick + skip) /\ data' \in Seq(Nat)
  BY <1>1, CommitStep
<1>3. UNCHANGED <<log, head>> /\ overlapped' = (overlapped \/ UnderWay # {})
  BY DEF Commit
<1>4. /\ DOMAIN call = 1..Len(call) /\ DOMAIN call' = 1..(Len(call) + 1)
      /\ Len(call') = Len(call) + 1 /\ Len(call) \in Nat
      /\ \A m \in DOMAIN call : call'[m] = call[m]
  BY <1>2 DEF OneMoreCall, AuditTypeOK
<1>5. /\ DOMAIN data = 1..Len(call) /\ DOMAIN data' = 1..(Len(call) + 1)
      /\ \A m \in DOMAIN data : data'[m] = data[m] /\ data[m] \in Nat
      /\ data'[Len(call) + 1] = LastTick + skip
  BY <1>1, <1>2 DEF AuditTypeOK, Paired
<1>6. Linked'
  BY <1>3 DEF Linked
<1>7. OneTip'
  <2>1. \A q \in Processes : svc'[q].prev = svc'[q].expected
    BY <1>2 DEF OneTip, OneMoreCall
  <2>2. call'[Len(call) + 1].prev = call'[Len(call) + 1].expected
    BY <1>2 DEF OneMoreCall
  <2>3. \A m \in DOMAIN call' : m \in DOMAIN call \/ m = Len(call) + 1
    BY <1>4
  <2> QED
    BY <1>4, <2>1, <2>2, <2>3 DEF OneTip
<1>8. Recorded'
  <2>1. call'[Len(call) + 1].pc = "published"
    BY <1>2 DEF OneMoreCall
  <2>2. \A m \in DOMAIN call' : m \in DOMAIN call \/ m = Len(call) + 1
    BY <1>4
  <2> QED
    BY <1>3, <1>4, <1>5, <2>1, <2>2 DEF Recorded, Tick
<1>9. \A m \in DOMAIN data : data[m] <= LastTick
  <2> SUFFICES ASSUME NEW m \in DOMAIN data PROVE data[m] <= LastTick
    OBVIOUS
  <2>1. m \in 1..Len(data) /\ Len(data) \in DOMAIN data /\ data # <<>> /\ Len(data) \in Nat
    BY DEF AuditTypeOK
  <2>2. m = Len(data) \/ data[m] < data[Len(data)]
    BY <2>1 DEF InTurn
  <2> QED
    BY <1>5, <2>1, <2>2 DEF LastTick
<1>10. \A m, n \in DOMAIN data' : m < n => data'[m] < data'[n]
  <2> SUFFICES ASSUME NEW m \in DOMAIN data', NEW n \in DOMAIN data', m < n
               PROVE  data'[m] < data'[n]
    OBVIOUS
  <2>1. m \in DOMAIN data
    BY <1>4, <1>5
  <2>2. CASE n \in DOMAIN data
    BY <1>5, <2>1, <2>2 DEF InTurn
  <2>3. CASE n = Len(call) + 1
    BY <1>1, <1>5, <1>9, <2>1, <2>3
  <2> QED
    BY <1>4, <1>5, <2>2, <2>3
<1>11. ~overlapped' => \A n \in DOMAIN call' : call'[n].pc \in Active => n = Len(call')
  <2> SUFFICES ASSUME ~overlapped', NEW n \in DOMAIN call', call'[n].pc \in Active
               PROVE  n = Len(call')
    OBVIOUS
  <2>1. UnderWay = {}
    BY <1>3
  <2>2. n \notin DOMAIN call
    BY <1>4, <2>1 DEF UnderWay, Running, Active
  <2> QED
    BY <1>4, <2>2
<1>12. ~overlapped' => \A i, j \in DOMAIN log' : i < j => log'[i].data < log'[j].data
  BY <1>3 DEF InTurn
<1> QED
  BY <1>6, <1>7, <1>8, <1>10, <1>11, <1>12 DEF InTurn

LEMMA CallKeepsChain ==
    ASSUME AuditTypeOK, Paired, Linked, OneTip, Recorded, InTurn,
           NEW n \in DOMAIN call, CallAction(n)
    PROVE  Linked' /\ OneTip' /\ Recorded' /\ InTurn'
<1>1. PICK p : p = call[n].process
  OBVIOUS
<1>2. OneCallMoves(n, p)
  BY <1>1, CallStep
<1>3. p \in Processes /\ n \in Nat /\ n \in DOMAIN data /\ Len(log) \in Nat
  <2>1. call[n] \in CallState
    BY DEF AuditTypeOK
  <2>2. p \in Processes
    BY <1>1, <2>1 DEF CallState
  <2> QED
    BY <2>2 DEF AuditTypeOK, Paired
<1>4. /\ DOMAIN call' = DOMAIN call /\ Len(call') = Len(call)
      /\ \A m \in DOMAIN call : m # n => call'[m] = call[m]
      /\ UNCHANGED <<data, overlapped>> /\ call[n].pc \in Active
  BY <1>2 DEF OneCallMoves, AuditTypeOK
<1>5. OneTip'
  BY <1>2, <1>3, <1>4 DEF OneCallMoves, OneTip, OwnTip
<1>6. ~overlapped' => \A m \in DOMAIN call' : call'[m].pc \in Active => m = Len(call')
  BY <1>4 DEF InTurn
<1>7. CASE UNCHANGED <<log, head>>
  <2>1. /\ call'[n].pc # "landed"
        /\ call'[n].pc \in Running => call[n].pc \in Running
    <3>1. ~Publish(n)
      BY <1>7 DEF Publish, AuditTypeOK
    <3> QED
      BY <1>2, <3>1 DEF OneCallMoves, CallOutcome, Running
  <2>2. Recorded'
    BY <1>4, <1>7, <2>1 DEF Recorded, Tick
  <2> QED
    BY <1>4, <1>5, <1>6, <1>7, <2>2 DEF Linked, InTurn
<1>8. CASE call[n].pc = "append" /\ call'[n].pc = "landed" /\ Publish(n)
  <2> DEFINE new == Len(log) + 1
  <2>1. /\ log' \in Seq(ReceiptRecord) /\ Len(log') = new /\ head' = new
        /\ log'[new] = Receipt(n) /\ \A i \in DOMAIN log : log'[i] = log[i]
    BY <1>3, <1>8, PublishTyped
  <2>2. /\ log'[new].data = n /\ log'[new].tick = data[n]
        /\ log'[new].parent = new - 1 /\ log'[new].prev = new - 1
    BY <1>3, <1>8, <2>1 DEF Receipt, Publish, OneTip, Linked, Tick
  <2>3. DOMAIN log = 1..Len(log) /\ DOMAIN log' = 1..new
    BY <2>1 DEF AuditTypeOK
  <2>4. Linked'
    BY <1>3, <2>1, <2>2, <2>3 DEF Linked
  <2>5. \A i \in DOMAIN log : log[i].data \in DOMAIN call /\ log[i].data # n
    BY <1>8 DEF Recorded, Running
  <2>6. \A i \in DOMAIN log' :
           /\ log'[i].data \in DOMAIN call'
           /\ call'[log'[i].data].pc \notin Running
           /\ log'[i].tick = data'[log'[i].data]
    <3> SUFFICES ASSUME NEW i \in DOMAIN log'
                 PROVE  /\ log'[i].data \in DOMAIN call'
                        /\ call'[log'[i].data].pc \notin Running
                        /\ log'[i].tick = data'[log'[i].data]
      OBVIOUS
    <3>1. CASE i \in DOMAIN log
      BY <1>4, <2>1, <2>5, <3>1 DEF Recorded, Tick
    <3>2. CASE i = new
      BY <1>4, <1>8, <2>2, <3>2 DEF Running
    <3> QED
      BY <1>3, <2>3, <3>1, <3>2
  <2>7. \A i, j \in DOMAIN log' : log'[i].data = log'[j].data => i = j
    <3> SUFFICES ASSUME NEW i \in DOMAIN log', NEW j \in DOMAIN log', log'[i].data = log'[j].data
                 PROVE  i = j
      OBVIOUS
    <3>1. CASE i \in DOMAIN log /\ j \in DOMAIN log
      BY <2>1, <3>1 DEF Recorded
    <3>2. CASE i = new \/ j = new
      BY <1>3, <2>1, <2>2, <2>3, <2>5, <3>2
    <3> QED
      BY <1>3, <2>3, <3>1, <3>2
  <2>8. ~overlapped' => \A i, j \in DOMAIN log' : i < j => log'[i].data < log'[j].data
    <3> SUFFICES ASSUME ~overlapped, NEW i \in DOMAIN log', NEW j \in DOMAIN log', i < j
                 PROVE  log'[i].data < log'[j].data
      BY <1>4
    <3>1. i \in DOMAIN log
      BY <1>3, <2>3
    <3>2. CASE j \in DOMAIN log
      BY <2>1, <3>1, <3>2 DEF InTurn
    <3>3. CASE j = new
      <4>1. n = Len(call) /\ log[i].data \in 1..Len(call) /\ log[i].data # n
        BY <1>4, <2>5, <3>1 DEF InTurn, AuditTypeOK
      <4> QED
        BY <1>3, <2>1, <2>2, <3>1, <3>3, <4>1
    <3> QED
      BY <1>3, <2>3, <3>2, <3>3
  <2>9. \A m \in DOMAIN call' : call'[m].pc = "landed" => \E i \in DOMAIN log' : log'[i].data = m
    <3> SUFFICES ASSUME NEW m \in DOMAIN call', call'[m].pc = "landed"
                 PROVE  \E i \in DOMAIN log' : log'[i].data = m
      OBVIOUS
    <3>1. CASE m = n
      BY <1>3, <2>2, <2>3, <3>1
    <3>2. CASE m # n
      <4>1. PICK i \in DOMAIN log : log[i].data = m
        BY <1>4, <3>2 DEF Recorded
      <4> QED
        BY <1>3, <2>1, <2>3, <4>1
    <3> QED
      BY <3>1, <3>2
  <2>10. Recorded'
    BY <2>6, <2>7, <2>9 DEF Recorded, Tick
  <2> QED
    BY <1>4, <1>5, <1>6, <2>4, <2>8, <2>10 DEF InTurn
<1> QED
  BY <1>2, <1>7, <1>8 DEF OneCallMoves, CallOutcome

LEMMA ChainStep ==
    /\ AuditTypeOK /\ Paired /\ Linked /\ OneTip /\ Recorded /\ InTurn
    /\ [AuditNext]_auditVars
    => Linked' /\ OneTip' /\ Recorded' /\ InTurn'
<1> SUFFICES ASSUME AuditTypeOK, Paired, Linked, OneTip, Recorded, InTurn, [AuditNext]_auditVars
             PROVE  Linked' /\ OneTip' /\ Recorded' /\ InTurn'
  OBVIOUS
<1>1. ASSUME NEW p \in Processes, Restart(p) PROVE Linked' /\ OneTip' /\ Recorded' /\ InTurn'
  <2>1. BegunAnew(p) /\ UNCHANGED <<data, log, head, overlapped>>
    BY <1>1, RestartStep DEF Restart
  <2>2. /\ DOMAIN call' = DOMAIN call /\ Len(call') = Len(call)
        /\ \A m \in DOMAIN call : call'[m].pc \in {call[m].pc, "past"}
    BY <2>1 DEF BegunAnew, AuditTypeOK
  <2>3. OneTip'
    BY <2>1, <2>2 DEF OneTip, BegunAnew
  <2>4. Recorded'
    BY <2>1, <2>2 DEF Recorded, Tick, Running
  <2>5. InTurn'
    BY <2>1, <2>2 DEF InTurn, Running, Active
  <2> QED
    BY <2>1, <2>3, <2>4, <2>5 DEF Linked
<1>2. CASE UNCHANGED auditVars
  BY <1>2 DEF auditVars, Linked, OneTip, Recorded, InTurn, Tick
<1> QED
  BY <1>1, <1>2, CommitKeepsChain, CallKeepsChain, NextCases

-----------------------------------------------------------------------------
(* What a walk meets *)

LEMMA WalkMeetsAll ==
    ASSUME AuditTypeOK, Linked, NEW tip \in 0..Len(log)
    PROVE  Walk(tip) = 1..tip
<1> DEFINE N == Len(log)
           Step(f) == [i \in 0..N |-> IF i = 0 THEN {} ELSE {i} \cup f[log[i].parent]]
           met == CHOOSE f : f = Step(f)
           whole == [i \in 0..N |-> 1..i]
<1>1. N \in Nat /\ \A i \in 0..N : i # 0 => log[i].parent = i - 1 /\ i - 1 \in 0..N
  BY DEF AuditTypeOK, Linked
<1>0. 1..0 = {}
  <2>1. \A x : x \notin 1..0
    OBVIOUS
  <2> QED
    BY <2>1
<1>2. whole = Step(whole)
  <2>1. \A i \in 0..N : i # 0 => 1..i = {i} \cup 1..(i - 1)
    BY <1>1
  <2>2. \A i \in 0..N : 1..i = IF i = 0 THEN {} ELSE {i} \cup whole[log[i].parent]
    <3> SUFFICES ASSUME NEW i \in 0..N
                 PROVE  1..i = IF i = 0 THEN {} ELSE {i} \cup whole[log[i].parent]
      OBVIOUS
    <3>1. CASE i = 0
      BY <1>0, <3>1
    <3>2. CASE i # 0
      <4>1. whole[log[i].parent] = 1..(i - 1)
        BY <1>1, <3>2
      <4> QED
        BY <2>1, <3>2, <4>1
    <3> QED
      BY <3>1, <3>2
  <2> QED
    BY <2>2
<1>3. met = Step(met)
  <2> HIDE DEF whole, Step
  <2>1. \E f : f = Step(f)
    BY <1>2
  <2> QED
    BY <2>1, Zenon
<1>4. Walk(tip) = met[tip]
  BY DEF Walk
<1> HIDE DEF met
<1>5. \A i \in 0..N : met[i] = IF i = 0 THEN {} ELSE {i} \cup met[log[i].parent]
  BY <1>3
<1> DEFINE S == {n \in Nat : n <= N => met[n] = 1..n}
<1>6. 0 \in S
  <2>1. 0 \in 0..N
    BY <1>1
  <2>2. met[0] = {}
    BY <1>5, <2>1
  <2> QED
    BY <1>0, <2>2
<1>s. \A n \in Nat : n \in S <=> (n <= N => met[n] = 1..n)
  OBVIOUS
<1>7. \A n \in Nat : n \in S => n + 1 \in S
  <2> HIDE DEF S
  <2> SUFFICES ASSUME NEW n \in Nat, n \in S, n + 1 <= N PROVE met[n + 1] = 1..(n + 1)
    BY <1>s
  <2>1. met[n] = 1..n
    BY <1>1, <1>s
  <2>2. met[n + 1] = {n + 1} \cup met[n]
    <3>1. n + 1 \in 0..N /\ n + 1 # 0
      BY <1>1
    <3>2. log[n + 1].parent = n
      BY <1>1, <3>1
    <3> QED
      BY <1>5, <3>1, <3>2
  <2>3. 1..(n + 1) = {n + 1} \cup 1..n
    OBVIOUS
  <2> QED
    BY <2>1, <2>2, <2>3
<1>8. tip \in S
  <2> HIDE DEF S
  <2> QED
    BY <1>1, <1>6, <1>7, SetInduction
<1> QED
  BY <1>1, <1>4, <1>8

LEMMA ChainInvariant ==
    AuditSpec => [](AuditTypeOK /\ Paired /\ Linked /\ OneTip /\ Recorded /\ InTurn)
BY AuditTypesInit, AuditTypesStep, ChainInit, ChainStep, PTL DEF AuditSpec

\* However many processes and calls append at once, and whatever answers are lost: a data
\* commit has at most one receipt, with its tick, and the walk from the audit ref meets
\* every receipt that was ever published (_commitInner, _retryAfterCasConflict,
\* GitCasAuditLogAdapter.append).
THEOREM ReceiptsChained == AuditSpec => []OneReceiptEach
<1>1. AuditTypeOK /\ Linked /\ Recorded => OneReceiptEach
  <2> SUFFICES ASSUME AuditTypeOK, Linked, Recorded PROVE OneReceiptEach
    OBVIOUS
  <2>1. head \in 0..Len(log) /\ head = Len(log) /\ DOMAIN log = 1..Len(log)
    BY DEF AuditTypeOK, Linked
  <2>2. Walk(head) = DOMAIN log
    BY <2>1, WalkMeetsAll
  <2> QED
    BY <2>2 DEF OneReceiptEach, Recorded
<1> QED
  BY <1>1, ChainInvariant, PTL

\* A chain of commits each of which was published after the hooks of all earlier ones had
\* ended is valid for the verifier, from every tip the ref has had back to the genesis or
\* to any receipt, and all of it is counted as verified, whatever answers were lost and
\* whatever hooks failed (verifyChain against _onPatchCommitted, _commitInner).
THEOREM HonestChains == AuditSpec => []HonestChainVerifies
<1>1. AuditTypeOK /\ Paired /\ Linked /\ Recorded /\ InTurn => HonestChainVerifies
  <2> SUFFICES ASSUME AuditTypeOK, Paired, Linked, Recorded, InTurn, ~overlapped,
                      NEW tip \in DOMAIN log, NEW since \in 0..tip
               PROVE  /\ Verify(tip, since).status = (IF since = 0 THEN "VALID" ELSE "PARTIAL")
                      /\ Verify(tip, since).verified = tip - (IF since = 0 THEN 0 ELSE since - 1)
    BY DEF HonestChainVerifies
  <2>1. tip \in Nat /\ tip # 0 /\ tip \in 0..Len(log) /\ DOMAIN log = 1..Len(log)
        /\ Len(log) \in Nat /\ since \in Nat
    BY DEF AuditTypeOK
  <2>2. Walk(tip) = 1..tip
    BY <2>1, WalkMeetsAll
  <2> DEFINE walk == 1..tip
             seen == IF since \in walk THEN {i \in walk : i >= since} ELSE walk
             broken == {i \in seen : ~LinkHolds(walk, i) \/ ~ParentAgrees(i)}
             first == IF since = 0 THEN 1 ELSE since
  <2>3. seen = first..tip /\ first \in Nat
    <3>1. CASE since = 0
      BY <2>1, <3>1
    <3>2. CASE since # 0
      <4>1. since \in walk
        BY <2>1, <3>2
      <4>2. {i \in walk : i >= since} = since..tip
        BY <2>1, <3>2
      <4> QED
        BY <2>1, <3>2, <4>1, <4>2
    <3> QED
      BY <3>1, <3>2
  <2>4. \A i \in 1..tip : LinkHolds(walk, i) /\ ParentAgrees(i)
    <3> SUFFICES ASSUME NEW i \in 1..tip PROVE LinkHolds(walk, i) /\ ParentAgrees(i)
      OBVIOUS
    <3>1. i \in DOMAIN log
      BY <2>1
    <3>2. ASSUME NEW j \in walk, log[j].parent = i PROVE log[i].tick < log[j].tick
      <4>1. j \in DOMAIN log /\ i < j
        BY <2>1, <3>2 DEF Linked
      <4>2. log[i].data < log[j].data
        BY <3>1, <4>1 DEF InTurn
      <4>3. log[i].data \in DOMAIN data /\ log[j].data \in DOMAIN data
        BY <3>1, <4>1 DEF Recorded, Paired, AuditTypeOK
      <4> QED
        BY <3>1, <4>1, <4>2, <4>3 DEF InTurn, Recorded, Tick
    <3> QED
      BY <3>1, <3>2 DEF LinkHolds, ParentAgrees, Linked
  <2>5. broken = {}
    BY <2>1, <2>3, <2>4
  <2>6. Cardinality(seen) = tip - (IF since = 0 THEN 0 ELSE since - 1)
    <3>1. Cardinality(first..tip) = IF first > tip THEN 0 ELSE tip - first + 1
      <4> HIDE DEF first
      <4>1. first \in Int /\ tip \in Int
        BY <2>1, <2>3
      <4> QED
        BY <4>1, FS_Interval
    <3>2. first <= tip
      BY <2>1
    <3> QED
      BY <2>1, <2>3, <3>1, <3>2
  <2>7. since # 0 => since \in walk
    BY <2>1
  <2> DEFINE met == IF broken = {} THEN seen ELSE {i \in seen : i >= Max(broken)}
             without == met \ (IF broken = {} THEN {} ELSE {Max(broken)})
             status == IF broken # {} THEN "BROKEN_CHAIN"
                       ELSE IF since = 0 \/ tip = 0 THEN "VALID"
                       ELSE IF since \in walk THEN "PARTIAL" ELSE "ERROR"
  <2>8. Verify(tip, since).status = status /\ Verify(tip, since).verified = Cardinality(without)
    BY <2>2 DEF Verify
  <2>9. without = seen
    BY <2>5
  <2>10. status = (IF since = 0 THEN "VALID" ELSE "PARTIAL")
    BY <2>1, <2>5, <2>7
  <2> QED
    BY <2>6, <2>8, <2>9, <2>10
<1> QED
  BY <1>1, ChainInvariant, PTL

-----------------------------------------------------------------------------
(* The counters *)

Done(p) == {n \in DOMAIN call : call[n].process = p /\ call[n].pc = "done"}

LEMMA DoneFinite ==
    ASSUME AuditTypeOK, NEW p
    PROVE  /\ IsFiniteSet(Done(p)) /\ IsFiniteSet(Unaudited(p))
           /\ Cardinality(Done(p)) \in Nat /\ Cardinality(Unaudited(p)) \in Nat
<1>1. IsFiniteSet(1..Len(call)) /\ DOMAIN call = 1..Len(call)
  <2>1. 1 \in Int /\ Len(call) \in Int /\ DOMAIN call = 1..Len(call)
    BY DEF AuditTypeOK
  <2> QED
    BY <2>1, FS_Interval
<1>2. Done(p) \subseteq 1..Len(call) /\ Unaudited(p) \subseteq 1..Len(call)
  BY <1>1 DEF Done, Unaudited
<1>3. IsFiniteSet(Done(p)) /\ IsFiniteSet(Unaudited(p))
  BY <1>1, <1>2, FS_Subset
<1> QED
  BY <1>3, FS_CardinalityType

CountsOf(s) ==
    s.committed \in Nat /\ s.failed \in Nat /\ s.skipped \in Nat /\ s.dirty \in Nat

\* One more call of p has ended, and it is counted.
LEMMA OneMoreDone ==
    ASSUME AuditTypeOK, NEW p \in Processes, NEW n, n \notin Done(p),
           Done(p)' = Done(p) \cup {n}
    PROVE  Cardinality(Done(p)') = Cardinality(Done(p)) + 1
BY DoneFinite, FS_AddElement

LEMMA OneMoreUnaudited ==
    ASSUME AuditTypeOK, AuditTypeOK', NEW p \in Processes, NEW n,
           Unaudited(p)' \subseteq Unaudited(p) \cup {n}
    PROVE  /\ Cardinality(Unaudited(p)') \in Nat
           /\ Cardinality(Unaudited(p)') <= Cardinality(Unaudited(p)) + 1
<1> DEFINE U == Unaudited(p)
<1>1. IsFiniteSet(U) /\ Cardinality(U) \in Nat /\ IsFiniteSet(U \cup {n})
  BY DoneFinite, FS_AddElement
<1>2. Cardinality(U \cup {n}) <= Cardinality(U) + 1
  <2>1. Cardinality(U \cup {n}) = IF n \in U THEN Cardinality(U) ELSE Cardinality(U) + 1
    BY <1>1, FS_AddElement
  <2> QED
    BY <1>1, <2>1
<1>3. IsFiniteSet(Unaudited(p)') /\ Cardinality(Unaudited(p)') <= Cardinality(U \cup {n})
  BY <1>1, FS_Subset
<1>4. Cardinality(Unaudited(p)') \in Nat /\ Cardinality(U \cup {n}) \in Nat
  BY <1>1, <1>3, FS_CardinalityType
<1> QED
  BY <1>1, <1>2, <1>3, <1>4

CountedFor(p) ==
    /\ Cardinality(Unaudited(p)) <= svc[p].failed + svc[p].skipped + svc[p].dirty
    /\ svc[p].committed + svc[p].failed + svc[p].skipped + svc[p].dirty = Cardinality(Done(p))

LEMMA CountsTyped ==
    ASSUME AuditTypeOK, NEW p \in Processes
    PROVE  CountsOf(svc[p])
<1>1. svc[p] \in ServiceState
  BY DEF AuditTypeOK
<1> QED
  BY <1>1 DEF ServiceState, CountsOf

LEMMA CountedInit == ASSUME AuditInit, NEW p \in Processes PROVE CountedFor(p)
<1>1. PICK first \in {0, 1} :
        /\ svc = [q \in Processes |-> Fresh(first)]
        /\ call \in [1..first -> {[process |-> q, pc |-> "past", own |-> TRUE, prev |-> 0,
                                   expected |-> 0, retry |-> FALSE] : q \in Processes}]
  BY DEF AuditInit
<1>2. \A n \in DOMAIN call : call[n].pc = "past"
  BY <1>1
<1>3. Done(p) = {} /\ Unaudited(p) = {}
  BY <1>2 DEF Done, Unaudited
<1> QED
  BY <1>1, <1>3, FS_EmptySet DEF CountedFor, Fresh

\* A process that has nothing to do with the step.
LEMMA OthersCounted ==
    ASSUME AuditTypeOK, AuditTypeOK', NEW p \in Processes, CountedFor(p), svc'[p] = svc[p],
           Done(p)' = Done(p), Unaudited(p)' = Unaudited(p)
    PROVE  CountedFor(p)'
BY DEF CountedFor

LEMMA CommitCounted ==
    ASSUME AuditTypeOK, NEW p \in Processes, NEW q \in Processes,
           CountedFor(q), OneMoreCall(p), UNCHANGED log
    PROVE  CountedFor(q)'
<1> DEFINE n == Len(call) + 1
<1>1. /\ DOMAIN call' = DOMAIN call \cup {n} /\ n \notin DOMAIN call
      /\ \A m \in DOMAIN call : call'[m] = call[m]
      /\ call'[n].pc = "published" /\ svc'[q] = svc[q]
  BY DEF OneMoreCall, AuditTypeOK
<1> HIDE DEF n
<1>2. Done(q)' = Done(q)
  BY <1>1 DEF Done
<1>3. Unaudited(q)' = Unaudited(q)
  BY <1>1 DEF Unaudited
<1> QED
  BY <1>1, <1>2, <1>3 DEF CountedFor

LEMMA CallCounted ==
    ASSUME AuditTypeOK, AuditTypeOK', Paired, Recorded, NEW n \in DOMAIN call,
           NEW p \in Processes, p = call[n].process, NEW q \in Processes,
           CountedFor(q), OneCallMoves(n, p)
    PROVE  CountedFor(q)'
<1>1. /\ DOMAIN call' = DOMAIN call
      /\ \A m \in DOMAIN call : m # n => call'[m] = call[m]
      /\ call'[n].process = p /\ call[n].pc \in Active
      /\ \A r \in Processes : r # p => svc'[r] = svc[r]
  BY DEF OneCallMoves, AuditTypeOK
<1>2. \A m \in DOMAIN call : m # n =>
        ((\E i \in DOMAIN log' : log'[i].data = m) <=> (\E i \in DOMAIN log : log[i].data = m))
  <2>1. CASE UNCHANGED log
    BY <2>1
  <2>2. CASE Publish(n)
    <3>1. n \in DOMAIN data
      BY DEF Paired, AuditTypeOK
    <3>2. /\ log' \in Seq(ReceiptRecord) /\ Len(log') = Len(log) + 1
          /\ log'[Len(log) + 1] = Receipt(n)
          /\ \A i \in DOMAIN log : log'[i] = log[i]
      BY <2>2, <3>1, PublishTyped
    <3>3. log'[Len(log) + 1].data = n
      BY <3>2 DEF Receipt
    <3>4. DOMAIN log' = DOMAIN log \cup {Len(log) + 1}
      BY <3>2 DEF AuditTypeOK
    <3> QED
      BY <3>2, <3>3, <3>4
  <2> QED
    BY <2>1, <2>2 DEF OneCallMoves, CallOutcome
<1>3. n \notin Done(q)
  BY <1>1 DEF Done, Running, Active
<1>4. CASE q # p \/ call'[n].pc # "done"
  <2>1. Done(q)' = Done(q)
    BY <1>1, <1>4 DEF Done, Running, Active
  <2>2. Unaudited(q)' = Unaudited(q)
    BY <1>1, <1>2, <1>4 DEF Unaudited, Running, Active
  <2>3. SameCounts(svc'[q], svc[q])
    BY <1>1, <1>4 DEF OneCallMoves, CallOutcome, SameCounts
  <2> QED
    BY <2>1, <2>2, <2>3 DEF CountedFor, SameCounts
<1>5. CASE q = p /\ call'[n].pc = "done"
  <2>1. Done(p)' = Done(p) \cup {n}
    BY <1>1, <1>5 DEF Done
  <2>2. Cardinality(Done(p)') = Cardinality(Done(p)) + 1
    BY <1>3, <1>5, <2>1, OneMoreDone
  <2>3. CountsOf(svc[p]) /\ Cardinality(Done(p)) \in Nat /\ Cardinality(Unaudited(p)) \in Nat
    BY CountsTyped, DoneFinite
  <2>4. svc[p] \in ServiceState
    BY DEF AuditTypeOK
  <2>5. CASE GapCounted(svc'[p], svc[p])
    <3>1. Unaudited(p)' \subseteq Unaudited(p) \cup {n}
      BY <1>1, <1>2 DEF Unaudited
    <3>2. /\ Cardinality(Unaudited(p)') \in Nat
          /\ Cardinality(Unaudited(p)') <= Cardinality(Unaudited(p)) + 1
      BY <3>1, OneMoreUnaudited
    <3>3. /\ svc'[p].committed = svc[p].committed
          /\ svc'[p].failed + svc'[p].skipped + svc'[p].dirty
               = svc[p].failed + svc[p].skipped + svc[p].dirty + 1
      <4>1. CASE SameCounts(svc'[p], [svc[p] EXCEPT !.failed = @ + 1])
        <5>1. /\ svc'[p].committed = svc[p].committed /\ svc'[p].failed = svc[p].failed + 1
              /\ svc'[p].dirty = svc[p].dirty /\ svc'[p].skipped = svc[p].skipped
          BY <2>4, <4>1 DEF SameCounts, ServiceState
        <5> QED
          BY <2>3, <5>1 DEF CountsOf
      <4>2. CASE SameCounts(svc'[p], [svc[p] EXCEPT !.skipped = @ + 1])
        <5>1. /\ svc'[p].committed = svc[p].committed /\ svc'[p].skipped = svc[p].skipped + 1
              /\ svc'[p].dirty = svc[p].dirty /\ svc'[p].failed = svc[p].failed
          BY <2>4, <4>2 DEF SameCounts, ServiceState
        <5> QED
          BY <2>3, <5>1 DEF CountsOf
      <4>3. CASE SameCounts(svc'[p], [svc[p] EXCEPT !.dirty = @ + 1])
        <5>1. /\ svc'[p].committed = svc[p].committed /\ svc'[p].dirty = svc[p].dirty + 1
              /\ svc'[p].skipped = svc[p].skipped /\ svc'[p].failed = svc[p].failed
          BY <2>4, <4>3 DEF SameCounts, ServiceState
        <5> QED
          BY <2>3, <5>1 DEF CountsOf
      <4> QED
        BY <2>5, <4>1, <4>2, <4>3 DEF GapCounted
    <3>4. CountsOf(svc'[p])
      <4>1. svc'[p] \in ServiceState
        BY DEF AuditTypeOK
      <4> QED
        BY <4>1 DEF ServiceState, CountsOf
    <3> QED
      BY <1>5, <2>2, <2>3, <3>2, <3>3, <3>4 DEF CountedFor, CountsOf
  <2>6. CASE /\ call[n].pc = "landed" /\ UNCHANGED log
             /\ SameCounts(svc'[p], [svc[p] EXCEPT !.committed = @ + 1])
    <3>1. \E i \in DOMAIN log : log[i].data = n
      BY <2>6 DEF Recorded
    <3>2. Unaudited(p)' = Unaudited(p)
      BY <1>1, <2>6, <3>1 DEF Unaudited
    <3>3. /\ svc'[p].committed = svc[p].committed + 1 /\ svc'[p].failed = svc[p].failed
          /\ svc'[p].dirty = svc[p].dirty /\ svc'[p].skipped = svc[p].skipped
      BY <2>4, <2>6 DEF SameCounts, ServiceState
    <3> QED
      BY <1>5, <2>2, <2>3, <3>2, <3>3 DEF CountedFor, CountsOf
  <2> QED
    BY <1>5, <2>5, <2>6 DEF OneCallMoves, CallOutcome, Running
<1> QED
  BY <1>4, <1>5

LEMMA RestartCounted ==
    ASSUME AuditTypeOK, NEW p \in Processes, NEW q \in Processes,
           CountedFor(q), BegunAnew(p), UNCHANGED log
    PROVE  CountedFor(q)'
<1>1. /\ DOMAIN call' = DOMAIN call
      /\ \A m \in DOMAIN call :
           /\ call[m].process = p => call'[m].pc = "past"
           /\ call[m].process # p => call'[m] = call[m]
           /\ call'[m].process = call[m].process
  BY DEF BegunAnew, AuditTypeOK
<1>2. CASE q = p
  <2>1. \A m \in DOMAIN call' : call'[m].process = p => call'[m].pc = "past"
    BY <1>1
  <2>2. Done(p)' = {}
    <3>1. ASSUME NEW m \in Done(p)' PROVE FALSE
      BY <2>1, <3>1 DEF Done
    <3> QED
      BY <3>1
  <2>3. Unaudited(p)' = {}
    <3>1. ASSUME NEW m \in Unaudited(p)' PROVE FALSE
      BY <2>1, <3>1 DEF Unaudited
    <3> QED
      BY <3>1
  <2> QED
    BY <1>2, <2>2, <2>3, FS_EmptySet DEF CountedFor, BegunAnew
<1>3. CASE q # p
  <2>1. Done(q)' = Done(q) /\ Unaudited(q)' = Unaudited(q) /\ svc'[q] = svc[q]
    BY <1>1, <1>3 DEF Done, Unaudited, BegunAnew
  <2> QED
    BY <2>1 DEF CountedFor
<1> QED
  BY <1>2, <1>3

LEMMA CountedStep ==
    ASSUME AuditTypeOK, AuditTypeOK', Paired, Recorded, [AuditNext]_auditVars,
           NEW q \in Processes, CountedFor(q)
    PROVE  CountedFor(q)'
<1>1. ASSUME NEW p \in Processes, NEW skip \in 1..(MaxSkip + 1), NEW own \in BOOLEAN,
             Commit(p, LastTick + skip, own)
      PROVE  CountedFor(q)'
  <2>1. LastTick + skip \in Nat
    BY TickTyped, AuditAssumption
  <2>2. OneMoreCall(p) /\ UNCHANGED log
    BY <1>1, <2>1, CommitStep DEF Commit
  <2> QED
    BY <2>2, CommitCounted
<1>2. ASSUME NEW n \in DOMAIN call, CallAction(n) PROVE CountedFor(q)'
  <2>1. PICK p : p = call[n].process
    OBVIOUS
  <2>2. OneCallMoves(n, p)
    BY <1>2, <2>1, CallStep
  <2>3. p \in Processes
    <3>1. call[n] \in CallState
      BY DEF AuditTypeOK
    <3> QED
      BY <2>1, <3>1 DEF CallState
  <2> QED
    BY <2>1, <2>2, <2>3, CallCounted
<1>3. ASSUME NEW p \in Processes, Restart(p) PROVE CountedFor(q)'
  BY <1>3, RestartStep, RestartCounted DEF Restart
<1>4. CASE UNCHANGED auditVars
  BY <1>4 DEF auditVars, CountedFor, Done, Unaudited
<1> QED
  BY <1>1, <1>2, <1>3, <1>4, NextCases

\* Within the life of a process the counters of the service and of the host cover every
\* commit without a receipt whose hook ran to its end, and together they count every such
\* commit once; only a commit of which the service never heard is not counted (commit,
\* getStats, _onPatchCommitted).
THEOREM GapsCounted == AuditSpec => []GapsAreCounted
<1> DEFINE Counted == \A p \in Processes : CountedFor(p)
<1>1. Counted => GapsAreCounted
  BY DEF GapsAreCounted, CountedFor, Done
<1>2. AuditInit => Counted
  BY CountedInit
<1>3. /\ AuditTypeOK /\ AuditTypeOK' /\ Paired /\ Recorded /\ Counted /\ [AuditNext]_auditVars
      => Counted'
  <2> SUFFICES ASSUME AuditTypeOK, AuditTypeOK', Paired, Recorded, Counted,
                      [AuditNext]_auditVars, NEW p \in Processes
               PROVE  CountedFor(p)'
    OBVIOUS
  <2> QED
    BY CountedStep
<1> HIDE DEF Counted
<1> QED
  BY <1>1, <1>2, <1>3, ChainInvariant, PTL DEF AuditSpec

-----------------------------------------------------------------------------
(* The fold of TrustStateBuilder over the records *)

LEMMA GreatestOf ==
    ASSUME NEW n \in Nat, NEW s \in SUBSET (1..n), s # {}
    PROVE  Max(s) \in s /\ \A y \in s : Max(s) >= y
<1> DEFINE T == {n - x : x \in s}
<1>1. T \in SUBSET Nat /\ T # {}
  <2>1. \A x \in s : x \in 1..n /\ n - x \in Nat
    OBVIOUS
  <2>2. PICK x : x \in s
    OBVIOUS
  <2>3. n - x \in T
    BY <2>2
  <2> QED
    BY <2>1, <2>3
<1>2. PICK t \in T : \A u \in T : t <= u
  BY <1>1, LeastNatural
<1>3. PICK x \in s : t = n - x
  BY <1>2
<1>4. \A y \in s : x >= y
  <2> SUFFICES ASSUME NEW y \in s PROVE x >= y
    OBVIOUS
  <2>1. n - x <= n - y
    BY <1>2, <1>3
  <2> QED
    BY <2>1
<1> QED
  BY <1>3, <1>4, Zenon DEF Max

\* One round of the fold, over the records up to n.
Round(records, n, g) ==
    [s \in SUBSET (1..n) |-> IF s = {} THEN NoTrust
                            ELSE ProcessRecord(g[s \ {Max(s)}], records[Max(s)])]

FoldedBy(records, n, g) == g = Round(records, n, g)

LEMMA RoundValue ==
    ASSUME NEW records, NEW n \in Nat, NEW g, NEW s \in SUBSET (1..n)
    PROVE  Round(records, n, g)[s] =
               IF s = {} THEN NoTrust ELSE ProcessRecord(g[s \ {Max(s)}], records[Max(s)])
BY DEF Round

\* Without its greatest element a set is one of smaller numbers.
LEMMA RestIsSmaller ==
    ASSUME NEW n \in Nat, NEW s \in SUBSET (1..(n + 1)), s # {}
    PROVE  s \ {Max(s)} \in SUBSET (1..n)
<1>0. n + 1 \in Nat
  OBVIOUS
<1>1. Max(s) \in s /\ \A y \in s : Max(s) >= y
  BY <1>0, GreatestOf
<1>2. Max(s) \in 1..(n + 1) /\ \A y \in s : y \in 1..(n + 1)
  BY <1>1
<1>3. ASSUME NEW y \in s \ {Max(s)} PROVE y \in 1..n
  BY <1>1, <1>2, <1>3
<1> QED
  BY <1>3

LEMMA FoldGrows ==
    ASSUME NEW records, NEW n \in Nat, NEW g, FoldedBy(records, n, g)
    PROVE  FoldedBy(records, n + 1, Round(records, n + 1, g))
<1> DEFINE h == Round(records, n + 1, g)
<1>1. \A s \in SUBSET (1..n) : s \in SUBSET (1..(n + 1)) /\ h[s] = g[s]
  <2> SUFFICES ASSUME NEW s \in SUBSET (1..n) PROVE s \in SUBSET (1..(n + 1)) /\ h[s] = g[s]
    OBVIOUS
  <2>1. s \in SUBSET (1..(n + 1))
    OBVIOUS
  <2>2. h[s] = IF s = {} THEN NoTrust ELSE ProcessRecord(g[s \ {Max(s)}], records[Max(s)])
    <3>1. n + 1 \in Nat
      OBVIOUS
    <3> QED
      BY <2>1, <3>1, RoundValue
  <2>3. Round(records, n, g)[s] =
            IF s = {} THEN NoTrust ELSE ProcessRecord(g[s \ {Max(s)}], records[Max(s)])
    BY RoundValue
  <2> QED
    BY <2>1, <2>2, <2>3 DEF FoldedBy
<1> HIDE DEF h
<1>2. \A s \in SUBSET (1..(n + 1)) : s # {} => h[s \ {Max(s)}] = g[s \ {Max(s)}]
  BY <1>1, RestIsSmaller
<1>3. Round(records, n + 1, h) = Round(records, n + 1, g)
  BY <1>2 DEF Round
<1> QED
  BY <1>3 DEF FoldedBy, h

LEMMA FoldExists == \A records : \A n \in Nat : \E g : FoldedBy(records, n, g)
<1> SUFFICES ASSUME NEW records PROVE \A n \in Nat : \E g : FoldedBy(records, n, g)
  OBVIOUS
<1> DEFINE S == {n \in Nat : \E g : FoldedBy(records, n, g)}
           empty == [s \in SUBSET (1..0) |-> NoTrust]
<1>1. 0 \in S
  <2>1. \A s \in SUBSET (1..0) : s = {}
    <3>1. \A x : x \notin 1..0
      OBVIOUS
    <3> QED
      BY <3>1
  <2>2. FoldedBy(records, 0, empty)
    BY <2>1 DEF FoldedBy, Round
  <2> QED
    BY <2>2
<1>2. \A n \in Nat : n \in S => n + 1 \in S
  BY FoldGrows
<1> HIDE DEF S
<1>3. Nat \subseteq S
  BY <1>1, <1>2, SetInduction
<1> QED
  BY <1>3 DEF S

LEMMA FoldUnique ==
    \A records : \A n \in Nat : \A g, h :
        FoldedBy(records, n, g) /\ FoldedBy(records, n, h) => g = h
<1> SUFFICES ASSUME NEW records
             PROVE  \A n \in Nat : \A g, h :
                        FoldedBy(records, n, g) /\ FoldedBy(records, n, h) => g = h
  OBVIOUS
<1> DEFINE Agree(g, h, n) == \A s \in SUBSET (1..n) : g[s] = h[s]
           S == {m \in Nat : \A n \in Nat : \A g, h :
                     m <= n /\ FoldedBy(records, n, g) /\ FoldedBy(records, n, h) => Agree(g, h, m)}
<1>1. ASSUME NEW n \in Nat, NEW g, FoldedBy(records, n, g), NEW s \in SUBSET (1..n)
      PROVE  g[s] = IF s = {} THEN NoTrust ELSE ProcessRecord(g[s \ {Max(s)}], records[Max(s)])
  <2>1. Round(records, n, g)[s] =
            IF s = {} THEN NoTrust ELSE ProcessRecord(g[s \ {Max(s)}], records[Max(s)])
    BY RoundValue
  <2>2. g = Round(records, n, g)
    BY <1>1 DEF FoldedBy
  <2> QED
    BY <2>1, <2>2, Zenon
<1>2. 0 \in S
  <2> SUFFICES ASSUME NEW n \in Nat, NEW g, NEW h, FoldedBy(records, n, g), FoldedBy(records, n, h),
                      NEW s \in SUBSET (1..0)
               PROVE  g[s] = h[s]
    OBVIOUS
  <2>1. s = {}
    <3>1. \A x : x \notin 1..0
      OBVIOUS
    <3> QED
      BY <3>1
  <2>2. s \in SUBSET (1..n)
    BY <2>1
  <2> QED
    BY <1>1, <2>1, <2>2
<1>3. \A m \in Nat : m \in S => m + 1 \in S
  <2> SUFFICES ASSUME NEW m \in Nat, m \in S PROVE m + 1 \in S
    OBVIOUS
  <2>s. \A n \in Nat : \A g, h :
            m <= n /\ FoldedBy(records, n, g) /\ FoldedBy(records, n, h) => Agree(g, h, m)
    OBVIOUS
  <2>0. SUFFICES \A n \in Nat : \A g, h :
            m + 1 <= n /\ FoldedBy(records, n, g) /\ FoldedBy(records, n, h) => Agree(g, h, m + 1)
    BY m + 1 \in Nat
  <2> HIDE DEF S
  <2> SUFFICES ASSUME NEW n \in Nat, NEW g, NEW h, m + 1 <= n,
                      FoldedBy(records, n, g), FoldedBy(records, n, h), NEW s \in SUBSET (1..(m + 1))
               PROVE  g[s] = h[s]
    OBVIOUS
  <2>1. Agree(g, h, m)
    BY <2>s, m <= n
  <2>2. s \in SUBSET (1..n)
    OBVIOUS
  <2>3. s # {} => g[s \ {Max(s)}] = h[s \ {Max(s)}]
    BY <2>1, RestIsSmaller
  <2> QED
    BY <1>1, <2>2, <2>3
<1>4. Nat \subseteq S
  <2> HIDE DEF S
  <2> QED
    BY <1>2, <1>3, SetInduction
<1>5. SUFFICES ASSUME NEW n \in Nat, NEW g, NEW h, FoldedBy(records, n, g), FoldedBy(records, n, h)
               PROVE  g = h
  OBVIOUS
<1>6. Agree(g, h, n)
  BY <1>4, <1>5, n <= n
<1>7. Round(records, n, g) = Round(records, n, h)
  <2>1. \A s \in SUBSET (1..n) : s \ {Max(s)} \in SUBSET (1..n)
    OBVIOUS
  <2> QED
    BY <1>6, <2>1 DEF Round
<1> QED
  BY <1>5, <1>7 DEF FoldedBy

LEMMA BuildStateFolds ==
    ASSUME NEW R, NEW records \in Seq(R)
    PROVE  \E g : FoldedBy(records, Len(records), g) /\ BuildState(records) = g[1..Len(records)]
<1> DEFINE g == CHOOSE f : FoldedBy(records, Len(records), f)
<1>1. Len(records) \in Nat /\ DOMAIN records = 1..Len(records)
  OBVIOUS
<1>2. \E f : FoldedBy(records, Len(records), f)
  BY <1>1, FoldExists
<1>3. FoldedBy(records, Len(records), g)
  BY <1>2, Zenon
<1>4. BuildState(records) = g[1..Len(records)]
  BY <1>1 DEF BuildState, FoldLeft, MapThenFoldSet, FoldedBy, Round
<1> QED
  BY <1>3, <1>4

LEMMA BuildStateEmpty == BuildState(<<>>) = NoTrust
<1>1. <<>> \in Seq(Nat) /\ Len(<<>>) = 0
  OBVIOUS
<1>2. PICK g : FoldedBy(<<>>, 0, g) /\ BuildState(<<>>) = g[1..0]
  BY <1>1, BuildStateFolds
<1>3. 1..0 = {}
  <2>1. \A x : x \notin 1..0
    OBVIOUS
  <2> QED
    BY <2>1
<1>4. Round(<<>>, 0, g)[1..0] = NoTrust
  BY <1>3, RoundValue
<1> QED
  BY <1>2, <1>4 DEF FoldedBy

\* A record more is processed last.
LEMMA BuildStateAppend ==
    ASSUME NEW R, NEW records \in Seq(R), NEW r \in R
    PROVE  BuildState(Append(records, r)) = ProcessRecord(BuildState(records), r)
<1> DEFINE n == Len(records)
           more == Append(records, r)
<1>1. n \in Nat /\ n + 1 \in Nat /\ more \in Seq(R) /\ Len(more) = n + 1 /\ more[n + 1] = r
      /\ \A i \in 1..n : more[i] = records[i]
  OBVIOUS
<1>2. PICK g : FoldedBy(records, n, g) /\ BuildState(records) = g[1..n]
  BY BuildStateFolds
<1>3. PICK h : FoldedBy(more, n + 1, h) /\ BuildState(more) = h[1..(n + 1)]
  BY <1>1, BuildStateFolds
<1> HIDE DEF n, more
<1> DEFINE k == [s \in SUBSET (1..n) |-> h[s]]
<1>4. \A s \in SUBSET (1..(n + 1)) :
        h[s] = IF s = {} THEN NoTrust ELSE ProcessRecord(h[s \ {Max(s)}], more[Max(s)])
  <2> SUFFICES ASSUME NEW s \in SUBSET (1..(n + 1))
               PROVE  h[s] = IF s = {} THEN NoTrust
                             ELSE ProcessRecord(h[s \ {Max(s)}], more[Max(s)])
    OBVIOUS
  <2>1. Round(more, n + 1, h)[s] = IF s = {} THEN NoTrust
                                   ELSE ProcessRecord(h[s \ {Max(s)}], more[Max(s)])
    BY <1>1, RoundValue
  <2>2. h = Round(more, n + 1, h)
    BY <1>3 DEF FoldedBy
  <2> QED
    BY <2>1, <2>2, Zenon
<1>5. FoldedBy(records, n, k)
  <2>1. \A s \in SUBSET (1..n) :
          h[s] = IF s = {} THEN NoTrust ELSE ProcessRecord(k[s \ {Max(s)}], records[Max(s)])
    <3> SUFFICES ASSUME NEW s \in SUBSET (1..n)
                 PROVE  h[s] = IF s = {} THEN NoTrust
                               ELSE ProcessRecord(k[s \ {Max(s)}], records[Max(s)])
      OBVIOUS
    <3>1. s \in SUBSET (1..(n + 1)) /\ s \ {Max(s)} \in SUBSET (1..n)
      <4>1. 1..n \subseteq 1..(n + 1)
        BY <1>1
      <4> QED
        BY <4>1, Zenon
    <3>2. CASE s = {}
      BY <1>4, <3>1, <3>2
    <3>3. CASE s # {}
      <4>1. Max(s) \in 1..n
        <5>1. Max(s) \in s
          BY <1>1, <3>3, GreatestOf
        <5> QED
          BY <5>1
      <4>2. more[Max(s)] = records[Max(s)] /\ k[s \ {Max(s)}] = h[s \ {Max(s)}]
        BY <1>1, <3>1, <4>1
      <4> QED
        BY <1>4, <3>1, <3>3, <4>2
    <3> QED
      BY <3>2, <3>3
  <2>2. k = Round(records, n, k)
    BY <2>1 DEF Round
  <2> QED
    BY <2>2 DEF FoldedBy
<1>6. k = g
  BY <1>1, <1>2, <1>5, FoldUnique
<1>7. 1..n \in SUBSET (1..n) /\ 1..(n + 1) \in SUBSET (1..(n + 1)) /\ 1..(n + 1) # {}
  <2>1. 1 \in 1..(n + 1)
    BY <1>1
  <2> QED
    BY <2>1
<1>8. Max(1..(n + 1)) = n + 1
  <2>1. Max(1..(n + 1)) \in 1..(n + 1) /\ \A y \in 1..(n + 1) : Max(1..(n + 1)) >= y
    BY <1>1, <1>7, GreatestOf
  <2>2. n + 1 \in 1..(n + 1)
    BY <1>1
  <2>3. PICK m \in 1..(n + 1) : m = Max(1..(n + 1))
    BY <2>1
  <2>4. m >= n + 1
    BY <2>1, <2>2, <2>3
  <2> QED
    BY <1>1, <2>3, <2>4
<1>9. (1..(n + 1)) \ {n + 1} = 1..n
  BY <1>1
<1>10. h[1..n] = g[1..n]
  BY <1>6, <1>7
<1>11. h[1..(n + 1)] = ProcessRecord(h[1..n], r)
  BY <1>1, <1>4, <1>7, <1>8, <1>9
<1> QED
  BY <1>2, <1>3, <1>10, <1>11 DEF more

-----------------------------------------------------------------------------
(* What a record can do to the state of trust *)

TrustState ==
    [active : SUBSET TrustKeys, revoked : SUBSET TrustKeys,
     bindings : SUBSET (BoundWriters \X TrustKeys), errors : BOOLEAN]

\* Errors stay, a revoked key stays revoked and is not active.
Follows(before, r, after) ==
    /\ after \in TrustState
    /\ before.errors => after.errors
    /\ before.revoked \subseteq after.revoked
    /\ before.active \cap before.revoked = {} => after.active \cap after.revoked = {}
    /\ r.type = "KEY_REVOKE" /\ ~after.errors => r.key \in after.revoked

LEMMA RejectedFollows ==
    ASSUME NEW c \in TrustState, NEW r \in Subjects
    PROVE  Follows(c, r, Rejected(c))
BY DEF Follows, TrustState, Rejected

LEMMA ProcessFollows ==
    ASSUME NEW c \in TrustState, NEW r \in Subjects
    PROVE  Follows(c, r, ProcessRecord(c, r))
<1>1. /\ r.type \in RecordTypes /\ r.key \in TrustKeys /\ r.writer \in BoundWriters
      /\ c.active \in SUBSET TrustKeys /\ c.revoked \in SUBSET TrustKeys
      /\ c.bindings \in SUBSET (BoundWriters \X TrustKeys) /\ c.errors \in BOOLEAN
  BY DEF Subjects, TrustState
<1>2. CASE ~IssuerKnown(c, r)
  <2>1. ProcessRecord(c, r) = Rejected(c)
    BY <1>2 DEF ProcessRecord
  <2> QED
    BY <2>1, RejectedFollows
<1>3. CASE IssuerKnown(c, r) /\ r.type = "KEY_ADD"
  <2>1. ProcessRecord(c, r) = HandleKeyAdd(c, r)
    BY <1>3 DEF ProcessRecord
  <2>2. CASE r.key \in c.revoked \cup c.active
    BY <2>1, <2>2, RejectedFollows DEF HandleKeyAdd
  <2>3. CASE r.key \notin c.revoked \cup c.active
    <3>1. HandleKeyAdd(c, r) = [c EXCEPT !.active = @ \cup {r.key}]
      BY <2>3 DEF HandleKeyAdd
    <3> QED
      BY <1>1, <1>3, <2>1, <2>3, <3>1 DEF Follows, TrustState
  <2> QED
    BY <2>2, <2>3
<1>4. CASE IssuerKnown(c, r) /\ r.type = "KEY_REVOKE"
  <2>1. ProcessRecord(c, r) = HandleKeyRevoke(c, r)
    BY <1>4 DEF ProcessRecord
  <2>2. CASE r.key \notin c.active
    BY <2>1, <2>2, RejectedFollows DEF HandleKeyRevoke
  <2>3. CASE r.key \in c.active
    <3>1. HandleKeyRevoke(c, r) =
              [c EXCEPT !.active = @ \ {r.key}, !.revoked = @ \cup {r.key}]
      BY <2>3 DEF HandleKeyRevoke
    <3> QED
      BY <1>1, <2>1, <2>3, <3>1, ZenonT(40) DEF Follows, TrustState
  <2> QED
    BY <2>2, <2>3
<1>5. CASE IssuerKnown(c, r) /\ r.type = "WRITER_BIND_ADD"
  <2>1. ProcessRecord(c, r) = HandleBindAdd(c, r)
    BY <1>5 DEF ProcessRecord
  <2>2. CASE r.key \notin c.active
    BY <2>1, <2>2, RejectedFollows DEF HandleBindAdd
  <2>3. CASE r.key \in c.active
    <3>1. HandleBindAdd(c, r) = [c EXCEPT !.bindings = @ \cup {<<r.writer, r.key>>}]
      BY <2>3 DEF HandleBindAdd
    <3> QED
      BY <1>1, <1>5, <2>1, <2>3, <3>1 DEF Follows, TrustState
  <2> QED
    BY <2>2, <2>3
<1>6. CASE IssuerKnown(c, r) /\ r.type = "WRITER_BIND_REVOKE"
  <2>1. ProcessRecord(c, r) = HandleBindRevoke(c, r)
    BY <1>6 DEF ProcessRecord
  <2>2. CASE <<r.writer, r.key>> \notin c.bindings
    BY <2>1, <2>2, RejectedFollows DEF HandleBindRevoke
  <2>3. CASE <<r.writer, r.key>> \in c.bindings
    <3>1. HandleBindRevoke(c, r) = [c EXCEPT !.bindings = @ \ {<<r.writer, r.key>>}]
      BY <2>3 DEF HandleBindRevoke
    <3> QED
      BY <1>1, <1>6, <2>1, <2>3, <3>1 DEF Follows, TrustState
  <2> QED
    BY <2>2, <2>3
<1> QED
  BY <1>1, <1>2, <1>3, <1>4, <1>5, <1>6 DEF RecordTypes

-----------------------------------------------------------------------------
(* The trust chain is all of the ledger *)

TrustLinked ==
    /\ ref = Len(ledger)
    /\ \A i \in DOMAIN ledger : ledger[i].parent = i - 1

LEMMA TrustInitial == TrustInit => TrustTypeOK /\ TrustLinked
<1> SUFFICES ASSUME TrustInit PROVE TrustTypeOK /\ TrustLinked
  OBVIOUS
<1>1. ledger = <<>> /\ ref = 0 /\ confirmed = {} /\ admin = [a \in Admins |-> NoCall]
  BY DEF TrustInit
<1>2. ledger \in Seq(TrustRecord) /\ Len(ledger) = 0 /\ DOMAIN ledger = {}
  BY <1>1
<1>3. ref \in 0..Len(ledger)
  BY <1>1, <1>2
<1> QED
  BY <1>1, <1>2, <1>3 DEF TrustTypeOK, TrustLinked

LEMMA RetryTyped ==
    ASSUME TrustTypeOK, NEW a \in Admins, admin[a].pc # "idle", NEW mismatch,
           RetryOrThrow(a, mismatch)
    PROVE  admin' \in [Admins -> {NoCall} \cup AppendCall]
<1>1. admin[a] \in AppendCall /\ admin \in [Admins -> {NoCall} \cup AppendCall]
  BY DEF TrustTypeOK, NoCall
<1>2. [admin[a] EXCEPT !.pc = "retry", !.parent = 0] \in AppendCall
  BY <1>1 DEF AppendCall
<1> QED
  BY <1>1, <1>2 DEF RetryOrThrow

LEMMA PublishedTyped ==
    ASSUME TrustTypeOK, TrustLinked, NEW a \in Admins, admin[a].pc = "persist",
           ref = admin[a].parent, Published(a)
    PROVE  /\ ledger' \in Seq(TrustRecord) /\ Len(ledger') = Len(ledger) + 1
           /\ ref' \in 0..Len(ledger')
           /\ DOMAIN ledger \subseteq DOMAIN ledger' /\ Len(ledger) + 1 \in DOMAIN ledger'
           /\ TrustLinked'
<1> DEFINE r == [record |-> admin[a].record, prev |-> admin[a].prev, parent |-> admin[a].parent]
<1>1. admin[a] \in AppendCall
  BY DEF TrustTypeOK, NoCall
<1>2. r \in TrustRecord /\ r.parent = Len(ledger)
  BY <1>1 DEF TrustRecord, AppendCall, TrustLinked
<1>3. ledger' = Append(ledger, r) /\ ref' = Len(ledger) + 1 /\ ledger \in Seq(TrustRecord)
  BY DEF Published, TrustTypeOK
<1> HIDE DEF r
<1>4. /\ ledger' \in Seq(TrustRecord) /\ Len(ledger') = Len(ledger) + 1 /\ Len(ledger) \in Nat
      /\ DOMAIN ledger = 1..Len(ledger) /\ DOMAIN ledger' = 1..(Len(ledger) + 1)
      /\ ledger'[Len(ledger) + 1] = r /\ \A i \in DOMAIN ledger : ledger'[i] = ledger[i]
  BY <1>2, <1>3
<1>5. \A i \in DOMAIN ledger' : ledger'[i].parent = i - 1
  <2> SUFFICES ASSUME NEW i \in DOMAIN ledger' PROVE ledger'[i].parent = i - 1
    OBVIOUS
  <2>1. CASE i \in DOMAIN ledger
    BY <1>4, <2>1 DEF TrustLinked
  <2>2. CASE i = Len(ledger) + 1
    BY <1>2, <1>4, <2>2
  <2> QED
    BY <1>4, <2>1, <2>2
<1> QED
  BY <1>3, <1>4, <1>5 DEF TrustLinked

LEMMA TrustStep == TrustTypeOK /\ TrustLinked /\ [TrustNext]_trustVars => TrustTypeOK' /\ TrustLinked'
<1> SUFFICES ASSUME TrustTypeOK, TrustLinked, [TrustNext]_trustVars
             PROVE  TrustTypeOK' /\ TrustLinked'
  OBVIOUS
<1>1. CASE UNCHANGED trustVars
  BY <1>1 DEF trustVars, TrustTypeOK, TrustLinked
<1>2. ASSUME UNCHANGED <<ledger, ref, confirmed>>, admin' \in [Admins -> {NoCall} \cup AppendCall]
      PROVE  TrustTypeOK' /\ TrustLinked'
  BY <1>2 DEF TrustTypeOK, TrustLinked
<1>3. ASSUME NEW a \in Admins,
             \/ \E r \in Subjects, resign \in BOOLEAN : AppendRecordWithRetry(a, r, resign)
             \/ CheckTip(a) \/ Retry(a)
             \/ Persist(a) \/ PersistConflicts(a) \/ PersistUnanswered(a) \/ PersistFails(a)
      PROVE  TrustTypeOK' /\ TrustLinked'
  <2>1. admin \in [Admins -> {NoCall} \cup AppendCall] /\ ref \in Nat
        /\ (admin[a].pc # "idle" => admin[a] \in AppendCall)
    BY DEF TrustTypeOK, NoCall
  <2>2. ASSUME NEW r \in Subjects, NEW resign \in BOOLEAN, AppendRecordWithRetry(a, r, resign)
        PROVE  TrustTypeOK' /\ TrustLinked'
    <3>1. [pc |-> "check", record |-> r, prev |-> ref, parent |-> 0, resign |-> resign,
           attempt |-> 1] \in AppendCall
      BY <2>1 DEF AppendCall
    <3> QED
      BY <1>2, <2>1, <2>2, <3>1 DEF AppendRecordWithRetry
  <2>3. CASE CheckTip(a)
    <3>1. CASE RetryOrThrow(a, TRUE)
      BY <1>2, <2>3, <3>1, RetryTyped DEF CheckTip
    <3>2. CASE ~RetryOrThrow(a, TRUE)
      <4>1. [admin[a] EXCEPT !.pc = "persist", !.parent = ref] \in AppendCall
        BY <2>1, <2>3 DEF AppendCall, CheckTip
      <4>2. admin' = [admin EXCEPT ![a] = [admin[a] EXCEPT !.pc = "persist", !.parent = ref]]
        BY <2>1, <2>3, <3>2 DEF CheckTip
      <4> QED
        BY <1>2, <2>1, <2>3, <4>1, <4>2 DEF CheckTip
    <3> QED
      BY <3>1, <3>2
  <2>4. CASE Retry(a)
    <3>1. [admin[a] EXCEPT !.pc = "check", !.prev = ref, !.attempt = @ + 1] \in AppendCall
      <4>1. [admin[a] EXCEPT !.pc = "check", !.prev = ref] \in AppendCall
        BY <2>1, <2>4 DEF AppendCall, Retry
      <4>2. \A c \in AppendCall : [c EXCEPT !.attempt = @ + 1] \in AppendCall
        BY DEF AppendCall
      <4> QED
        BY <4>1, <4>2
    <3> QED
      BY <1>2, <2>1, <2>4, <3>1 DEF Retry
  <2>5. CASE Persist(a)
    <3>1. /\ ledger' \in Seq(TrustRecord) /\ ref' \in 0..Len(ledger')
          /\ DOMAIN ledger \subseteq DOMAIN ledger' /\ Len(ledger) + 1 \in DOMAIN ledger'
          /\ TrustLinked'
      BY <2>5, PublishedTyped DEF Persist
    <3> QED
      BY <2>1, <2>5, <3>1 DEF Persist, TrustTypeOK
  <2>6. CASE PersistConflicts(a)
    BY <1>2, <2>6, RetryTyped DEF PersistConflicts
  <2>7. CASE PersistUnanswered(a)
    <3>1. /\ ledger' \in Seq(TrustRecord) /\ ref' \in 0..Len(ledger')
          /\ DOMAIN ledger \subseteq DOMAIN ledger' /\ TrustLinked'
      BY <2>7, PublishedTyped DEF PersistUnanswered
    <3>2. admin' \in [Admins -> {NoCall} \cup AppendCall]
      BY <2>7, RetryTyped DEF PersistUnanswered
    <3> QED
      BY <2>7, <3>1, <3>2 DEF PersistUnanswered, TrustTypeOK
  <2>8. CASE PersistFails(a)
    BY <1>2, <2>1, <2>8 DEF PersistFails
  <2> QED
    BY <1>3, <2>2, <2>3, <2>4, <2>5, <2>6, <2>7, <2>8
<1> QED
  BY <1>1, <1>3 DEF TrustNext

LEMMA RecordsToAll ==
    ASSUME TrustTypeOK, TrustLinked, NEW tip \in 0..Len(ledger)
    PROVE  RecordsTo(tip) = [i \in 1..tip |-> ledger[i].record]
<1> DEFINE N == Len(ledger)
           Step(f) == [i \in 0..N |-> IF i = 0 THEN <<>>
                                     ELSE Append(f[ledger[i].parent], ledger[i].record)]
           walk == CHOOSE f : f = Step(f)
           first(n) == [i \in 1..n |-> ledger[i].record]
           whole == [n \in 0..N |-> first(n)]
<1>1. /\ N \in Nat /\ DOMAIN ledger = 1..N
      /\ \A i \in 0..N : i # 0 => ledger[i].parent = i - 1 /\ i - 1 \in 0..N
      /\ \A i \in 1..N : ledger[i].record \in Subjects
  <2>1. \A i \in 1..Len(ledger) : ledger[i] \in TrustRecord
    BY DEF TrustTypeOK
  <2> QED
    BY <2>1, SMTT(20) DEF TrustTypeOK, TrustLinked, TrustRecord
<1>2. first(0) = <<>>
  <2>1. \A x : x \notin 1..0
    OBVIOUS
  <2> QED
    BY <2>1
<1>3. \A i \in 0..N : i # 0 => first(i) = Append(first(i - 1), ledger[i].record)
  <2> SUFFICES ASSUME NEW i \in 0..N, i # 0
               PROVE  first(i) = Append(first(i - 1), ledger[i].record)
    OBVIOUS
  <2>1. first(i - 1) \in Seq(Subjects) /\ Len(first(i - 1)) = i - 1
    BY <1>1
  <2>2. first(i) \in Seq(Subjects) /\ Len(first(i)) = i
    BY <1>1
  <2>3. ledger[i].record \in Subjects
    BY <1>1
  <2> QED
    BY <1>1, <2>1, <2>2, <2>3
<1>4. whole = Step(whole)
  <2>1. \A i \in 0..N : first(i) = IF i = 0 THEN <<>>
                                   ELSE Append(whole[ledger[i].parent], ledger[i].record)
    <3> SUFFICES ASSUME NEW i \in 0..N
                 PROVE  first(i) = IF i = 0 THEN <<>>
                                   ELSE Append(whole[ledger[i].parent], ledger[i].record)
      OBVIOUS
    <3> HIDE DEF first
    <3>1. CASE i = 0
      BY <1>2, <3>1
    <3>2. CASE i # 0
      <4>1. whole[ledger[i].parent] = first(i - 1)
        BY <1>1, <3>2
      <4> QED
        BY <1>3, <3>2, <4>1
    <3> QED
      BY <3>1, <3>2
  <2> HIDE DEF first
  <2> QED
    BY <2>1
<1>5. walk = Step(walk)
  <2> HIDE DEF whole, Step
  <2>1. \E f : f = Step(f)
    BY <1>4
  <2> QED
    BY <2>1, Zenon
<1>6. RecordsTo(tip) = walk[tip]
  BY DEF RecordsTo
<1> HIDE DEF walk, first
<1>7. \A i \in 0..N : walk[i] = IF i = 0 THEN <<>>
                                ELSE Append(walk[ledger[i].parent], ledger[i].record)
  BY <1>5
<1> DEFINE S == {n \in Nat : n <= N => walk[n] = first(n)}
<1>8. 0 \in S
  <2>1. 0 \in 0..N
    BY <1>1
  <2>2. walk[0] = <<>>
    BY <1>7, <2>1
  <2> QED
    BY <1>2, <2>2
<1>9. \A n \in Nat : n \in S => n + 1 \in S
  <2> SUFFICES ASSUME NEW n \in Nat, n \in S, n + 1 <= N PROVE walk[n + 1] = first(n + 1)
    OBVIOUS
  <2>1. n + 1 \in 0..N /\ n + 1 # 0 /\ n <= N /\ (n + 1) - 1 = n
    BY <1>1
  <2>2. walk[n] = first(n)
    BY <2>1
  <2>3. ledger[n + 1].parent = n
    BY <1>1, <2>1
  <2>4. walk[n + 1] = Append(walk[n], ledger[n + 1].record)
    BY <1>7, <2>1, <2>3
  <2>5. first(n + 1) = Append(first(n), ledger[n + 1].record)
    BY <1>3, <2>1
  <2> QED
    BY <2>2, <2>4, <2>5
<1>10. tip \in S
  <2> HIDE DEF S
  <2> QED
    BY <1>1, <1>8, <1>9, SetInduction
<1> QED
  BY <1>1, <1>6, <1>10 DEF first

-----------------------------------------------------------------------------
(* Trust along the chain *)

StateAfter(n) == BuildState([i \in 1..n |-> ledger[i].record])

LEMMA StateAfterStep ==
    ASSUME TrustTypeOK, NEW n \in Nat, n + 1 <= Len(ledger)
    PROVE  StateAfter(n + 1) = ProcessRecord(StateAfter(n), ledger[n + 1].record)
<1> DEFINE q == [i \in 1..n |-> ledger[i].record]
           r == ledger[n + 1].record
           more == [i \in 1..(n + 1) |-> ledger[i].record]
<1>1. \A i \in 1..(n + 1) : ledger[i].record \in Subjects
  <2>1. \A i \in 1..(n + 1) : ledger[i] \in TrustRecord
    BY DEF TrustTypeOK
  <2> QED
    BY <2>1 DEF TrustRecord
<1>2. q \in Seq(Subjects) /\ Len(q) = n /\ r \in Subjects
  BY <1>1
<1>3. more \in Seq(Subjects) /\ Len(more) = n + 1
  BY <1>1
<1>4. more = Append(q, r)
  BY <1>1, <1>2, <1>3
<1> HIDE DEF q, r, more
<1>5. BuildState(Append(q, r)) = ProcessRecord(BuildState(q), r)
  BY <1>2, BuildStateAppend
<1> QED
  BY <1>4, <1>5 DEF StateAfter, q, r, more

LEMMA StateAfterNone == StateAfter(0) = NoTrust
<1>1. [i \in 1..0 |-> ledger[i].record] = <<>>
  <2>1. \A x : x \notin 1..0
    OBVIOUS
  <2> QED
    BY <2>1
<1> QED
  BY <1>1, BuildStateEmpty DEF StateAfter

LEMMA StateAfterSane ==
    ASSUME TrustTypeOK
    PROVE  \A n \in Nat : n <= Len(ledger) =>
               /\ StateAfter(n) \in TrustState
               /\ StateAfter(n).active \cap StateAfter(n).revoked = {}
<1> DEFINE Sane(n) == /\ StateAfter(n) \in TrustState
                      /\ StateAfter(n).active \cap StateAfter(n).revoked = {}
           S == {n \in Nat : n <= Len(ledger) => Sane(n)}
<1>1. 0 \in S
  <2>1. NoTrust \in TrustState /\ NoTrust.active \cap NoTrust.revoked = {}
    BY DEF NoTrust, TrustState
  <2> QED
    BY <2>1, StateAfterNone
<1>2. \A n \in Nat : n \in S => n + 1 \in S
  <2> HIDE DEF Sane
  <2> SUFFICES ASSUME NEW n \in Nat, n \in S, n + 1 <= Len(ledger) PROVE Sane(n + 1)
    OBVIOUS
  <2> USE DEF Sane
  <2>1. ledger[n + 1] \in TrustRecord /\ n <= Len(ledger)
    BY DEF TrustTypeOK
  <2>2. ledger[n + 1].record \in Subjects
    BY <2>1 DEF TrustRecord
  <2>3. Sane(n)
    BY <2>1
  <2>4. Follows(StateAfter(n), ledger[n + 1].record, StateAfter(n + 1))
    BY <2>2, <2>3, StateAfterStep, ProcessFollows
  <2> QED
    BY <2>3, <2>4 DEF Follows
<1> HIDE DEF S
<1>3. Nat \subseteq S
  BY <1>1, <1>2, SetInduction
<1> QED
  BY <1>3 DEF S

\* From the record that revokes a key on: either the chain has an error, or the key is
\* revoked.
LEMMA RevokedStays ==
    ASSUME TrustTypeOK, NEW i \in DOMAIN ledger, ledger[i].record.type = "KEY_REVOKE"
    PROVE  \A m \in Nat : i + m <= Len(ledger) =>
               (~StateAfter(i + m).errors => ledger[i].record.key \in StateAfter(i + m).revoked)
<1> DEFINE k == ledger[i].record.key
           Held(n) == ~StateAfter(n).errors => k \in StateAfter(n).revoked
           S == {m \in Nat : i + m <= Len(ledger) => Held(i + m)}
<1>1. i \in Nat /\ i >= 1 /\ i <= Len(ledger) /\ Len(ledger) \in Nat
  BY DEF TrustTypeOK
<1>2. ASSUME NEW n \in Nat, n + 1 <= Len(ledger)
      PROVE  Follows(StateAfter(n), ledger[n + 1].record, StateAfter(n + 1))
  <2>1. ledger[n + 1] \in TrustRecord /\ n <= Len(ledger)
    BY <1>2 DEF TrustTypeOK
  <2>2. ledger[n + 1].record \in Subjects
    BY <2>1 DEF TrustRecord
  <2>3. StateAfter(n) \in TrustState
    BY <2>1, StateAfterSane
  <2> QED
    BY <1>2, <2>2, <2>3, StateAfterStep, ProcessFollows
<1>3. 0 \in S
  <2>1. PICK n \in Nat : i = n + 1
    <3>1. i - 1 \in Nat /\ i = (i - 1) + 1
      BY <1>1
    <3> QED
      BY <3>1
  <2>2. Follows(StateAfter(n), ledger[n + 1].record, StateAfter(n + 1))
    BY <1>1, <1>2, <2>1
  <2>3. Held(i)
    BY <2>1, <2>2 DEF Follows
  <2>4. i + 0 = i
    BY <1>1
  <2> QED
    BY <2>3, <2>4
<1>4. \A m \in Nat : m \in S => m + 1 \in S
  <2> SUFFICES ASSUME NEW m \in Nat, m \in S, i + (m + 1) <= Len(ledger)
               PROVE  Held(i + (m + 1))
    OBVIOUS
  <2>1. i + m \in Nat /\ (i + m) + 1 <= Len(ledger) /\ i + m <= Len(ledger)
        /\ i + (m + 1) = (i + m) + 1
    BY <1>1
  <2>2. Held(i + m)
    BY <2>1
  <2>3. Follows(StateAfter(i + m), ledger[(i + m) + 1].record, StateAfter((i + m) + 1))
    BY <1>2, <2>1
  <2>4. Held((i + m) + 1)
    BY <2>2, <2>3 DEF Follows
  <2> QED
    BY <2>1, <2>4
<1> HIDE DEF S
<1>5. Nat \subseteq S
  BY <1>3, <1>4, SetInduction
<1> QED
  BY <1>5 DEF S

\* Once an administrator was told that a key is revoked, nobody is trusted through it
\* again, whoever else appends, retries or loses an answer (TrustRecordService,
\* GitTrustChainAdapter, TrustStateBuilder, evaluateWriters).
THEOREM RevocationsHold == TrustSpec => []RevocationHolds
<1>1. TrustTypeOK /\ TrustLinked => RevocationHolds
  <2> SUFFICES ASSUME TrustTypeOK, TrustLinked, NEW i \in confirmed,
                      ledger[i].record.type = "KEY_REVOKE", NEW w \in BoundWriters,
                      TrustedThrough(w, ledger[i].record.key)
               PROVE  FALSE
    BY DEF RevocationHolds
  <2>1. i \in DOMAIN ledger /\ i \in Nat /\ i <= Len(ledger) /\ Len(ledger) \in Nat
        /\ ref = Len(ledger) /\ ref \in 0..Len(ledger)
    BY DEF TrustTypeOK, TrustLinked
  <2>2. RecordsTo(ref) = [j \in 1..ref |-> ledger[j].record]
    BY <2>1, RecordsToAll
  <2>3. ~StateAfter(ref).errors /\ ledger[i].record.key \in StateAfter(ref).active
    BY <2>2 DEF TrustedThrough, StateAfter
  <2>4. StateAfter(ref).active \cap StateAfter(ref).revoked = {}
    BY <2>1, StateAfterSane
  <2>5. ref - i \in Nat /\ i + (ref - i) = ref
    BY <2>1
  <2>6. ledger[i].record.key \in StateAfter(ref).revoked
    BY <2>1, <2>3, <2>5, RevokedStays
  <2> QED
    BY <2>3, <2>4, <2>6
<1>2. TrustSpec => [](TrustTypeOK /\ TrustLinked)
  BY TrustInitial, TrustStep, PTL DEF TrustSpec
<1> QED
  BY <1>1, <1>2, PTL
=============================================================================
