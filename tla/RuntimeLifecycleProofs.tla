----------------------- MODULE RuntimeLifecycleProofs -----------------------
(***************************************************************************)
(* Theorems about RuntimeLifecycle for any number of calls, mutations and  *)
(* observations and for every consumer, the impatient ones included: types *)
(* (LifecycleTypes), the storage outlives its users (StorageOutlivesUse),  *)
(* mutations do not overlap (GateExcludes), and an observation whose       *)
(* receipt says completed has read every plan (ReceiptsAreTrue).           *)
(***************************************************************************)
EXTENDS RuntimeLifecycle, TLAPS, SequenceTheorems

(* Every step of the specification keeps the types. *)
LEMMA TypesStep == TypeOK /\ [Next]_vars => TypeOK'
<1> SUFFICES ASSUME TypeOK, [Next]_vars PROVE TypeOK'  OBVIOUS
<1> USE DEF TypeOK, closeVars, taskVars, gateVars, streamVars, observationVars
<1>1. CASE UNCHANGED vars
    BY <1>1 DEF vars, CallsTyped, GateTyped, ObservationsTyped, StreamsTyped
<1>2. CASE Close
    BY <1>2 DEF Close, CallsTyped, GateTyped, ObservationsTyped, StreamsTyped
<1>3. CASE Release
    BY <1>3 DEF Release, CallsTyped, GateTyped, ObservationsTyped, StreamsTyped
<1>4. ASSUME NEW t \in Tasks, TaskStep(t) PROVE TypeOK'
  <2>1. CASE CallTask(t)
    <3>1. CallsTyped'  BY <2>1 DEF CallTask, Tracked, CallsTyped, Ids
    <3>2. GateTyped'  BY <2>1 DEF CallTask, Tracked, GateTyped
    <3>3. ObservationsTyped'  BY <2>1 DEF CallTask, Tracked, ObservationsTyped
    <3>4. StreamsTyped'  BY <2>1 DEF CallTask, Tracked, StreamsTyped
    <3> QED BY <3>1, <3>2, <3>3, <3>4
  <2>2. CASE EndTask(t)
    <3>1. CallsTyped'  BY <2>2 DEF EndTask, Untracked, CallsTyped, Ids
    <3>2. GateTyped'  BY <2>2 DEF EndTask, Untracked, GateTyped
    <3>3. ObservationsTyped'  BY <2>2 DEF EndTask, Untracked, ObservationsTyped
    <3>4. StreamsTyped'  BY <2>2 DEF EndTask, Untracked, StreamsTyped
    <3> QED BY <3>1, <3>2, <3>3, <3>4
  <2> QED BY <1>4, <2>1, <2>2 DEF TaskStep
<1>5. ASSUME NEW m \in Mutations, MutationStep(m) PROVE TypeOK'
  <2>1. CASE CallMutation(m)
    <3>1. CallsTyped'  BY <2>1 DEF CallMutation, Tracked, CallsTyped, Ids
    <3>2. GateTyped'
      <4>1. GateTyped => Append(calls, m) \in Seq(Mutations)  BY DEF GateTyped
      <4> QED BY <2>1, <4>1 DEF CallMutation, Tracked, GateTyped
    <3>3. ObservationsTyped'  BY <2>1 DEF CallMutation, Tracked, ObservationsTyped
    <3>4. StreamsTyped'  BY <2>1 DEF CallMutation, Tracked, StreamsTyped
    <3> QED BY <3>1, <3>2, <3>3, <3>4
  <2>2. CASE JoinQueue(m)
    <3>1. CallsTyped'  BY <2>2 DEF JoinQueue, CallsTyped, Ids
    <3>2. GateTyped'
      <4>1. GateTyped => Append(turns, m) \in Seq(Mutations)  BY DEF GateTyped
      <4>2. GateTyped /\ calls # <<>> => Tail(calls) \in Seq(Mutations)
          BY DEF GateTyped
      <4> QED BY <2>2, <4>1, <4>2 DEF JoinQueue, GateTyped
    <3>3. ObservationsTyped'  BY <2>2 DEF JoinQueue, ObservationsTyped
    <3>4. StreamsTyped'  BY <2>2 DEF JoinQueue, StreamsTyped
    <3> QED BY <3>1, <3>2, <3>3, <3>4
  <2>3. CASE TakeTurn(m)
    <3>1. CallsTyped'  BY <2>3 DEF TakeTurn, CallsTyped, Ids
    <3>2. GateTyped'  BY <2>3 DEF TakeTurn, GateTyped
    <3>3. ObservationsTyped'  BY <2>3 DEF TakeTurn, ObservationsTyped
    <3>4. StreamsTyped'  BY <2>3 DEF TakeTurn, StreamsTyped
    <3> QED BY <3>1, <3>2, <3>3, <3>4
  <2>4. CASE EndMutation(m)
    <3>1. CallsTyped'  BY <2>4 DEF EndMutation, Resolved, Untracked, CallsTyped, Ids
    <3>2. GateTyped'  BY <2>4 DEF EndMutation, Resolved, Untracked, GateTyped
    <3>3. ObservationsTyped'  BY <2>4 DEF EndMutation, Resolved, Untracked, ObservationsTyped
    <3>4. StreamsTyped'  BY <2>4 DEF EndMutation, Resolved, Untracked, StreamsTyped
    <3> QED BY <3>1, <3>2, <3>3, <3>4
  <2> QED BY <1>5, <2>1, <2>2, <2>3, <2>4 DEF MutationStep
<1>6. ASSUME NEW o \in Observations, ObservationStep(o) PROVE TypeOK'
  <2>1. CASE Started(o)
    <3>1. CallsTyped'  BY <2>1 DEF Started, CallsTyped, Ids
    <3>2. GateTyped'  BY <2>1 DEF Started, GateTyped
    <3>3. ObservationsTyped'  BY <2>1 DEF Started, ObservationsTyped
    <3>4. StreamsTyped'  BY <2>1 DEF Started, StreamsTyped
    <3> QED BY <3>1, <3>2, <3>3, <3>4
  <2>2. CASE StartFails(o)
    <3>1. CallsTyped'  BY <2>2 DEF StartFails, Untracked, CallsTyped, Ids
    <3>2. GateTyped'  BY <2>2 DEF StartFails, Untracked, GateTyped
    <3>3. ObservationsTyped'  BY <2>2 DEF StartFails, Untracked, ObservationsTyped
    <3>4. StreamsTyped'  BY <2>2 DEF StartFails, Untracked, StreamsTyped
    <3> QED BY <3>1, <3>2, <3>3, <3>4
  <2>3. CASE NextRejects(o)
    <3>1. CallsTyped'  BY <2>3 DEF NextRejects, CallsTyped, Ids
    <3>2. GateTyped'  BY <2>3 DEF NextRejects, GateTyped
    <3>3. ObservationsTyped'  BY <2>3 DEF NextRejects, ObservationsTyped
    <3>4. StreamsTyped'  BY <2>3 DEF NextRejects, StreamsTyped
    <3> QED BY <3>1, <3>2, <3>3, <3>4
  <2>4. CASE BindIterator(o)
    <3>1. CallsTyped'  BY <2>4 DEF BindIterator, CallsTyped, Ids
    <3>2. GateTyped'  BY <2>4 DEF BindIterator, GateTyped
    <3>3. ObservationsTyped'  BY <2>4 DEF BindIterator, ObservationsTyped
    <3>4. StreamsTyped'  BY <2>4 DEF BindIterator, StreamsTyped
    <3> QED BY <3>1, <3>2, <3>3, <3>4
  <2>5. CASE Pull(o)
    <3>1. CallsTyped'  BY <2>5 DEF Pull, CallsTyped, Ids
    <3>2. GateTyped'  BY <2>5 DEF Pull, GateTyped
    <3>3. ObservationsTyped'  BY <2>5 DEF Pull, ObservationsTyped
    <3>4. StreamsTyped'  BY <2>5 DEF Pull, StreamsTyped
    <3> QED BY <3>1, <3>2, <3>3, <3>4
  <2>6. CASE Yield(o)
    <3>1. CallsTyped'  BY <2>6 DEF Yield, Cancelled, Ends, Untracked, CallsTyped, Ids
    <3>2. GateTyped'  BY <2>6 DEF Yield, Cancelled, Ends, Untracked, GateTyped
    <3>3. ObservationsTyped'  BY <2>6 DEF Yield, Cancelled, Ends, Untracked, ObservationsTyped
    <3>4. StreamsTyped'  BY <2>6 DEF Yield, Cancelled, Ends, Untracked, StreamsTyped
    <3> QED BY <3>1, <3>2, <3>3, <3>4
  <2>7. CASE Unresolved(o)
    <3>1. CallsTyped'  BY <2>7 DEF Unresolved, StreamEnds, Ends, Untracked, CallsTyped, Ids
    <3>2. GateTyped'  BY <2>7 DEF Unresolved, StreamEnds, Ends, Untracked, GateTyped
    <3>3. ObservationsTyped'  BY <2>7 DEF Unresolved, StreamEnds, Ends, Untracked,
        ObservationsTyped
    <3>4. StreamsTyped'  BY <2>7 DEF Unresolved, StreamEnds, Ends, Untracked, StreamsTyped
    <3> QED BY <3>1, <3>2, <3>3, <3>4
  <2>8. CASE ReadFails(o)
    <3>1. CallsTyped'  BY <2>8 DEF ReadFails, StreamEnds, Ends, Untracked, CallsTyped, Ids
    <3>2. GateTyped'  BY <2>8 DEF ReadFails, StreamEnds, Ends, Untracked, GateTyped
    <3>3. ObservationsTyped'  BY <2>8 DEF ReadFails, StreamEnds, Ends, Untracked,
        ObservationsTyped
    <3>4. StreamsTyped'  BY <2>8 DEF ReadFails, StreamEnds, Ends, Untracked, StreamsTyped
    <3> QED BY <3>1, <3>2, <3>3, <3>4
  <2>9. CASE Exhausted(o)
    <3>1. CallsTyped'  BY <2>9 DEF Exhausted, StreamEnds, Ends, Untracked, CallsTyped, Ids
    <3>2. GateTyped'  BY <2>9 DEF Exhausted, StreamEnds, Ends, Untracked, GateTyped
    <3>3. ObservationsTyped'  BY <2>9 DEF Exhausted, StreamEnds, Ends, Untracked,
        ObservationsTyped
    <3>4. StreamsTyped'  BY <2>9 DEF Exhausted, StreamEnds, Ends, Untracked, StreamsTyped
    <3> QED BY <3>1, <3>2, <3>3, <3>4
  <2>10. CASE Advance(o)
    <3>1. CallsTyped'  BY <2>10 DEF Advance, DemandExecution, Tracked, CallsTyped, Ids
    <3>2. GateTyped'  BY <2>10 DEF Advance, DemandExecution, Tracked, GateTyped
    <3>3. ObservationsTyped'  BY <2>10 DEF Advance, DemandExecution, Tracked, ObservationsTyped
    <3>4. StreamsTyped'  BY <2>10 DEF Advance, DemandExecution, Tracked, StreamsTyped
    <3> QED BY <3>1, <3>2, <3>3, <3>4
  <2>11. CASE DemandReceipt(o)
    <3>1. CallsTyped'  BY <2>11 DEF DemandReceipt, DemandExecution, Tracked, CallsTyped, Ids
    <3>2. GateTyped'  BY <2>11 DEF DemandReceipt, DemandExecution, Tracked, GateTyped
    <3>3. ObservationsTyped'  BY <2>11 DEF DemandReceipt, DemandExecution, Tracked,
        ObservationsTyped
    <3>4. StreamsTyped'  BY <2>11 DEF DemandReceipt, DemandExecution, Tracked, StreamsTyped
    <3> QED BY <3>1, <3>2, <3>3, <3>4
  <2>12. CASE Return(o)
    <3>1. CallsTyped'  BY <2>12 DEF Return, Cancelled, Ends, Untracked, CallsTyped, Ids
    <3>2. GateTyped'  BY <2>12 DEF Return, Cancelled, Ends, Untracked, GateTyped
    <3>3. ObservationsTyped'  BY <2>12 DEF Return, Cancelled, Ends, Untracked, ObservationsTyped
    <3>4. StreamsTyped'  BY <2>12 DEF Return, Cancelled, Ends, Untracked, StreamsTyped
    <3> QED BY <3>1, <3>2, <3>3, <3>4
  <2> QED BY <1>6, <2>1, <2>2, <2>3, <2>4, <2>5, <2>6, <2>7, <2>8, <2>9, <2>10, <2>11,
      <2>12 DEF ObservationStep, ExecutionStep
<1> QED BY <1>1, <1>2, <1>3, <1>4, <1>5, <1>6 DEF Next

(* Every variable keeps its type, for any calls and any consumer. *)
THEOREM LifecycleTypes == Spec => []TypeOK
<1>1. Init => TypeOK
    BY LifecycleAssumption DEF Init, TypeOK, CallsTyped, GateTyped,
       ObservationsTyped, StreamsTyped
<1> QED BY <1>1, TypesStep, PTL DEF Spec


-----------------------------------------------------------------------------
(* Mutations take turns *)

(* Waiting calls are admitted and distinct. *)
CallsWait ==
  /\ \A i \in DOMAIN calls : mutation[calls[i]] = "admitted"
  /\ \A i, j \in DOMAIN calls : calls[i] = calls[j] => i = j

(* The chain of turn promises: distinct, of mutations that joined it, resolved
   for exactly those that settled, and entered only behind resolved turns. *)
TurnsChain ==
  /\ \A i \in DOMAIN turns :
       mutation[turns[i]] \in {"queued", "running", "done", "failed"}
  /\ \A i, j \in DOMAIN turns : turns[i] = turns[j] => i = j
  /\ \A m \in Mutations :
       mutation[m] \in {"queued", "running"} => \E i \in DOMAIN turns : turns[i] = m
  /\ \A m \in Mutations : m \in resolved <=> mutation[m] \in {"done", "failed"}

TurnsInOrder ==
  \A i, j \in DOMAIN turns :
    i < j /\ mutation[turns[j]] # "queued" => turns[i] \in resolved

GateInv == TypeOK /\ CallsWait /\ TurnsChain /\ TurnsInOrder

(* Every step keeps the chain of turns. *)
LEMMA GateStep == GateInv /\ [Next]_vars => GateInv'
<1> SUFFICES ASSUME GateInv, [Next]_vars PROVE CallsWait' /\ TurnsChain' /\ TurnsInOrder'
    BY TypesStep DEF GateInv
<1>1. CASE UNCHANGED gateVars
    BY <1>1 DEF gateVars, GateInv, CallsWait, TurnsChain, TurnsInOrder
<1>2. ASSUME NEW m \in Mutations, MutationStep(m)
      PROVE  CallsWait' /\ TurnsChain' /\ TurnsInOrder'
  <2> USE DEF GateInv, TypeOK, GateTyped
  <2>1. CASE CallMutation(m)
    <3>1. CASE UNCHANGED calls
      BY <2>1, <3>1 DEF CallMutation, CallsWait, TurnsChain, TurnsInOrder
    <3>2. CASE calls' = Append(calls, m)
      <4>1. /\ DOMAIN Append(calls, m) = 1..(Len(calls) + 1)
            /\ DOMAIN calls = 1..Len(calls) /\ Len(calls) \in Nat
            /\ \A i \in 1..Len(calls) : Append(calls, m)[i] = calls[i]
            /\ Append(calls, m)[Len(calls) + 1] = m
        OBVIOUS
      <4>2. mutation[m] = "none" /\ \A i \in DOMAIN calls : calls[i] # m
        BY <2>1 DEF CallMutation, CallsWait
      <4>3. CallsWait'
        <5>1. \A n \in Mutations :
                mutation'[n] = IF n = m THEN "admitted" ELSE mutation[n]
          BY <2>1, <3>2 DEF CallMutation
        <5>2. \A i \in DOMAIN calls : calls[i] \in Mutations  OBVIOUS
        <5>3. \A i \in DOMAIN calls' : mutation'[calls'[i]] = "admitted"
          BY <3>2, <4>1, <5>1, <5>2 DEF CallsWait
        <5>4. \A i, j \in DOMAIN calls : calls[i] = calls[j] => i = j  BY DEF CallsWait
        <5>5. \A i, j \in DOMAIN calls' : calls'[i] = calls'[j] => i = j
          BY <3>2, <4>1, <4>2, <5>4
        <5> QED BY <5>3, <5>5 DEF CallsWait
      <4>4. TurnsChain' /\ TurnsInOrder'
        BY <2>1, <4>2 DEF CallMutation, TurnsChain, TurnsInOrder
      <4> QED BY <4>3, <4>4
    <3> QED BY <2>1, <3>1, <3>2 DEF CallMutation
  <2>2. CASE JoinQueue(m)
    <3>1. /\ calls # <<>> /\ m = calls[1] /\ 1 \in DOMAIN calls
          /\ DOMAIN calls = 1..Len(calls) /\ Len(calls) \in Nat
          /\ DOMAIN calls' = 1..(Len(calls) - 1)
          /\ \A i \in 1..(Len(calls) - 1) : calls'[i] = calls[i + 1]
      BY <2>2 DEF JoinQueue
    <3>2. /\ DOMAIN turns' = 1..(Len(turns) + 1)
          /\ DOMAIN turns = 1..Len(turns) /\ Len(turns) \in Nat
          /\ \A i \in 1..Len(turns) : turns'[i] = turns[i]
          /\ turns'[Len(turns) + 1] = m
      BY <2>2 DEF JoinQueue
    <3>3. mutation[m] = "admitted" /\ \A i \in DOMAIN turns : turns[i] # m
      BY <3>1 DEF CallsWait, TurnsChain
    <3>4. /\ mutation' = [mutation EXCEPT ![m] = "queued"]
          /\ resolved' = resolved
      BY <2>2 DEF JoinQueue
    <3>5. CallsWait'
      <4>1. \A i \in 1..(Len(calls) - 1) :
              i + 1 \in DOMAIN calls /\ calls[i + 1] # m /\ calls[i + 1] \in Mutations
        BY <3>1 DEF CallsWait
      <4>2. \A i \in DOMAIN calls' : mutation'[calls'[i]] = "admitted"
        BY <3>1, <3>4, <4>1, SMTT(20) DEF CallsWait
      <4>3. \A i, j \in 1..(Len(calls) - 1) : calls[i + 1] = calls[j + 1] => i = j
        BY <3>1, <4>1 DEF CallsWait
      <4>4. \A i, j \in DOMAIN calls' : calls'[i] = calls'[j] => i = j
        BY <3>1, <4>3
      <4> QED BY <4>2, <4>4 DEF CallsWait
    <3>6. TurnsChain'
      <4>1. \A n \in Mutations : mutation'[n] = IF n = m THEN "queued" ELSE mutation[n]
        BY <3>4
      <4>2. \A i \in DOMAIN turns : turns[i] \in Mutations  OBVIOUS
      <4>3. \A i \in DOMAIN turns' :
              mutation'[turns'[i]] \in {"queued", "running", "done", "failed"}
        BY <3>2, <4>1, <4>2 DEF TurnsChain
      <4>4. \A i, j \in DOMAIN turns' : turns'[i] = turns'[j] => i = j
        BY <3>2, <3>3 DEF TurnsChain
      <4>5. \A n \in Mutations :
              mutation'[n] \in {"queued", "running"}
                => \E i \in DOMAIN turns' : turns'[i] = n
        BY <3>2, <4>1 DEF TurnsChain
      <4>6. \A n \in Mutations : n \in resolved' <=> mutation'[n] \in {"done", "failed"}
        BY <3>3, <3>4, <4>1 DEF TurnsChain
      <4> QED BY <4>3, <4>4, <4>5, <4>6 DEF TurnsChain
    <3>7. TurnsInOrder'  BY <3>2, <3>3, <3>4 DEF TurnsInOrder
    <3> QED BY <3>5, <3>6, <3>7
  <2>3. CASE TakeTurn(m)
    <3>1. PICK k \in DOMAIN turns : turns[k] = m /\ PreviousResolved(k)
      BY <2>3 DEF TakeTurn
    <3>2. \A i \in DOMAIN turns : i < k => turns[i] \in resolved
      <4> SUFFICES ASSUME NEW i \in DOMAIN turns, i < k PROVE turns[i] \in resolved
        OBVIOUS
      <4>1. DOMAIN turns = 1..Len(turns) /\ Len(turns) \in Nat  OBVIOUS
      <4>2. k - 1 \in DOMAIN turns /\ turns[k - 1] \in resolved
        BY <3>1, <4>1 DEF PreviousResolved
      <4>3. CASE i = k - 1  BY <4>2, <4>3
      <4>4. CASE i < k - 1
        <5>1. mutation[turns[k - 1]] # "queued"  BY <4>2 DEF TurnsChain
        <5> QED BY <4>2, <4>4, <5>1 DEF TurnsInOrder
      <4> QED BY <4>1, <4>3, <4>4
    <3>3. /\ mutation[m] = "queued" /\ mutation' = [mutation EXCEPT ![m] = "running"]
          /\ UNCHANGED <<calls, turns, resolved>>
      BY <2>3 DEF TakeTurn
    <3>4. CallsWait'
      <4>1. \A i \in DOMAIN calls : calls[i] # m /\ calls[i] \in Mutations
        BY <3>3 DEF CallsWait
      <4> QED BY <3>3, <4>1 DEF CallsWait
    <3>5. TurnsChain'
      <4>1. \A n \in Mutations : mutation'[n] = IF n = m THEN "running" ELSE mutation[n]
        BY <3>3
      <4>2. turns' = turns /\ resolved' = resolved  BY <3>3
      <4>3. \A i \in DOMAIN turns : turns[i] \in Mutations  OBVIOUS
      <4> QED BY <3>1, <3>3, <4>1, <4>2, <4>3 DEF TurnsChain
    <3>6. TurnsInOrder'
      <4> SUFFICES ASSUME NEW i \in DOMAIN turns, NEW j \in DOMAIN turns, i < j,
                          mutation'[turns[j]] # "queued"
                   PROVE  turns[i] \in resolved
        BY <3>3 DEF TurnsInOrder
      <4>1. CASE j = k  BY <3>2, <4>1
      <4>2. CASE j # k
        <5>1. turns[j] # m  BY <3>1, <4>2 DEF TurnsChain
        <5> QED BY <3>3, <5>1 DEF TurnsInOrder
      <4> QED BY <4>1, <4>2
    <3> QED BY <3>4, <3>5, <3>6
  <2>4. CASE EndMutation(m)
    <3>1. PICK outcome \in {"done", "failed"} :
            mutation' = [mutation EXCEPT ![m] = outcome] /\ resolved' = resolved \cup {m}
      BY <2>4 DEF EndMutation, Resolved
    <3>2. mutation[m] = "running" /\ UNCHANGED <<calls, turns>>
      BY <2>4 DEF EndMutation
    <3>3. CallsWait'
      <4>1. \A i \in DOMAIN calls : calls[i] # m /\ calls[i] \in Mutations
        BY <3>2 DEF CallsWait
      <4> QED BY <3>1, <3>2, <4>1 DEF CallsWait
    <3>4. TurnsChain'
      <4>1. \A n \in Mutations : mutation'[n] = IF n = m THEN outcome ELSE mutation[n]
        BY <3>1
      <4>2. turns' = turns  BY <3>2
      <4>3. \A i \in DOMAIN turns : turns[i] \in Mutations  OBVIOUS
      <4> QED BY <3>1, <3>2, <4>1, <4>2, <4>3 DEF TurnsChain
    <3>5. TurnsInOrder'  BY <3>1, <3>2 DEF TurnsInOrder
    <3> QED BY <3>3, <3>4, <3>5
  <2> QED BY <1>2, <2>1, <2>2, <2>3, <2>4 DEF MutationStep
<1>3. ASSUME NEW t \in Tasks, TaskStep(t) PROVE UNCHANGED gateVars
    BY <1>3 DEF TaskStep, CallTask, EndTask
<1>4. ASSUME NEW o \in Observations, ObservationStep(o) PROVE UNCHANGED gateVars
    BY <1>4 DEF ObservationStep, ExecutionStep, Started, StartFails, NextRejects,
       BindIterator, Pull, Yield, Unresolved, ReadFails, Exhausted, StreamEnds,
       Advance, DemandReceipt, Return
<1>5. Close \/ Release => UNCHANGED gateVars  BY DEF Close, Release
<1>6. UNCHANGED vars => UNCHANGED gateVars  BY DEF vars
<1> QED BY <1>1, <1>2, <1>3, <1>4, <1>5, <1>6 DEF Next

(* Nobody waits at first. *)
LEMMA GateInit == Init => GateInv
BY LifecycleAssumption
DEF Init, GateInv, CallsWait, TurnsChain, TurnsInOrder, TypeOK, CallsTyped,
    GateTyped, ObservationsTyped, StreamsTyped

(* Two mutations of one Runtime never run at the same time, however many are
   queued and whichever of them fail. *)
THEOREM GateExcludes == Spec => []MutationsExclusive
<1>1. GateInv => MutationsExclusive
  <2> SUFFICES ASSUME GateInv, NEW m \in Mutations, NEW n \in Mutations,
                      mutation[m] = "running", mutation[n] = "running", m # n
               PROVE  FALSE
    BY DEF MutationsExclusive
  <2>1. PICK i \in DOMAIN turns : turns[i] = m  BY DEF GateInv, TurnsChain
  <2>2. PICK j \in DOMAIN turns : turns[j] = n  BY DEF GateInv, TurnsChain
  <2>3. i \in Nat /\ j \in Nat /\ i # j
    BY <2>1, <2>2 DEF GateInv, TypeOK, GateTyped
  <2>4. m \notin resolved /\ n \notin resolved  BY DEF GateInv, TurnsChain
  <2> QED BY <2>1, <2>2, <2>3, <2>4 DEF GateInv, TurnsInOrder
<1> QED BY <1>1, GateInit, GateStep, PTL DEF Spec

-----------------------------------------------------------------------------
(* The storage outlives its users *)

(* Whatever may still touch the storage is tracked by the activity. *)
TasksLeased == \A t \in Tasks : task[t] = "running" => t \in active

MutationsLeased ==
  \A m \in Mutations :
    mutation[m] \in {"admitted", "queued", "running"} => m \in active

ObservationsLeased ==
  \A o \in Observations :
    execution[o] = "starting" \/ stream[o] \in {"unstarted", "running", "yielded"}
      => o \in active

Leased == TasksLeased /\ MutationsLeased /\ ObservationsLeased

(* An execution that started has a stream, and a call that passed it an iterator. *)
StreamsLive ==
  \A o \in Observations :
    /\ stream[o] # "none" <=> execution[o] = "live"
    /\ next[o] = "bound" => execution[o] = "live"

(* close() waits for everything that is tracked. *)
CloseWaits ==
  /\ activity # "closed" => storage = "held"
  /\ activity = "closing" => active \subseteq awaited
  /\ activity = "closed" => active = {}

UseInv == GateInv /\ Leased /\ StreamsLive /\ CloseWaits

(* Every step keeps what is tracked in step with what runs. *)
LEMMA UseStep == UseInv /\ [Next]_vars => UseInv'
<1> SUFFICES ASSUME UseInv, [Next]_vars PROVE Leased' /\ StreamsLive' /\ CloseWaits'
    BY GateStep DEF UseInv
<1> USE LifecycleAssumption
<1> USE DEF UseInv, GateInv, Leased, TypeOK, closeVars, taskVars, gateVars, streamVars,
observationVars
<1>1. CASE UNCHANGED vars
    BY <1>1 DEF vars, Leased, TasksLeased, MutationsLeased, ObservationsLeased,
        StreamsLive, CloseWaits
<1>2. CASE Close
    BY <1>2 DEF Close, Leased, TasksLeased, MutationsLeased, ObservationsLeased,
        StreamsLive, CloseWaits
<1>3. CASE Release
    BY <1>3 DEF Release, Leased, TasksLeased, MutationsLeased, ObservationsLeased,
        StreamsLive, CloseWaits
<1>4. ASSUME NEW t \in Tasks, TaskStep(t)
      PROVE  Leased' /\ StreamsLive' /\ CloseWaits'
  <2>1. CASE CallTask(t)
    <3>1. active' = active \/ active' = active \cup {t} \/ active' = active \ {t}
      BY <2>1 DEF CallTask, Tracked
    <3>2. TasksLeased'
      BY <2>1 DEF CallTask, Tracked,
         TasksLeased, CallsTyped
    <3>3. MutationsLeased'
      BY <2>1, <3>1 DEF CallTask, MutationsLeased
    <3>4. ObservationsLeased'
      BY <2>1, <3>1 DEF CallTask, ObservationsLeased
    <3>5. StreamsLive'
      BY <2>1 DEF CallTask, Tracked,
         StreamsLive, ObservationsTyped, StreamsTyped
    <3>6. CloseWaits'  BY <2>1 DEF CallTask, Tracked, CloseWaits, Admits
    <3> QED BY <3>2, <3>3, <3>4, <3>5, <3>6 DEF Leased
  <2>2. CASE EndTask(t)
    <3>1. active' = active \/ active' = active \cup {t} \/ active' = active \ {t}
      BY <2>2 DEF EndTask, Untracked
    <3>2. TasksLeased'
      BY <2>2 DEF EndTask, Untracked,
         TasksLeased, CallsTyped
    <3>3. MutationsLeased'
      BY <2>2, <3>1 DEF EndTask, MutationsLeased
    <3>4. ObservationsLeased'
      BY <2>2, <3>1 DEF EndTask, ObservationsLeased
    <3>5. StreamsLive'
      BY <2>2 DEF EndTask, Untracked,
         StreamsLive, ObservationsTyped, StreamsTyped
    <3>6. CloseWaits'  BY <2>2 DEF EndTask, Untracked, CloseWaits
    <3> QED BY <3>2, <3>3, <3>4, <3>5, <3>6 DEF Leased
  <2> QED BY <1>4, <2>1, <2>2 DEF TaskStep
<1>5. ASSUME NEW m \in Mutations, MutationStep(m)
      PROVE  Leased' /\ StreamsLive' /\ CloseWaits'
  <2>1. CASE CallMutation(m)
    <3>1. active' = active \/ active' = active \cup {m} \/ active' = active \ {m}
      BY <2>1 DEF CallMutation, Tracked
    <3>2. TasksLeased'
      BY <2>1, <3>1 DEF CallMutation, TasksLeased
    <3>3. MutationsLeased'
      BY <2>1 DEF CallMutation, Tracked,
         MutationsLeased, GateTyped, CallsWait
    <3>4. ObservationsLeased'
      BY <2>1, <3>1 DEF CallMutation, ObservationsLeased
    <3>5. StreamsLive'
      BY <2>1 DEF CallMutation, Tracked,
         StreamsLive, ObservationsTyped, StreamsTyped
    <3>6. CloseWaits'  BY <2>1 DEF CallMutation, Tracked, CloseWaits, Admits
    <3> QED BY <3>2, <3>3, <3>4, <3>5, <3>6 DEF Leased
  <2>2. CASE JoinQueue(m)
    <3>1. active' = active \/ active' = active \cup {m} \/ active' = active \ {m}
      BY <2>2 DEF JoinQueue
    <3>2. TasksLeased'
      BY <2>2, <3>1 DEF JoinQueue, TasksLeased
    <3>3. MutationsLeased'
      BY <2>2 DEF JoinQueue,
         MutationsLeased, GateTyped, CallsWait
    <3>4. ObservationsLeased'
      BY <2>2, <3>1 DEF JoinQueue, ObservationsLeased
    <3>5. StreamsLive'
      BY <2>2 DEF JoinQueue,
         StreamsLive, ObservationsTyped, StreamsTyped
    <3>6. CloseWaits'  BY <2>2 DEF JoinQueue, CloseWaits
    <3> QED BY <3>2, <3>3, <3>4, <3>5, <3>6 DEF Leased
  <2>3. CASE TakeTurn(m)
    <3>1. active' = active \/ active' = active \cup {m} \/ active' = active \ {m}
      BY <2>3 DEF TakeTurn
    <3>2. TasksLeased'
      BY <2>3, <3>1 DEF TakeTurn, TasksLeased
    <3>3. MutationsLeased'
      BY <2>3 DEF TakeTurn,
         MutationsLeased, GateTyped, CallsWait
    <3>4. ObservationsLeased'
      BY <2>3, <3>1 DEF TakeTurn, ObservationsLeased
    <3>5. StreamsLive'
      BY <2>3 DEF TakeTurn,
         StreamsLive, ObservationsTyped, StreamsTyped
    <3>6. CloseWaits'  BY <2>3 DEF TakeTurn, CloseWaits
    <3> QED BY <3>2, <3>3, <3>4, <3>5, <3>6 DEF Leased
  <2>4. CASE EndMutation(m)
    <3>1. active' = active \/ active' = active \cup {m} \/ active' = active \ {m}
      BY <2>4 DEF EndMutation, Untracked
    <3>2. TasksLeased'
      BY <2>4, <3>1 DEF EndMutation, TasksLeased
    <3>3. MutationsLeased'
      BY <2>4 DEF EndMutation, Untracked,
         MutationsLeased, GateTyped, CallsWait
    <3>4. ObservationsLeased'
      BY <2>4, <3>1 DEF EndMutation, ObservationsLeased
    <3>5. StreamsLive'
      BY <2>4 DEF EndMutation, Untracked,
         StreamsLive, ObservationsTyped, StreamsTyped
    <3>6. CloseWaits'  BY <2>4 DEF EndMutation, Untracked, CloseWaits
    <3> QED BY <3>2, <3>3, <3>4, <3>5, <3>6 DEF Leased
  <2> QED BY <1>5, <2>1, <2>2, <2>3, <2>4 DEF MutationStep
<1>6. ASSUME NEW o \in Observations, ObservationStep(o)
      PROVE  Leased' /\ StreamsLive' /\ CloseWaits'
  <2>1. CASE Started(o)
    <3>1. active' = active \/ active' = active \cup {o} \/ active' = active \ {o}
      BY <2>1 DEF Started
    <3>2. TasksLeased'
      BY <2>1, <3>1 DEF Started, TasksLeased
    <3>3. MutationsLeased'
      BY <2>1, <3>1 DEF Started, MutationsLeased
    <3>4. ObservationsLeased'
      BY <2>1 DEF Started,
         ObservationsLeased, ObservationsTyped, StreamsTyped, StreamsLive
    <3>5. StreamsLive'
      BY <2>1 DEF Started,
         StreamsLive, ObservationsTyped, StreamsTyped
    <3>6. CloseWaits'  BY <2>1 DEF Started, CloseWaits
    <3> QED BY <3>2, <3>3, <3>4, <3>5, <3>6 DEF Leased
  <2>2. CASE StartFails(o)
    <3>1. active' = active \/ active' = active \cup {o} \/ active' = active \ {o}
      BY <2>2 DEF StartFails, Untracked
    <3>2. TasksLeased'
      BY <2>2, <3>1 DEF StartFails, TasksLeased
    <3>3. MutationsLeased'
      BY <2>2, <3>1 DEF StartFails, MutationsLeased
    <3>4. ObservationsLeased'
      BY <2>2 DEF StartFails, Untracked,
         ObservationsLeased, ObservationsTyped, StreamsTyped, StreamsLive
    <3>5. StreamsLive'
      BY <2>2 DEF StartFails, Untracked,
         StreamsLive, ObservationsTyped, StreamsTyped
    <3>6. CloseWaits'  BY <2>2 DEF StartFails, Untracked, CloseWaits
    <3> QED BY <3>2, <3>3, <3>4, <3>5, <3>6 DEF Leased
  <2>3. CASE NextRejects(o)
    <3>1. active' = active \/ active' = active \cup {o} \/ active' = active \ {o}
      BY <2>3 DEF NextRejects
    <3>2. TasksLeased'
      BY <2>3, <3>1 DEF NextRejects, TasksLeased
    <3>3. MutationsLeased'
      BY <2>3, <3>1 DEF NextRejects, MutationsLeased
    <3>4. ObservationsLeased'
      BY <2>3 DEF NextRejects,
         ObservationsLeased, ObservationsTyped, StreamsTyped, StreamsLive
    <3>5. StreamsLive'
      BY <2>3 DEF NextRejects,
         StreamsLive, ObservationsTyped, StreamsTyped
    <3>6. CloseWaits'  BY <2>3 DEF NextRejects, CloseWaits
    <3> QED BY <3>2, <3>3, <3>4, <3>5, <3>6 DEF Leased
  <2>4. CASE BindIterator(o)
    <3>1. active' = active \/ active' = active \cup {o} \/ active' = active \ {o}
      BY <2>4 DEF BindIterator
    <3>2. TasksLeased'
      BY <2>4, <3>1 DEF BindIterator, TasksLeased
    <3>3. MutationsLeased'
      BY <2>4, <3>1 DEF BindIterator, MutationsLeased
    <3>4. ObservationsLeased'
      BY <2>4 DEF BindIterator,
         ObservationsLeased, ObservationsTyped, StreamsTyped, StreamsLive
    <3>5. StreamsLive'
      BY <2>4 DEF BindIterator,
         StreamsLive, ObservationsTyped, StreamsTyped
    <3>6. CloseWaits'  BY <2>4 DEF BindIterator, CloseWaits
    <3> QED BY <3>2, <3>3, <3>4, <3>5, <3>6 DEF Leased
  <2>5. CASE Pull(o)
    <3>1. active' = active \/ active' = active \cup {o} \/ active' = active \ {o}
      BY <2>5 DEF Pull
    <3>2. TasksLeased'
      BY <2>5, <3>1 DEF Pull, TasksLeased
    <3>3. MutationsLeased'
      BY <2>5, <3>1 DEF Pull, MutationsLeased
    <3>4. ObservationsLeased'
      BY <2>5 DEF Pull,
         ObservationsLeased, ObservationsTyped, StreamsTyped, StreamsLive
    <3>5. StreamsLive'
      BY <2>5 DEF Pull,
         StreamsLive, ObservationsTyped, StreamsTyped
    <3>6. CloseWaits'  BY <2>5 DEF Pull, CloseWaits
    <3> QED BY <3>2, <3>3, <3>4, <3>5, <3>6 DEF Leased
  <2>6. CASE Yield(o)
    <3>1. active' = active \/ active' = active \cup {o} \/ active' = active \ {o}
      BY <2>6 DEF Yield, Cancelled, Ends, Untracked
    <3>2. TasksLeased'
      BY <2>6, <3>1 DEF Yield, TasksLeased
    <3>3. MutationsLeased'
      BY <2>6, <3>1 DEF Yield, MutationsLeased
    <3>4. ObservationsLeased'
      BY <2>6 DEF Yield, Cancelled, Ends, Untracked,
         ObservationsLeased, ObservationsTyped, StreamsTyped, StreamsLive
    <3>5. StreamsLive'
      BY <2>6 DEF Yield, Cancelled, Ends, Untracked,
         StreamsLive, ObservationsTyped, StreamsTyped
    <3>6. CloseWaits'  BY <2>6 DEF Yield, Cancelled, Ends, Untracked, CloseWaits
    <3> QED BY <3>2, <3>3, <3>4, <3>5, <3>6 DEF Leased
  <2>7. CASE Unresolved(o)
    <3>1. active' = active \/ active' = active \cup {o} \/ active' = active \ {o}
      BY <2>7 DEF Unresolved, StreamEnds, Ends, Untracked
    <3>2. TasksLeased'
      BY <2>7, <3>1 DEF Unresolved, StreamEnds, TasksLeased
    <3>3. MutationsLeased'
      BY <2>7, <3>1 DEF Unresolved, StreamEnds, MutationsLeased
    <3>4. ObservationsLeased'
      BY <2>7 DEF Unresolved, StreamEnds, Ends, Untracked,
         ObservationsLeased, ObservationsTyped, StreamsTyped, StreamsLive
    <3>5. StreamsLive'
      BY <2>7 DEF Unresolved, StreamEnds, Ends, Untracked,
         StreamsLive, ObservationsTyped, StreamsTyped
    <3>6. CloseWaits'  BY <2>7 DEF Unresolved, StreamEnds, Ends, Untracked, CloseWaits
    <3> QED BY <3>2, <3>3, <3>4, <3>5, <3>6 DEF Leased
  <2>8. CASE ReadFails(o)
    <3>1. active' = active \/ active' = active \cup {o} \/ active' = active \ {o}
      BY <2>8 DEF ReadFails, StreamEnds, Ends, Untracked
    <3>2. TasksLeased'
      BY <2>8, <3>1 DEF ReadFails, StreamEnds, TasksLeased
    <3>3. MutationsLeased'
      BY <2>8, <3>1 DEF ReadFails, StreamEnds, MutationsLeased
    <3>4. ObservationsLeased'
      BY <2>8 DEF ReadFails, StreamEnds, Ends, Untracked,
         ObservationsLeased, ObservationsTyped, StreamsTyped, StreamsLive
    <3>5. StreamsLive'
      BY <2>8 DEF ReadFails, StreamEnds, Ends, Untracked,
         StreamsLive, ObservationsTyped, StreamsTyped
    <3>6. CloseWaits'  BY <2>8 DEF ReadFails, StreamEnds, Ends, Untracked, CloseWaits
    <3> QED BY <3>2, <3>3, <3>4, <3>5, <3>6 DEF Leased
  <2>9. CASE Exhausted(o)
    <3>1. active' = active \/ active' = active \cup {o} \/ active' = active \ {o}
      BY <2>9 DEF Exhausted, StreamEnds, Ends, Untracked
    <3>2. TasksLeased'
      BY <2>9, <3>1 DEF Exhausted, StreamEnds, TasksLeased
    <3>3. MutationsLeased'
      BY <2>9, <3>1 DEF Exhausted, StreamEnds, MutationsLeased
    <3>4. ObservationsLeased'
      BY <2>9 DEF Exhausted, StreamEnds, Ends, Untracked,
         ObservationsLeased, ObservationsTyped, StreamsTyped, StreamsLive
    <3>5. StreamsLive'
      BY <2>9 DEF Exhausted, StreamEnds, Ends, Untracked,
         StreamsLive, ObservationsTyped, StreamsTyped
    <3>6. CloseWaits'  BY <2>9 DEF Exhausted, StreamEnds, Ends, Untracked, CloseWaits
    <3> QED BY <3>2, <3>3, <3>4, <3>5, <3>6 DEF Leased
  <2>10. CASE Advance(o)
    <3>1. active' = active \/ active' = active \cup {o} \/ active' = active \ {o}
      BY <2>10 DEF Advance, DemandExecution, Tracked
    <3>2. TasksLeased'
      BY <2>10, <3>1 DEF Advance, TasksLeased
    <3>3. MutationsLeased'
      BY <2>10, <3>1 DEF Advance, MutationsLeased
    <3>4. ObservationsLeased'
      BY <2>10 DEF Advance, DemandExecution, Tracked,
         ObservationsLeased, ObservationsTyped, StreamsTyped, StreamsLive
    <3>5. StreamsLive'
      BY <2>10 DEF Advance, DemandExecution, Tracked,
         StreamsLive, ObservationsTyped, StreamsTyped
    <3>6. CloseWaits'  BY <2>10 DEF Advance, DemandExecution, Tracked, CloseWaits, Admits
    <3> QED BY <3>2, <3>3, <3>4, <3>5, <3>6 DEF Leased
  <2>11. CASE DemandReceipt(o)
    <3>1. active' = active \/ active' = active \cup {o} \/ active' = active \ {o}
      BY <2>11 DEF DemandReceipt, DemandExecution, Tracked
    <3>2. TasksLeased'
      BY <2>11, <3>1 DEF DemandReceipt, TasksLeased
    <3>3. MutationsLeased'
      BY <2>11, <3>1 DEF DemandReceipt, MutationsLeased
    <3>4. ObservationsLeased'
      BY <2>11 DEF DemandReceipt, DemandExecution, Tracked,
         ObservationsLeased, ObservationsTyped, StreamsTyped, StreamsLive
    <3>5. StreamsLive'
      BY <2>11 DEF DemandReceipt, DemandExecution, Tracked,
         StreamsLive, ObservationsTyped, StreamsTyped
    <3>6. CloseWaits'  BY <2>11 DEF DemandReceipt, DemandExecution, Tracked, CloseWaits, Admits
    <3> QED BY <3>2, <3>3, <3>4, <3>5, <3>6 DEF Leased
  <2>12. CASE Return(o)
    <3>1. active' = active \/ active' = active \cup {o} \/ active' = active \ {o}
      BY <2>12 DEF Return, Cancelled, Ends, Untracked
    <3>2. TasksLeased'
      BY <2>12, <3>1 DEF Return, TasksLeased
    <3>3. MutationsLeased'
      BY <2>12, <3>1 DEF Return, MutationsLeased
    <3>4. ObservationsLeased'
      BY <2>12 DEF Return, Cancelled, Ends, Untracked,
         ObservationsLeased, ObservationsTyped, StreamsTyped, StreamsLive
    <3>5. StreamsLive'
      BY <2>12 DEF Return, Cancelled, Ends, Untracked,
         StreamsLive, ObservationsTyped, StreamsTyped
    <3>6. CloseWaits'  BY <2>12 DEF Return, Cancelled, Ends, Untracked, CloseWaits
    <3> QED BY <3>2, <3>3, <3>4, <3>5, <3>6 DEF Leased
  <2> QED BY <1>6, <2>1, <2>2, <2>3, <2>4, <2>5, <2>6, <2>7, <2>8, <2>9, <2>10, <2>11,
      <2>12 DEF ObservationStep, ExecutionStep
<1> QED BY <1>1, <1>2, <1>3, <1>4, <1>5, <1>6 DEF Next

(* close() never takes the storage from a call or a stream that uses it,
   whatever the calls, their failures and the consumers do. *)
THEOREM StorageOutlivesUse == Spec => []NoUseAfterRelease
<1>1. Init => UseInv
    BY GateInit DEF Init, UseInv, Leased, TasksLeased, MutationsLeased,
       ObservationsLeased, StreamsLive, CloseWaits
<1>2. UseInv => NoUseAfterRelease
    BY DEF UseInv, NoUseAfterRelease, Using, Leased, TasksLeased,
       MutationsLeased, ObservationsLeased, CloseWaits, GateInv, TypeOK, CallsTyped
<1> QED BY <1>1, <1>2, UseStep, PTL DEF Spec
-----------------------------------------------------------------------------
(* Only a stream that ended has left a receipt, and a completed one counts *)
(* every plan; a stream that ended is not resumed.                         *)
ReceiptInv ==
  \A o \in Observations :
    /\ receipt[o] # "pending" => stream[o] = "ended"
    /\ receipt[o] = "completed" => read[o] = plans[o]

(* Every step keeps the receipts true. *)
LEMMA ReceiptStep == UseInv /\ ReceiptInv /\ [Next]_vars => ReceiptInv'
<1> SUFFICES ASSUME UseInv, ReceiptInv, [Next]_vars PROVE ReceiptInv'  OBVIOUS
<1>0. StreamsTyped /\ ObservationsTyped /\ StreamsLive  BY DEF UseInv, GateInv, TypeOK
<1> USE DEF ReceiptInv, closeVars, taskVars, gateVars, streamVars, observationVars
<1>1. CASE UNCHANGED vars  BY <1>1 DEF vars
<1>2. CASE Close  BY <1>2 DEF Close
<1>3. CASE Release  BY <1>3 DEF Release
<1>4. ASSUME NEW t \in Tasks, TaskStep(t) PROVE ReceiptInv'
    BY <1>4 DEF TaskStep, CallTask, EndTask
<1>5. ASSUME NEW m \in Mutations, MutationStep(m) PROVE ReceiptInv'
    BY <1>5 DEF MutationStep, CallMutation, JoinQueue, TakeTurn, EndMutation
<1>6. ASSUME NEW o \in Observations, ObservationStep(o) PROVE ReceiptInv'
  <2>1. CASE Started(o)
      BY <2>1, <1>0 DEF Started, StreamsTyped, ObservationsTyped, StreamsLive
  <2>2. CASE StartFails(o)
      BY <2>2, <1>0 DEF StartFails, StreamsTyped, ObservationsTyped, StreamsLive
  <2>3. CASE NextRejects(o)
      BY <2>3, <1>0 DEF NextRejects, StreamsTyped, ObservationsTyped, StreamsLive
  <2>4. CASE BindIterator(o)
      BY <2>4, <1>0 DEF BindIterator, StreamsTyped, ObservationsTyped, StreamsLive
  <2>5. CASE Pull(o)
      BY <2>5, <1>0 DEF Pull, StreamsTyped, ObservationsTyped, StreamsLive
  <2>6. CASE Yield(o)
      BY <2>6, <1>0 DEF Yield, Cancelled, Ends, StreamsTyped, ObservationsTyped, StreamsLive
  <2>7. CASE Unresolved(o)
      BY <2>7, <1>0 DEF Unresolved, StreamEnds, Ends, StreamsTyped, ObservationsTyped,
         StreamsLive
  <2>8. CASE ReadFails(o)
      BY <2>8, <1>0 DEF ReadFails, StreamEnds, Ends, StreamsTyped, ObservationsTyped,
         StreamsLive
  <2>9. CASE Exhausted(o)
      BY <2>9, <1>0 DEF Exhausted, StreamEnds, Ends, StreamsTyped, ObservationsTyped,
         StreamsLive
  <2>10. CASE Advance(o)
      BY <2>10, <1>0 DEF Advance, StreamsTyped, ObservationsTyped, StreamsLive
  <2>11. CASE DemandReceipt(o)
      BY <2>11, <1>0 DEF DemandReceipt, StreamsTyped, ObservationsTyped, StreamsLive
  <2>12. CASE Return(o)
      BY <2>12, <1>0 DEF Return, Cancelled, Ends, StreamsTyped, ObservationsTyped, StreamsLive
  <2> QED BY <1>6, <2>1, <2>2, <2>3, <2>4, <2>5, <2>6, <2>7, <2>8, <2>9, <2>10, <2>11,
      <2>12 DEF ObservationStep, ExecutionStep
<1> QED BY <1>1, <1>2, <1>3, <1>4, <1>5, <1>6 DEF Next

(* A receipt that says completed was left by an observation that read every
   plan: no cancellation, failure or late return() is reported as complete. *)
THEOREM ReceiptsAreTrue == Spec => []CompletedIsComplete
<1>1. Init => UseInv
    BY GateInit DEF Init, UseInv, Leased, TasksLeased, MutationsLeased,
       ObservationsLeased, StreamsLive, CloseWaits
<1>2. Init => ReceiptInv  BY DEF Init, ReceiptInv
<1>3. ReceiptInv => CompletedIsComplete  BY DEF ReceiptInv, CompletedIsComplete
<1> QED BY <1>1, <1>2, <1>3, UseStep, ReceiptStep, PTL DEF Spec
=============================================================================
