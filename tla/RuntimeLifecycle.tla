-------------------------- MODULE RuntimeLifecycle --------------------------
(***************************************************************************)
(* One Runtime and the calls of its application: plain calls tracked by    *)
(* RuntimeActivity, mutations serialized by RuntimeMutationGate inside it, *)
(* observations that hold an activity lease while their reading stream is  *)
(* open, and close().  An action is what runs between two awaits.          *)
(***************************************************************************)
EXTENDS Naturals, Sequences, FiniteSets

CONSTANTS
  Tasks,           \* calls that only go through RuntimeActivity.run
  Mutations,       \* calls that also take a turn at the mutation gate
  Observations,    \* Observation objects of the runtime's lanes
  MaxPlans         \* bound on the reading plans of an observer

ASSUME LifecycleAssumption ==
  /\ MaxPlans \in Nat
  /\ Tasks \cap Mutations = {}
  /\ (Tasks \cup Mutations) \cap Observations = {}

VARIABLES
  activity,        \* RuntimeActivity #state
  active,          \* RuntimeActivity #active: tracked calls and leases
  awaited,         \* the calls close() waits for
  storage,         \* the storage close() releases
  task,            \* progress of every plain call
  calls,           \* mutations whose operation has not started, in call order
  turns,           \* mutations in the order they became the gate's #tail
  resolved,        \* mutations whose turn promise is resolved
  mutation,        \* progress of every mutation
  plans,           \* reading plans the observer of an observation will make
  delivery,        \* Observation #delivery
  execution,       \* Observation #executionPromise
  bound,           \* observations whose consumer holds the stream's iterator
  next,            \* the next() in progress (of the consumer or of the drain)
  stop,            \* what became of the consumer's return()
  stream,          \* the streamReadings generator
  read,            \* readings it yielded
  receipt          \* the observation's receipt promise

closeVars == <<activity, awaited, storage>>
taskVars == <<task>>
gateVars == <<calls, turns, resolved, mutation>>
streamVars == <<stream, read, receipt>>
observationVars == <<plans, delivery, execution, bound, next, stop, streamVars>>
vars == <<closeVars, active, taskVars, gateVars, observationVars>>

Ids == Tasks \cup Mutations \cup Observations

-----------------------------------------------------------------------------
(* RuntimeActivity *)

Init ==
  /\ activity = "open" /\ active = {} /\ awaited = {} /\ storage = "held"
  /\ task = [t \in Tasks |-> "none"]
  /\ calls = <<>> /\ turns = <<>> /\ resolved = {}
  /\ mutation = [m \in Mutations |-> "none"]
  /\ plans \in [Observations -> 0..MaxPlans]
  /\ delivery = [o \in Observations |-> "unclaimed"]
  /\ execution = [o \in Observations |-> "none"]
  /\ bound = {}
  /\ next = [o \in Observations |-> "idle"]
  /\ stop = [o \in Observations |-> "no"]
  /\ stream = [o \in Observations |-> "none"]
  /\ read = [o \in Observations |-> 0]
  /\ receipt = [o \in Observations |-> "pending"]

Admits == activity = "open"

Tracked(id) == active \cup {id}

Untracked(id) == active \ {id}

(* A plain call is tracked at once and runs in a later microtask. *)
CallTask(t) ==
  /\ task[t] = "none"
  /\ IF Admits THEN /\ task' = [task EXCEPT ![t] = "running"]
                    /\ active' = Tracked(t)
               ELSE /\ task' = [task EXCEPT ![t] = "refused"]
                    /\ active' = active
  /\ UNCHANGED <<closeVars, gateVars, observationVars>>

(* Settled calls are forgotten, whether they resolved or rejected. *)
EndTask(t) ==
  /\ task[t] = "running"
  /\ \E outcome \in {"done", "failed"} : task' = [task EXCEPT ![t] = outcome]
  /\ active' = Untracked(t)
  /\ UNCHANGED <<closeVars, gateVars, observationVars>>

CloseOfNothing ==                                                \* mutant
  /\ activity = "open"
  /\ activity' = "closing"
  /\ awaited' = {}
  /\ UNCHANGED <<active, storage, taskVars, gateVars, observationVars>>
(* A second close() returns the first one's promise. *)
Close ==
  /\ activity = "open"
  /\ activity' = "closing"
  /\ awaited' = active
  /\ UNCHANGED <<active, storage, taskVars, gateVars, observationVars>>

(* The state becomes closed even when the storage fails to close. *)
Release ==
  /\ activity = "closing"
  /\ awaited \cap active = {}
  /\ storage' \in {"released", "failed"}
  /\ activity' = "closed"
  /\ UNCHANGED <<active, awaited, taskVars, gateVars, observationVars>>

-----------------------------------------------------------------------------
(* RuntimeMutationGate *)

CallMutation(m) ==
  /\ mutation[m] = "none"
  /\ IF Admits THEN /\ mutation' = [mutation EXCEPT ![m] = "admitted"]
                    /\ active' = Tracked(m)
                    /\ calls' = Append(calls, m)
               ELSE /\ mutation' = [mutation EXCEPT ![m] = "refused"]
                    /\ UNCHANGED <<active, calls>>
  /\ UNCHANGED <<closeVars, taskVars, turns, resolved, observationVars>>

(* The microtasks of admitted calls run in call order; each becomes the tail. *)
JoinQueue(m) ==
  /\ calls # <<>> /\ m = Head(calls)
  /\ calls' = Tail(calls)
  /\ turns' = Append(turns, m)
  /\ mutation' = [mutation EXCEPT ![m] = "queued"]
  /\ UNCHANGED <<closeVars, active, taskVars, resolved, observationVars>>

PreviousIsEarlierRunning(i) ==                                   \* mutant
  i > 1 => mutation[turns[i - 1]] # "queued"
(* `await previous`: the turn promise that was the tail is resolved. *)
PreviousResolved(i) == i > 1 => turns[i - 1] \in resolved

TakeTurn(m) ==
  /\ mutation[m] = "queued"
  /\ \E i \in DOMAIN turns : turns[i] = m /\ PreviousResolved(i)
  /\ mutation' = [mutation EXCEPT ![m] = "running"]
  /\ UNCHANGED <<closeVars, active, taskVars, calls, turns, resolved,
                 observationVars>>

(* The turn is released in a finally block. *)
Resolved(m, outcome) == resolved \cup {m}

EndMutation(m) ==
  /\ mutation[m] = "running"
  /\ \E outcome \in {"done", "failed"} :
       /\ mutation' = [mutation EXCEPT ![m] = outcome]
       /\ resolved' = Resolved(m, outcome)
  /\ active' = Untracked(m)
  /\ UNCHANGED <<closeVars, taskVars, calls, turns, observationVars>>

-----------------------------------------------------------------------------
(* Observation: one execution, one consumer of its readings *)

(* The first demand acquires the lease and starts the execution. *)
DemandExecution(o) ==
  IF execution[o] # "none" THEN UNCHANGED <<execution, active>>
  ELSE IF Admits THEN /\ execution' = [execution EXCEPT ![o] = "starting"]
                      /\ active' = Tracked(o)
                 ELSE /\ execution' = [execution EXCEPT ![o] = "failed"]
                      /\ active' = active

(* The consumer advances its iterator. *)
Advance(o) ==
  /\ delivery[o] # "drain"
  /\ next[o] = "idle" /\ stop[o] = "no"
  /\ stream[o] # "ended" /\ execution[o] # "failed"
  /\ delivery' = [delivery EXCEPT ![o] = "consumer"]
  /\ next' = [next EXCEPT ![o] = "starting"]
  /\ DemandExecution(o)
  /\ UNCHANGED <<closeVars, taskVars, gateVars, plans, bound, stop, streamVars>>

(* Awaiting the receipt first starts the execution and drains it. *)
DemandReceipt(o) ==
  /\ delivery[o] = "unclaimed"
  /\ delivery' = [delivery EXCEPT ![o] = "drain"]
  /\ next' = [next EXCEPT ![o] = "starting"]
  /\ DemandExecution(o)
  /\ UNCHANGED <<closeVars, taskVars, gateVars, plans, bound, stop, streamVars>>

Started(o) ==
  /\ execution[o] = "starting"
  /\ execution' = [execution EXCEPT ![o] = "live"]
  /\ stream' = [stream EXCEPT ![o] = "unstarted"]
  /\ UNCHANGED <<closeVars, active, taskVars, gateVars, plans, delivery,
                 bound, next, stop, read, receipt>>

StartFailsWithLease(o) ==                                        \* mutant
  /\ execution[o] = "starting"
  /\ execution' = [execution EXCEPT ![o] = "failed"]
  /\ UNCHANGED <<closeVars, active, taskVars, gateVars, plans, delivery,
                 bound, next, stop, streamVars>>
StartFails(o) ==
  /\ execution[o] = "starting"
  /\ execution' = [execution EXCEPT ![o] = "failed"]
  /\ active' = Untracked(o)
  /\ UNCHANGED <<closeVars, taskVars, gateVars, plans, delivery, bound,
                 next, stop, streamVars>>

(* next() rejects with the execution's error. *)
NextRejects(o) ==
  /\ next[o] = "starting" /\ execution[o] = "failed"
  /\ next' = [next EXCEPT ![o] = "idle"]
  /\ UNCHANGED <<closeVars, active, taskVars, gateVars, plans, delivery,
                 execution, bound, stop, streamVars>>

BindIterator(o) ==
  /\ next[o] = "starting" /\ execution[o] = "live"
  /\ bound' = bound \cup {o}
  /\ next' = [next EXCEPT ![o] = "bound"]
  /\ UNCHANGED <<closeVars, active, taskVars, gateVars, plans, delivery,
                 execution, stop, streamVars>>

(* The generator's next(): it resumes the body, or answers done. *)
Pull(o) ==
  /\ next[o] = "bound"
  /\ IF stream[o] = "ended"
     THEN next' = [next EXCEPT ![o] = "idle"] /\ stream' = stream
     ELSE /\ next' = [next EXCEPT ![o] = "pulling"]
          /\ stream' = [stream EXCEPT ![o] = "running"]
  /\ UNCHANGED <<closeVars, active, taskVars, gateVars, plans, delivery,
                 execution, bound, stop, read, receipt>>

(* The finally block: the lease goes with the stream. *)
Ends(o, status) ==
  /\ stream' = [stream EXCEPT ![o] = "ended"]
  /\ receipt' = [receipt EXCEPT ![o] = status]
  /\ active' = Untracked(o)

CancelledAsComplete(o) == Ends(o, "completed")                   \* mutant
CancelledSilently(o) == Ends(o, receipt[o])                      \* mutant
(* consumer_cancelled: the body was left at a yield. *)
Cancelled(o) == Ends(o, "cancelled")

(* A plan is read and its reading yielded; a queued return() then resumes
   the body.  A drain asks for the next reading at once. *)
Yield(o) ==
  /\ stream[o] = "running" /\ read[o] < plans[o]
  /\ read' = [read EXCEPT ![o] = @ + 1]
  /\ IF stop[o] = "queued"
     THEN /\ Cancelled(o)
          /\ stop' = [stop EXCEPT ![o] = "returned"]
     ELSE /\ stream' = [stream EXCEPT ![o] = "yielded"]
          /\ UNCHANGED <<active, receipt, stop>>
  /\ next' = [next EXCEPT ![o] = IF delivery[o] = "drain" THEN "bound" ELSE "idle"]
  /\ UNCHANGED <<closeVars, taskVars, gateVars, plans, delivery, execution,
                 bound>>

(* The stream's other ends: a reading that is not accepted settles the
   receipt, an error rejects it, and running out of plans completes it. *)
StreamEnds(o, status) ==
  /\ stream[o] = "running"
  /\ Ends(o, status)
  /\ next' = [next EXCEPT ![o] = "idle"]
  /\ UNCHANGED <<closeVars, taskVars, gateVars, plans, delivery, execution,
                 bound, stop, read>>

Unresolved(o) ==
  /\ read[o] < plans[o]
  /\ \E status \in {"obstructed", "underdetermined"} : StreamEnds(o, status)

ReadFails(o) == read[o] < plans[o] /\ StreamEnds(o, "rejected")

(* Without a plan and without a bounded basis the receipt is obstructed. *)
Exhausted(o) ==
  /\ read[o] = plans[o]
  /\ \/ StreamEnds(o, "completed")
     \/ plans[o] = 0 /\ StreamEnds(o, "obstructed")

(* The consumer's return().  Before its iterator is bound it answers done;
   on a generator that never ran it skips the body, finally included; at a
   yield it runs the finally block; in mid-read it waits for the yield. *)
Return(o) ==
  /\ delivery[o] = "consumer" /\ stop[o] = "no"
  /\ \/ /\ o \notin bound
        /\ stop' = [stop EXCEPT ![o] = "ignored"]
        /\ UNCHANGED <<active, stream, receipt>>
     \/ /\ o \in bound /\ stream[o] = "unstarted"
        /\ stop' = [stop EXCEPT ![o] = "returned"]
        /\ stream' = [stream EXCEPT ![o] = "ended"]
        /\ UNCHANGED <<active, receipt>>
     \/ /\ o \in bound /\ stream[o] = "yielded"
        /\ stop' = [stop EXCEPT ![o] = "returned"]
        /\ Cancelled(o)
     \/ /\ o \in bound /\ stream[o] = "running"
        /\ stop' = [stop EXCEPT ![o] = "queued"]
        /\ UNCHANGED <<active, stream, receipt>>
     \/ /\ o \in bound /\ stream[o] = "ended"
        /\ stop' = [stop EXCEPT ![o] = "returned"]
        /\ UNCHANGED <<active, stream, receipt>>
  /\ UNCHANGED <<closeVars, taskVars, gateVars, plans, delivery, execution,
                 bound, next, read>>

-----------------------------------------------------------------------------
(* Specification *)

TaskStep(t) == CallTask(t) \/ EndTask(t)

MutationStep(m) ==
  CallMutation(m) \/ JoinQueue(m) \/ TakeTurn(m) \/ EndMutation(m)

(* Steps the runtime takes for an observation that was demanded. *)
ExecutionStep(o) ==
  \/ Started(o) \/ StartFails(o) \/ NextRejects(o) \/ BindIterator(o)
  \/ Pull(o) \/ Yield(o) \/ Unresolved(o) \/ ReadFails(o) \/ Exhausted(o)

ObservationStep(o) ==
  ExecutionStep(o) \/ Advance(o) \/ DemandReceipt(o) \/ Return(o)

Next ==
  \/ Close \/ Release
  \/ \E t \in Tasks : TaskStep(t)
  \/ \E m \in Mutations : MutationStep(m)
  \/ \E o \in Observations : ObservationStep(o)

Spec == Init /\ [][Next]_vars

(* Operations the application started run to an end, and a consumer that
   advanced its iterator goes on or returns, as a for-await loop does. *)
Fairness ==
  /\ WF_vars(Release)
  /\ \A t \in Tasks : WF_vars(EndTask(t))
  /\ \A m \in Mutations : WF_vars(JoinQueue(m) \/ TakeTurn(m) \/ EndMutation(m))
  /\ \A o \in Observations :
       /\ WF_vars(ExecutionStep(o))
       /\ WF_vars(delivery[o] = "consumer" /\ (Advance(o) \/ Return(o)))

FairSpec == Spec /\ Fairness

-----------------------------------------------------------------------------
(* Properties *)

CallsTyped ==
  /\ activity \in {"open", "closing", "closed"}
  /\ active \subseteq Ids /\ awaited \subseteq Ids
  /\ storage \in {"held", "released", "failed"}
  /\ task \in [Tasks -> {"none", "running", "done", "failed", "refused"}]

GateTyped ==
  /\ calls \in Seq(Mutations) /\ turns \in Seq(Mutations)
  /\ resolved \subseteq Mutations
  /\ mutation \in [Mutations -> {"none", "admitted", "queued", "running",
                                 "done", "failed", "refused"}]

ObservationsTyped ==
  /\ plans \in [Observations -> Nat]
  /\ delivery \in [Observations -> {"unclaimed", "consumer", "drain"}]
  /\ execution \in [Observations -> {"none", "starting", "live", "failed"}]
  /\ bound \subseteq Observations
  /\ next \in [Observations -> {"idle", "starting", "bound", "pulling"}]
  /\ stop \in [Observations -> {"no", "ignored", "queued", "returned"}]

StreamsTyped ==
  /\ stream \in [Observations ->
                   {"none", "unstarted", "running", "yielded", "ended"}]
  /\ read \in [Observations -> Nat]
  /\ receipt \in [Observations ->
       {"pending", "completed", "obstructed", "underdetermined", "cancelled",
        "rejected"}]

(* Every variable has its type (TypeScript's declarations). *)
TypeOK == CallsTyped /\ GateTyped /\ ObservationsTyped /\ StreamsTyped

(* Calls and streams that may still touch the storage. *)
Using ==
  {t \in Tasks : task[t] = "running"}
  \cup {m \in Mutations : mutation[m] \in {"admitted", "queued", "running"}}
  \cup {o \in Observations : execution[o] = "starting"
                             \/ stream[o] \in {"unstarted", "running", "yielded"}}

(* close() releases the storage only after every call it had admitted has
   settled and every open stream has ended, and nothing is admitted after it
   began: nobody uses a storage that is gone (RuntimeActivity.close). *)
NoUseAfterRelease == storage # "held" => Using = {}

(* Two authoritative mutations of one Runtime never overlap
   (RuntimeMutationGate.run). *)
MutationsExclusive ==
  \A m, n \in Mutations :
    mutation[m] = "running" /\ mutation[n] = "running" => m = n

(* A receipt says completed only when every plan of the observer was read and
   yielded: a cancelled or failed stream is never reported as a complete
   observation (streamReadings and finishReadingStream). *)
CompletedIsComplete ==
  \A o \in Observations : receipt[o] = "completed" => read[o] = plans[o]

(* return() was answered while a next() was outstanding: nothing will ever end
   the stream, and its lease stays held. *)
Abandoned(o) ==
  execution[o] = "live" /\ stop[o] \in {"ignored", "returned"} /\ o \in active

(* close(), which waits on every call, every queued mutation and every lease,
   comes to an end whatever fails on the way, unless a consumer returned over
   its outstanding next() (RuntimeActivity.close, the gate's finally block). *)
CloseTerminates ==
  activity = "closing" ~>
    activity = "closed" \/ \E o \in Observations : Abandoned(o)

(* An observation that began leaves a receipt, unless its consumer returned
   over its outstanding next() (Observation and streamReadings). *)
ReceiptSettles ==
  \A o \in Observations :
    execution[o] = "live" ~> receipt[o] # "pending" \/ Abandoned(o)
=============================================================================
