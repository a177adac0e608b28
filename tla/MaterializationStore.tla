------------------------ MODULE MaterializationStore ------------------------
(***************************************************************************)
(* The retained materializations of one lane: leases on what the cache     *)
(* holds, and workspaces for what is being made                            *)
(* (src/src/infrastructure/adapters/GitCasMaterializationStoreAdapter.ts,  *)
(* GitCasMaterializationLease.ts, GitCasMaterializationWorkspaceOwner.ts). *)
(*                                                                         *)
(* The adapter keeps one current lease.  Callers of the same coordinate    *)
(* borrow it; a caller of another opens a lease that takes its place, and  *)
(* the old one is given back to the cache when its last borrower is done.  *)
(* Acquisitions take turns; close() takes the last turn.                   *)
(*                                                                         *)
(* A caller acquires once and a job opens one workspace.  A lease is named *)
(* by the caller that opened it.                                           *)
(***************************************************************************)
EXTENDS Integers, Sequences, FiniteSets

CONSTANTS
    Callers,       \* calls of acquireExact and acquireBestCompatiblePredecessor
    Coordinates,   \* materialization coordinates
    Jobs,          \* calls of openWorkspace
    CloseCall      \* the turn of close()

ASSUME MaterializationStoreAssumption == CloseCall \notin Callers

VARIABLES
    leaseMutation, \* #leaseMutation: who runs, and who waits
    acquire,       \* each call: where it is, and the lease it borrows
    lease,         \* each lease
    currentLease,  \* #currentLease, or CloseCall
    retirements,   \* #retirements
    job,           \* each workspace
    closing        \* close(): open, openings, workspaces, queued, retirements, closed

storeVars == <<leaseMutation, acquire, lease, currentLease, retirements, job, closing>>

NoLease == [at |-> "none", borrowers |-> 0, retired |-> FALSE, hold |-> "none"]
NoCall == [pc |-> "idle", at |-> "none", exact |-> TRUE, of |-> CloseCall]
EndedCall == [NoCall EXCEPT !.pc = "ended"]   \* returned or threw
IsClosed == closing # "open"

StoreInit ==
    /\ leaseMutation = << >>
    /\ acquire = [c \in Callers |-> NoCall]
    /\ lease = [c \in Callers |-> NoLease]
    /\ currentLease = CloseCall /\ retirements = {}
    /\ job = [j \in Jobs |-> "idle"]
    /\ closing = "open"

-----------------------------------------------------------------------------
(* Leases. *)

\* #releaseIfReady: the hold on the cache goes once the lease is retired and nobody
\* borrows it.
ReleaseRetired(l) ==   \* a mutant of the next
    IF l.retired /\ l.hold = "held" THEN [l EXCEPT !.hold = "releasing"] ELSE l

ReleaseIfReady(l) ==
    IF l.retired /\ l.borrowers = 0 /\ l.hold = "held" THEN [l EXCEPT !.hold = "releasing"] ELSE l

Borrowed(l) == [l EXCEPT !.borrowers = @ + 1]
Retired(l) == ReleaseIfReady([l EXCEPT !.retired = TRUE])

KeptOnReturn(l) == [l EXCEPT !.borrowers = @ - 1]   \* a mutant of the next
Returned(l) == ReleaseIfReady([l EXCEPT !.borrowers = @ - 1])

\* The exact lookup refuses at once when the adapter is closed, the search for a
\* predecessor only in its turn.
Acquire(c, at, exact) ==
    /\ acquire[c].pc = "idle"
    /\ IF exact /\ IsClosed
       THEN acquire' = [acquire EXCEPT ![c] = EndedCall] /\ UNCHANGED leaseMutation
       ELSE /\ acquire' = [acquire EXCEPT ![c].pc = "queued", ![c].at = at, ![c].exact = exact]
            /\ leaseMutation' = Append(leaseMutation, c)
    /\ UNCHANGED <<lease, currentLease, retirements, job, closing>>

\* Its turn: refuse, borrow the current lease, or go and open one.
TakeLeaseTurn(c) ==
    /\ leaseMutation # << >> /\ Head(leaseMutation) = c /\ acquire[c].pc = "queued"
    /\ LET fits == /\ acquire[c].exact /\ currentLease # CloseCall
                   /\ lease[currentLease].at = acquire[c].at IN
       \/ /\ IsClosed /\ leaseMutation' = Tail(leaseMutation)
          /\ acquire' = [acquire EXCEPT ![c] = EndedCall] /\ UNCHANGED lease
       \/ /\ ~IsClosed /\ fits /\ leaseMutation' = Tail(leaseMutation)
          /\ acquire' = [acquire EXCEPT ![c].pc = "borrowing", ![c].of = currentLease]
          /\ lease' = [lease EXCEPT ![currentLease] = Borrowed(@)]
       \/ /\ ~IsClosed /\ ~fits
          /\ acquire' = [acquire EXCEPT ![c].pc = "opening"] /\ UNCHANGED <<leaseMutation, lease>>
    /\ UNCHANGED <<currentLease, retirements, job, closing>>

\* #openLease finds nothing, or fails, with what it acquired given back.
OpenLeaseFails(c) ==
    /\ acquire[c].pc = "opening" /\ leaseMutation' = Tail(leaseMutation)
    /\ acquire' = [acquire EXCEPT ![c] = EndedCall]
    /\ UNCHANGED <<lease, currentLease, retirements, job, closing>>

\* #openLease and #replaceCurrentLease.
OpenLease(c) ==
    /\ acquire[c].pc = "opening" /\ leaseMutation' = Tail(leaseMutation)
    /\ acquire' = [acquire EXCEPT ![c].pc = "borrowing", ![c].of = c]
    /\ LET made == [NoLease EXCEPT !.at = acquire[c].at, !.hold = "held"]
           opened == [lease EXCEPT ![c] = Borrowed(made)] IN
       lease' = IF currentLease = CloseCall THEN opened
                ELSE [opened EXCEPT ![currentLease] = Retired(@)]
    /\ retirements' = retirements \cup ({currentLease} \ {CloseCall})
    /\ currentLease' = c
    /\ UNCHANGED <<job, closing>>

\* The caller is done; the last borrower of a retired lease waits for the cache.
ReleaseLease(c) ==
    /\ acquire[c].pc = "borrowing"
    /\ LET l == Returned(lease[acquire[c].of]) IN
       /\ lease' = [lease EXCEPT ![acquire[c].of] = l]
       /\ acquire' = [acquire EXCEPT ![c] =
              IF l.borrowers = 0 /\ l.retired THEN [@ EXCEPT !.pc = "releasing"] ELSE EndedCall]
    /\ UNCHANGED <<leaseMutation, currentLease, retirements, job, closing>>

\* The cache has released the hold, or refused to, which is kept for close() to report;
\* the retirement is settled, and who waited for it goes on.
HoldReleased(c) ==
    /\ lease[c].hold = "releasing"
    /\ lease' = [lease EXCEPT ![c] = [NoLease EXCEPT !.hold = "gone"]]
    /\ retirements' = retirements \ {c}
    /\ acquire' = [d \in Callers |->
           IF acquire[d].pc = "releasing" /\ acquire[d].of = c THEN EndedCall ELSE acquire[d]]
    /\ UNCHANGED <<leaseMutation, currentLease, job, closing>>

-----------------------------------------------------------------------------
(* Workspaces. *)

OpenWorkspace(j) ==
    /\ job[j] = "idle"
    /\ job' = [job EXCEPT ![j] = IF IsClosed THEN "ended" ELSE "opening"]
    /\ UNCHANGED <<leaseMutation, acquire, lease, currentLease, retirements, closing>>

\* The staging area exists, and the owner knows the workspace; or opening it failed.
WorkspaceOpened(j) ==
    /\ job[j] = "opening"
    /\ \E state \in {"open", "ended"} : job' = [job EXCEPT ![j] = state]
    /\ UNCHANGED <<leaseMutation, acquire, lease, currentLease, retirements, closing>>

\* The job is done with it, or open() finds the owner closed.
ReleaseWorkspace(j) ==
    /\ job[j] = "open" /\ job' = [job EXCEPT ![j] = "releasing"]
    /\ UNCHANGED <<leaseMutation, acquire, lease, currentLease, retirements, closing>>

WorkspaceReleased(j) ==
    /\ job[j] = "releasing" /\ job' = [job EXCEPT ![j] = "ended"]
    /\ UNCHANGED <<leaseMutation, acquire, lease, currentLease, retirements, closing>>

-----------------------------------------------------------------------------
(* close(). *)

CloseStore ==
    /\ closing = "open" /\ closing' = "openings"
    /\ UNCHANGED <<leaseMutation, acquire, lease, currentLease, retirements, job>>

\* The owner waits for workspaces that are being opened, then releases all it knows.
ReleaseWorkspaces ==
    /\ closing = "openings" /\ (\A j \in Jobs : job[j] # "opening")
    /\ closing' = "workspaces"
    /\ job' = [j \in Jobs |-> IF job[j] = "open" THEN "releasing" ELSE job[j]]
    /\ UNCHANGED <<leaseMutation, acquire, lease, currentLease, retirements>>

WorkspacesGone ==
    /\ closing = "workspaces" /\ (\A j \in Jobs : job[j] # "releasing")
    /\ closing' = "queued" /\ leaseMutation' = Append(leaseMutation, CloseCall)
    /\ UNCHANGED <<acquire, lease, currentLease, retirements, job>>

RetireCurrent ==
    /\ leaseMutation # << >> /\ Head(leaseMutation) = CloseCall
    /\ leaseMutation' = Tail(leaseMutation) /\ closing' = "retirements" /\ currentLease' = CloseCall
    /\ lease' = IF currentLease = CloseCall THEN lease
                ELSE [lease EXCEPT ![currentLease] = Retired(@)]
    /\ retirements' = retirements \cup ({currentLease} \ {CloseCall})
    /\ UNCHANGED <<acquire, job>>

CloseReturns ==
    /\ closing = "retirements" /\ retirements = {} /\ closing' = "closed"
    /\ UNCHANGED <<leaseMutation, acquire, lease, currentLease, retirements, job>>

StoreNext ==
    \/ CloseStore \/ ReleaseWorkspaces \/ WorkspacesGone \/ RetireCurrent \/ CloseReturns
    \/ \E c \in Callers :
          \/ \E at \in Coordinates, exact \in BOOLEAN : Acquire(c, at, exact)
          \/ TakeLeaseTurn(c) \/ OpenLease(c) \/ OpenLeaseFails(c)
          \/ ReleaseLease(c) \/ HoldReleased(c)
    \/ \E j \in Jobs :
          OpenWorkspace(j) \/ WorkspaceOpened(j) \/ ReleaseWorkspace(j) \/ WorkspaceReleased(j)

\* Storage answers every call, promises that can go on do, and a borrower gives its lease
\* back: its caller does so in a finally block.  A job may keep its workspace.
CloseStep == ReleaseWorkspaces \/ WorkspacesGone \/ RetireCurrent \/ CloseReturns
CallStep(c) == TakeLeaseTurn(c) \/ OpenLease(c) \/ OpenLeaseFails(c) \/ ReleaseLease(c)

StoreFairness ==
    /\ WF_storeVars(CloseStep)
    /\ \A c \in Callers : WF_storeVars(CallStep(c)) /\ WF_storeVars(HoldReleased(c))
    /\ \A j \in Jobs : WF_storeVars(WorkspaceOpened(j) \/ WorkspaceReleased(j))

StoreSpec == StoreInit /\ [][StoreNext]_storeVars

-----------------------------------------------------------------------------
Call == [pc : {"idle", "queued", "opening", "borrowing", "releasing", "ended"},
         at : Coordinates \cup {"none"}, exact : BOOLEAN, of : Callers \cup {CloseCall}]

Lease == [at : Coordinates \cup {"none"}, borrowers : Int, retired : BOOLEAN,
          hold : {"none", "held", "releasing", "gone"}]

(* Every variable has its type (the adapters' declarations).               *)
StoreTypeOK ==
    /\ leaseMutation \in Seq(Callers \cup {CloseCall})
    /\ acquire \in [Callers -> Call]
    /\ lease \in [Callers -> Lease]
    /\ currentLease \in Callers \cup {CloseCall} /\ retirements \subseteq Callers
    /\ job \in [Jobs -> {"idle", "opening", "open", "releasing", "ended"}]
    /\ closing \in {"open", "openings", "workspaces", "queued", "retirements", "closed"}

(* Who borrows a lease can read the materialization: the cache is not told *)
(* to let it go before the borrower is done, although other callers        *)
(* replace the lease and close() retires it (GitCasMaterializationLease).  *)
BorrowedIsHeld ==
    \A c \in Callers : acquire[c].pc = "borrowing" => lease[acquire[c].of].hold = "held"

(* When close() has returned, no hold on the cache and no workspace is     *)
(* left, also of calls that were under way when it began                   *)
(* (GitCasMaterializationStoreAdapter.close).                              *)
NothingLeft ==
    closing = "closed" =>
        /\ \A c \in Callers : lease[c].hold \in {"none", "gone"}
        /\ \A j \in Jobs : job[j] \in {"idle", "ended"}

(* close() comes to an end, and then nothing is left in storage: every     *)
(* lease that was ever opened, also during the close, was given back, and  *)
(* every workspace released, or storage refused to.                        *)
StoreCloses ==
    IsClosed ~>
        /\ closing = "closed"
        /\ \A c \in Callers : lease[c].hold \in {"none", "gone"}
        /\ \A j \in Jobs : job[j] \in {"idle", "ended"}
=============================================================================
