------------------------- MODULE StreamStoreProofs --------------------------
(***************************************************************************)
(* What is handed out inside one process, for any number of items, keys,   *)
(* callers, coordinates and jobs.                                          *)
(*                                                                         *)
(*   leases    a lease that is borrowed is held (LeasesHold), and close()  *)
(*             of the store leaves nothing behind (CloseLeavesNothing);    *)
(*   streams   every copy of an item that goes through tee, mux and demux  *)
(*             is delivered once and in order (EveryCopyOnce).  The        *)
(*             inductive invariant says what tee's cache holds beside what *)
(*             the source gave and the branches took (TeeInv), what each   *)
(*             pull of mux stands for (MuxInv), and that the copies sent   *)
(*             are, for each branch, those of the items before some place, *)
(*             which mux's pull of the branch tells (DemuxInv).            *)
(***************************************************************************)
EXTENDS MaterializationStore, WarpStream, FiniteSetTheorems, SequenceTheorems, TLAPS

-----------------------------------------------------------------------------
(* Leases *)

(* The types of the values the steps make. *)
LEMMA ValueTypes ==
  /\ NoLease \in Lease
  /\ NoCall \in Call /\ EndedCall \in Call
  /\ \A l \in Lease : Borrowed(l) \in Lease /\ Retired(l) \in Lease /\ Returned(l) \in Lease
  /\ EndedCall.pc = "ended"
<1>1. NoLease \in Lease  BY DEF NoLease, Lease
<1>2. NoCall \in Call  BY DEF NoCall, Call
<1>3. EndedCall \in Call /\ EndedCall.pc = "ended"  BY DEF EndedCall, NoCall, Call
<1>4. ASSUME NEW l \in Lease PROVE ReleaseIfReady(l) \in Lease
    BY DEF ReleaseIfReady, Lease
<1>5. ASSUME NEW l \in Lease PROVE Borrowed(l) \in Lease  BY DEF Borrowed, Lease
<1>6. ASSUME NEW l \in Lease PROVE Retired(l) \in Lease
  <2>1. [l EXCEPT !.retired = TRUE] \in Lease  BY DEF Lease
  <2> QED BY <2>1, <1>4 DEF Retired
<1>7. ASSUME NEW l \in Lease PROVE Returned(l) \in Lease
  <2>1. [l EXCEPT !.borrowers = @ - 1] \in Lease  BY DEF Lease
  <2> QED BY <2>1, <1>4 DEF Returned
<1> QED BY <1>1, <1>2, <1>3, <1>5, <1>6, <1>7
-----------------------------------------------------------------------------
(* The calls that borrow a lease. *)
BorrowersOf(l) == {c \in Callers : acquire[c].pc = "borrowing" /\ acquire[c].of = l}

(* The count a lease keeps is the number of its borrowers. *)
Counted ==
  \A l \in Callers : /\ IsFiniteSet(BorrowersOf(l))
                     /\ lease[l].borrowers = Cardinality(BorrowersOf(l))

BorrowedExists == \A c \in Callers : acquire[c].pc = "borrowing" => acquire[c].of \in Callers

(* The cache is told to let go only when the count is down. *)
HeldWhileCounted == \A l \in Callers : lease[l].hold # "held" => lease[l].borrowers = 0

(* A call that has not opened its lease has none, so it opens a new one. *)
Unopened ==
  \A c \in Callers : acquire[c].pc \in {"idle", "queued", "opening"} => lease[c].hold = "none"

(* The current lease can be borrowed. *)
CurrentHeld ==
  currentLease # CloseCall => lease[currentLease].hold = "held" /\ ~lease[currentLease].retired

LeaseInv ==
  StoreTypeOK /\ Counted /\ BorrowedExists /\ HeldWhileCounted /\ Unopened /\ CurrentHeld

(* Who opens a lease is at the head of the queue. *)
InTurn ==
  \A c \in Callers :
    acquire[c].pc = "opening" => leaseMutation # << >> /\ Head(leaseMutation) = c

(* close() finds a lease that is held as the current one or among the retirements. *)
Remembered ==
  \A l \in Callers :
    lease[l].hold \in {"held", "releasing"} => l = currentLease \/ l \in retirements

(* The turn of close() is the last one in which a lease may be opened. *)
LastTurn ==
  /\ closing \in {"retirements", "closed"} =>
       currentLease = CloseCall /\ \A c \in Callers : acquire[c].pc # "opening"
  /\ (\E i \in 1..Len(leaseMutation) : leaseMutation[i] = CloseCall)
       => closing \in {"queued", "retirements", "closed"}
  /\ closing = "closed" => retirements = {}

(* The workspaces are gone before that turn is asked for. *)
WorkspacesFirst ==
  \A j \in Jobs :
    /\ closing \in {"workspaces", "queued", "retirements", "closed"}
         => job[j] \notin {"opening", "open"}
    /\ closing \in {"queued", "retirements", "closed"} => job[j] # "releasing"

CloseInv == LeaseInv /\ InTurn /\ Remembered /\ LastTurn /\ WorkspacesFirst

-----------------------------------------------------------------------------
(* What the operations of a lease change. *)
LEMMA LeaseFields ==
  ASSUME NEW l \in Lease
  PROVE  /\ Borrowed(l).borrowers = l.borrowers + 1
         /\ Borrowed(l).hold = l.hold /\ Borrowed(l).retired = l.retired
         /\ Retired(l).borrowers = l.borrowers /\ Retired(l).retired
         /\ Retired(l).hold = IF l.borrowers = 0 /\ l.hold = "held" THEN "releasing" ELSE l.hold
         /\ Returned(l).borrowers = l.borrowers - 1 /\ Returned(l).retired = l.retired
         /\ Returned(l).hold = IF l.retired /\ l.borrowers = 1 /\ l.hold = "held"
                               THEN "releasing" ELSE l.hold
<1>1. Borrowed(l).borrowers = l.borrowers + 1 /\ Borrowed(l).hold = l.hold
      /\ Borrowed(l).retired = l.retired
    BY DEF Borrowed, Lease
<1> DEFINE r == [l EXCEPT !.retired = TRUE]
           d == [l EXCEPT !.borrowers = @ - 1]
<1>2. r \in Lease /\ r.borrowers = l.borrowers /\ r.retired = TRUE /\ r.hold = l.hold
    BY DEF Lease
<1>6. d \in Lease /\ d.borrowers = l.borrowers - 1 /\ d.retired = l.retired /\ d.hold = l.hold
    BY DEF Lease
<1> HIDE DEF r, d
<1>3. \A x \in Lease : /\ ReleaseIfReady(x).borrowers = x.borrowers
                       /\ ReleaseIfReady(x).retired = x.retired
                       /\ ReleaseIfReady(x).hold = IF x.retired /\ x.borrowers = 0 /\ x.hold = "held"
                                                   THEN "releasing" ELSE x.hold
  <2> SUFFICES ASSUME NEW x \in Lease
               PROVE  /\ ReleaseIfReady(x).borrowers = x.borrowers
                      /\ ReleaseIfReady(x).retired = x.retired
                      /\ ReleaseIfReady(x).hold = IF x.retired /\ x.borrowers = 0 /\ x.hold = "held"
                                                  THEN "releasing" ELSE x.hold
      OBVIOUS
  <2>1. CASE x.retired /\ x.borrowers = 0 /\ x.hold = "held"
      BY <2>1 DEF ReleaseIfReady, Lease
  <2>2. CASE ~(x.retired /\ x.borrowers = 0 /\ x.hold = "held")
      BY <2>2 DEF ReleaseIfReady
  <2> QED BY <2>1, <2>2
<1>4. Retired(l) = ReleaseIfReady(r) /\ Returned(l) = ReleaseIfReady(d)
    BY DEF Retired, Returned, r, d
<1>5. l.borrowers \in Int  BY DEF Lease
<1> QED BY <1>1, <1>2, <1>3, <1>4, <1>5, <1>6

(* The types hold initially and in every step. *)
LEMMA StoreTypesStep == StoreTypeOK /\ InTurn /\ [StoreNext]_storeVars => StoreTypeOK'
<1> SUFFICES ASSUME StoreTypeOK, InTurn, [StoreNext]_storeVars PROVE StoreTypeOK'  OBVIOUS
<1> USE ValueTypes DEF StoreTypeOK
<1>1. CASE UNCHANGED storeVars  BY <1>1 DEF storeVars
<1>2. CASE CloseStore  BY <1>2 DEF CloseStore
<1>3. CASE ReleaseWorkspaces  BY <1>3 DEF ReleaseWorkspaces
<1>4. CASE WorkspacesGone  BY <1>4 DEF WorkspacesGone
<1>5. CASE RetireCurrent  BY <1>5 DEF RetireCurrent
<1>6. CASE CloseReturns  BY <1>6 DEF CloseReturns
<1>7. ASSUME NEW c \in Callers, NEW at \in Coordinates, NEW exact \in BOOLEAN,
             Acquire(c, at, exact)
      PROVE  StoreTypeOK'
  <2>1. [acquire[c] EXCEPT !.pc = "queued", !.at = at, !.exact = exact] \in Call
      BY DEF Call
  <2>2. Append(leaseMutation, c) \in Seq(Callers \cup {CloseCall})  OBVIOUS
  <2> QED BY <1>7, <2>1, <2>2 DEF Acquire
<1>8. ASSUME NEW c \in Callers, TakeLeaseTurn(c) PROVE StoreTypeOK'
  <2>1. [acquire[c] EXCEPT !.pc = "borrowing", !.of = currentLease] \in Call
        /\ [acquire[c] EXCEPT !.pc = "opening"] \in Call
      BY DEF Call
  <2>2. leaseMutation # << >> => Tail(leaseMutation) \in Seq(Callers \cup {CloseCall})  OBVIOUS
  <2>3. currentLease # CloseCall => Borrowed(lease[currentLease]) \in Lease  OBVIOUS
  <2>4. acquire' \in [Callers -> Call]  BY <1>8, <2>1 DEF TakeLeaseTurn
  <2>5. lease' \in [Callers -> Lease]  BY <1>8, <2>3 DEF TakeLeaseTurn
  <2> QED BY <1>8, <2>2, <2>4, <2>5 DEF TakeLeaseTurn
<1>9. ASSUME NEW c \in Callers, OpenLease(c) PROVE StoreTypeOK'
  <2>1. [acquire[c] EXCEPT !.pc = "borrowing", !.of = c] \in Call  BY DEF Call
  <2>2. [NoLease EXCEPT !.at = acquire[c].at, !.hold = "held"] \in Lease
      BY DEF NoLease, Lease, Call
  <2>3. Tail(leaseMutation) \in Seq(Callers \cup {CloseCall})
      BY <1>9 DEF OpenLease, InTurn
  <2> QED BY <1>9, <2>1, <2>2, <2>3 DEF OpenLease
<1>10. ASSUME NEW c \in Callers, OpenLeaseFails(c) PROVE StoreTypeOK'
  <2>1. Tail(leaseMutation) \in Seq(Callers \cup {CloseCall})
      BY <1>10 DEF OpenLeaseFails, InTurn
  <2> QED BY <1>10, <2>1 DEF OpenLeaseFails
<1>11. ASSUME NEW c \in Callers, ReleaseLease(c) PROVE StoreTypeOK'
    BY <1>11 DEF ReleaseLease, Call
<1>12. ASSUME NEW c \in Callers, HoldReleased(c) PROVE StoreTypeOK'
  <2>1. [NoLease EXCEPT !.hold = "gone"] \in Lease  BY DEF NoLease, Lease
  <2> QED BY <1>12, <2>1 DEF HoldReleased
<1>13. ASSUME NEW j \in Jobs,
              OpenWorkspace(j) \/ WorkspaceOpened(j) \/ ReleaseWorkspace(j) \/ WorkspaceReleased(j)
       PROVE  StoreTypeOK'
    BY <1>13 DEF OpenWorkspace, WorkspaceOpened, ReleaseWorkspace, WorkspaceReleased
<1> QED BY <1>1, <1>2, <1>3, <1>4, <1>5, <1>6, <1>7, <1>8, <1>9, <1>10, <1>11, <1>12, <1>13
        DEF StoreNext

(* Who opens a lease stays at the head of the queue. *)
LEMMA TurnStep == StoreTypeOK /\ InTurn /\ [StoreNext]_storeVars => InTurn'
<1> SUFFICES ASSUME StoreTypeOK, InTurn, [StoreNext]_storeVars PROVE InTurn'  OBVIOUS
<1> USE ValueTypes DEF StoreTypeOK, InTurn
<1>1. CASE UNCHANGED storeVars  BY <1>1 DEF storeVars
<1>2. CASE CloseStore  BY <1>2 DEF CloseStore
<1>3. CASE ReleaseWorkspaces  BY <1>3 DEF ReleaseWorkspaces
<1>4. CASE WorkspacesGone
  <2>1. leaseMutation # << >> => Append(leaseMutation, CloseCall) # << >>
                                 /\ Head(Append(leaseMutation, CloseCall)) = Head(leaseMutation)
      OBVIOUS
  <2> QED BY <1>4, <2>1 DEF WorkspacesGone
<1>5. CASE RetireCurrent
  <2>1. \A c \in Callers : acquire[c].pc # "opening"
      BY <1>5, MaterializationStoreAssumption DEF RetireCurrent
  <2> QED BY <1>5, <2>1 DEF RetireCurrent
<1>6. CASE CloseReturns  BY <1>6 DEF CloseReturns
<1>7. ASSUME NEW c \in Callers, NEW at \in Coordinates, NEW exact \in BOOLEAN,
             Acquire(c, at, exact)
      PROVE  InTurn'
  <2>1. leaseMutation # << >> => Append(leaseMutation, c) # << >>
                                 /\ Head(Append(leaseMutation, c)) = Head(leaseMutation)
      OBVIOUS
  <2>2. \A d \in Callers : acquire'[d].pc = "opening" => acquire[d].pc = "opening"
      BY <1>7 DEF Acquire, Call
  <2> QED BY <1>7, <2>1, <2>2 DEF Acquire
<1>8. ASSUME NEW c \in Callers, TakeLeaseTurn(c) PROVE InTurn'
  <2>1. \A d \in Callers : acquire[d].pc # "opening"  BY <1>8 DEF TakeLeaseTurn
  <2>2. \A d \in Callers \ {c} : acquire'[d] = acquire[d]  BY <1>8 DEF TakeLeaseTurn
  <2>3. \/ acquire'[c].pc \in {"ended", "borrowing"}
        \/ acquire'[c].pc = "opening" /\ leaseMutation' = leaseMutation
      BY <1>8 DEF TakeLeaseTurn, Call
  <2> QED BY <1>8, <2>1, <2>2, <2>3 DEF TakeLeaseTurn
<1>9. ASSUME NEW c \in Callers, OpenLease(c) PROVE InTurn'
  <2>1. \A d \in Callers \ {c} : acquire'[d].pc # "opening"  BY <1>9 DEF OpenLease
  <2>2. acquire'[c].pc = "borrowing"  BY <1>9 DEF OpenLease, Call
  <2> QED BY <2>1, <2>2
<1>10. ASSUME NEW c \in Callers, OpenLeaseFails(c) PROVE InTurn'
    BY <1>10 DEF OpenLeaseFails
<1>11. ASSUME NEW c \in Callers, ReleaseLease(c) PROVE InTurn'
  <2>1. \A d \in Callers \ {c} : acquire'[d] = acquire[d]  BY <1>11 DEF ReleaseLease
  <2>2. acquire'[c].pc \in {"ended", "releasing"}  BY <1>11 DEF ReleaseLease, Call
  <2> QED BY <1>11, <2>1, <2>2 DEF ReleaseLease
<1>12. ASSUME NEW c \in Callers, HoldReleased(c) PROVE InTurn'
    BY <1>12 DEF HoldReleased
<1>13. ASSUME NEW j \in Jobs,
              OpenWorkspace(j) \/ WorkspaceOpened(j) \/ ReleaseWorkspace(j) \/ WorkspaceReleased(j)
       PROVE  InTurn'
    BY <1>13 DEF OpenWorkspace, WorkspaceOpened, ReleaseWorkspace, WorkspaceReleased
<1> QED BY <1>1, <1>2, <1>3, <1>4, <1>5, <1>6, <1>7, <1>8, <1>9, <1>10, <1>11, <1>12, <1>13
        DEF StoreNext

-----------------------------------------------------------------------------
(* A lease that nobody begins or ceases to borrow keeps its count. *)
LEMMA CountKept ==
  ASSUME Counted, NEW l \in Callers, lease'[l].borrowers = lease[l].borrowers,
         \A c \in Callers : /\ acquire'[c].pc = "borrowing" <=> acquire[c].pc = "borrowing"
                            /\ acquire[c].pc = "borrowing" => acquire'[c].of = acquire[c].of
  PROVE  /\ IsFiniteSet(BorrowersOf(l))'
         /\ lease'[l].borrowers = Cardinality(BorrowersOf(l))'
<1>1. BorrowersOf(l)' = BorrowersOf(l)  BY DEF BorrowersOf
<1> QED BY <1>1 DEF Counted

(* The steps that concern no lease keep what is said of leases. *)
LEMMA LeasesUntouched ==
  ASSUME LeaseInv, StoreTypeOK', UNCHANGED <<lease, currentLease>>,
         \A c \in Callers : /\ acquire'[c].pc = "borrowing" <=> acquire[c].pc = "borrowing"
                            /\ acquire[c].pc = "borrowing" => acquire'[c].of = acquire[c].of
                            /\ acquire'[c].pc \in {"idle", "queued", "opening"}
                                 => acquire[c].pc \in {"idle", "queued", "opening"}
  PROVE  LeaseInv'
<1>1. Counted'  BY CountKept DEF LeaseInv, Counted
<1> QED BY <1>1 DEF LeaseInv, BorrowedExists, HeldWhileCounted, Unopened, CurrentHeld

(* A call that borrows the current lease is counted, and the lease is held. *)
LEMMA BorrowStep ==
  ASSUME LeaseInv, StoreTypeOK', NEW c \in Callers, acquire[c].pc = "queued",
         currentLease # CloseCall, UNCHANGED currentLease,
         acquire' = [acquire EXCEPT ![c].pc = "borrowing", ![c].of = currentLease],
         lease' = [lease EXCEPT ![currentLease] = Borrowed(@)]
  PROVE  LeaseInv'
<1> USE DEF LeaseInv
<1>0. acquire \in [Callers -> Call] /\ lease \in [Callers -> Lease] /\ currentLease \in Callers
    BY DEF StoreTypeOK
<1>1. acquire'[c].pc = "borrowing" /\ acquire'[c].of = currentLease
    BY <1>0 DEF Call
<1>2. \A d \in Callers \ {c} : acquire'[d] = acquire[d]  BY <1>0
<1>3. /\ lease'[currentLease].borrowers = lease[currentLease].borrowers + 1
      /\ lease'[currentLease].hold = lease[currentLease].hold
      /\ lease'[currentLease].retired = lease[currentLease].retired
    BY <1>0, LeaseFields
<1>4. \A l \in Callers \ {currentLease} : lease'[l] = lease[l]  BY <1>0
<1>5. Counted'
  <2> SUFFICES ASSUME NEW l \in Callers
               PROVE  /\ IsFiniteSet(BorrowersOf(l))'
                      /\ lease'[l].borrowers = Cardinality(BorrowersOf(l))'
      BY DEF Counted
  <2>1. CASE l = currentLease
    <3>1. BorrowersOf(l)' = BorrowersOf(l) \cup {c} /\ c \notin BorrowersOf(l)
        BY <2>1, <1>1, <1>2 DEF BorrowersOf
    <3>2. IsFiniteSet(BorrowersOf(l)) /\ lease[l].borrowers = Cardinality(BorrowersOf(l))
        BY DEF Counted
    <3>3. /\ IsFiniteSet(BorrowersOf(l) \cup {c})
          /\ Cardinality(BorrowersOf(l) \cup {c}) = Cardinality(BorrowersOf(l)) + 1
        BY <3>1, <3>2, FS_AddElement
    <3> QED BY <2>1, <3>1, <3>2, <3>3, <1>3
  <2>2. CASE l # currentLease
    <3>1. BorrowersOf(l)' = BorrowersOf(l)
        BY <2>2, <1>1, <1>2 DEF BorrowersOf
    <3> QED BY <2>2, <3>1, <1>4 DEF Counted
  <2> QED BY <2>1, <2>2
<1>6. BorrowedExists'  BY <1>0, <1>1, <1>2 DEF BorrowedExists
<1>7. HeldWhileCounted'  BY <1>0, <1>3, <1>4 DEF HeldWhileCounted, CurrentHeld
<1>8. Unopened'
    BY <1>0, <1>1, <1>2, <1>3, <1>4 DEF Unopened
<1>9. CurrentHeld'  BY <1>0, <1>3 DEF CurrentHeld
<1> QED BY <1>5, <1>6, <1>7, <1>8, <1>9

(* A lease that is retired is not the current one any more; a hold that is
   borrowed outlives its retirement. *)
LEMMA RetireKeeps ==
  ASSUME NEW l \in Lease, l.hold # "held" => l.borrowers = 0
  PROVE  Retired(l).hold # "held" => Retired(l).borrowers = 0
BY LeaseFields

(* A call that opens a lease replaces the current one. *)
LEMMA OpenStep ==
  ASSUME LeaseInv, StoreTypeOK', NEW c \in Callers, OpenLease(c)
  PROVE  LeaseInv'
<1> USE DEF LeaseInv
<1> DEFINE made == [NoLease EXCEPT !.at = acquire[c].at, !.hold = "held"]
<1>0. acquire \in [Callers -> Call] /\ lease \in [Callers -> Lease]
      /\ currentLease \in Callers \cup {CloseCall}
    BY DEF StoreTypeOK
<1>1. made \in Lease /\ made.hold = "held" /\ made.borrowers = 0 /\ made.retired = FALSE
  <2>1. acquire[c].at \in Coordinates \cup {"none"}  BY <1>0 DEF Call
  <2>2. /\ NoLease \in Lease /\ NoLease.borrowers = 0 /\ NoLease.retired = FALSE
      BY ValueTypes DEF NoLease
  <2>3. \A l \in Lease, at \in Coordinates \cup {"none"} :
          LET n == [l EXCEPT !.at = at, !.hold = "held"] IN
            n \in Lease /\ n.hold = "held" /\ n.borrowers = l.borrowers /\ n.retired = l.retired
      BY DEF Lease
  <2> QED BY <2>1, <2>2, <2>3
<1> HIDE DEF made
<1>2. lease[c].hold = "none" /\ lease[c].borrowers = 0 /\ c # currentLease
    BY <1>0, MaterializationStoreAssumption
       DEF OpenLease, Unopened, HeldWhileCounted, CurrentHeld
<1>3. acquire'[c].pc = "borrowing" /\ acquire'[c].of = c
    BY <1>0 DEF OpenLease, Call
<1>4. \A d \in Callers \ {c} : acquire'[d] = acquire[d]  BY <1>0 DEF OpenLease
<1>5. lease'[c] = Borrowed(made)  BY <1>0, <1>2 DEF OpenLease, made
<1>6. lease'[c].hold = "held" /\ lease'[c].borrowers = 1 /\ lease'[c].retired = FALSE
    BY <1>1, <1>5, LeaseFields
<1>7. \A l \in Callers \ {c} : lease'[l] = IF l = currentLease THEN Retired(lease[l]) ELSE lease[l]
    BY <1>0, <1>2, MaterializationStoreAssumption DEF OpenLease
<1>8. Counted'
  <2> SUFFICES ASSUME NEW l \in Callers
               PROVE  /\ IsFiniteSet(BorrowersOf(l))'
                      /\ lease'[l].borrowers = Cardinality(BorrowersOf(l))'
      BY DEF Counted
  <2>1. CASE l = c
    <3>1. IsFiniteSet(BorrowersOf(c)) /\ Cardinality(BorrowersOf(c)) = 0
        BY <1>2 DEF Counted
    <3>2. BorrowersOf(c) = {}  BY <3>1, FS_EmptySet
    <3>3. BorrowersOf(c)' = {c}
        BY <1>3, <1>4, <3>2 DEF BorrowersOf
    <3> QED BY <2>1, <3>3, <1>6, FS_Singleton
  <2>2. CASE l # c
    <3>1. BorrowersOf(l)' = BorrowersOf(l)
        BY <2>2, <1>3, <1>4 DEF BorrowersOf, OpenLease
    <3>2. lease'[l].borrowers = lease[l].borrowers
        BY <2>2, <1>0, <1>7, LeaseFields
    <3> QED BY <3>1, <3>2 DEF Counted
  <2> QED BY <2>1, <2>2
<1>9. BorrowedExists'  BY <1>3, <1>4 DEF BorrowedExists
<1>10. HeldWhileCounted'
  <2> SUFFICES ASSUME NEW l \in Callers
               PROVE  lease'[l].hold # "held" => lease'[l].borrowers = 0
      BY DEF HeldWhileCounted
  <2>1. lease[l] \in Lease /\ (lease[l].hold # "held" => lease[l].borrowers = 0)
      BY <1>0 DEF HeldWhileCounted
  <2> QED BY <2>1, <1>6, <1>7, RetireKeeps
<1>11. Unopened'
  <2> SUFFICES ASSUME NEW d \in Callers, acquire'[d].pc \in {"idle", "queued", "opening"}
               PROVE  lease'[d].hold = "none"
      BY DEF Unopened
  <2>1. d # c /\ lease[d].hold = "none"  BY <1>3, <1>4 DEF Unopened
  <2>2. d # currentLease  BY <2>1, <1>0, MaterializationStoreAssumption DEF CurrentHeld
  <2> QED BY <2>1, <2>2, <1>7
<1>12. CurrentHeld'  BY <1>6 DEF CurrentHeld, OpenLease
<1> QED BY <1>8, <1>9, <1>10, <1>11, <1>12

(* A borrower that is done is no longer counted; the last one lets go of a
   lease that was retired. *)
LEMMA ReturnStep ==
  ASSUME LeaseInv, StoreTypeOK', NEW c \in Callers, ReleaseLease(c)
  PROVE  LeaseInv'
<1> USE DEF LeaseInv
<1> PICK of \in Callers : of = acquire[c].of  BY DEF ReleaseLease, BorrowedExists
<1>0. acquire \in [Callers -> Call] /\ lease \in [Callers -> Lease]
    BY DEF StoreTypeOK
<1>1. acquire[c].pc = "borrowing" /\ acquire'[c].pc \in {"releasing", "ended"}
    BY <1>0, ValueTypes DEF ReleaseLease, Call
<1>2. \A d \in Callers \ {c} : acquire'[d] = acquire[d]  BY <1>0 DEF ReleaseLease
<1>3. lease' = [lease EXCEPT ![of] = Returned(lease[of])]  BY DEF ReleaseLease
<1>4. /\ lease'[of].borrowers = lease[of].borrowers - 1
      /\ lease'[of].retired = lease[of].retired
      /\ lease'[of].hold = IF /\ lease[of].retired /\ lease[of].borrowers = 1
                             /\ lease[of].hold = "held"
                          THEN "releasing" ELSE lease[of].hold
    BY <1>0, <1>3, LeaseFields
<1>5. \A l \in Callers \ {of} : lease'[l] = lease[l]  BY <1>0, <1>3
<1>6. c \in BorrowersOf(of)  BY <1>1 DEF BorrowersOf
<1>7. IsFiniteSet(BorrowersOf(of)) /\ lease[of].borrowers = Cardinality(BorrowersOf(of))
    BY <1>0 DEF Counted
<1>8. lease[of].borrowers \in Nat \ {0} /\ lease[of].hold = "held"
  <2>1. Cardinality(BorrowersOf(of)) # 0  BY <1>6, <1>7, FS_EmptySet
  <2> QED BY <2>1, <1>0, <1>7, FS_CardinalityType DEF HeldWhileCounted
<1>9. Counted'
  <2> SUFFICES ASSUME NEW l \in Callers
               PROVE  /\ IsFiniteSet(BorrowersOf(l))'
                      /\ lease'[l].borrowers = Cardinality(BorrowersOf(l))'
      BY DEF Counted
  <2>1. CASE l = of
    <3>1. BorrowersOf(of)' = BorrowersOf(of) \ {c}
        BY <1>1, <1>2 DEF BorrowersOf
    <3>2. /\ IsFiniteSet(BorrowersOf(of) \ {c})
          /\ Cardinality(BorrowersOf(of) \ {c}) = Cardinality(BorrowersOf(of)) - 1
        BY <1>6, <1>7, FS_RemoveElement
    <3>3. lease'[of].borrowers = Cardinality(BorrowersOf(of)) - 1  BY <1>4, <1>7
    <3> QED BY <2>1, <3>1, <3>2, <3>3
  <2>2. CASE l # of
    <3>1. BorrowersOf(l)' = BorrowersOf(l)
        BY <2>2, <1>1, <1>2 DEF BorrowersOf
    <3> QED BY <2>2, <3>1, <1>5 DEF Counted
  <2> QED BY <2>1, <2>2
<1>10. BorrowedExists'  BY <1>1, <1>2 DEF BorrowedExists
<1>11. HeldWhileCounted'  BY <1>0, <1>4, <1>5, <1>8 DEF HeldWhileCounted
<1>12. Unopened'
    BY <1>0, <1>1, <1>2, <1>5, <1>8 DEF Unopened
<1>13. CurrentHeld'
    BY <1>0, <1>4, <1>5 DEF CurrentHeld, ReleaseLease, StoreTypeOK
<1> QED BY <1>9, <1>10, <1>11, <1>12, <1>13

(* The hold of a lease without borrowers ends. *)
LEMMA HoldStep ==
  ASSUME LeaseInv, StoreTypeOK', NEW c \in Callers, HoldReleased(c)
  PROVE  LeaseInv'
<1> USE DEF LeaseInv
<1>0. acquire \in [Callers -> Call] /\ lease \in [Callers -> Lease]
    BY DEF StoreTypeOK
<1>1. lease[c].borrowers = 0 /\ lease[c].hold = "releasing" /\ c # currentLease
    BY MaterializationStoreAssumption DEF HoldReleased, HeldWhileCounted, CurrentHeld
<1>2. lease'[c].borrowers = 0 /\ lease'[c].hold = "gone"
  <2>1. NoLease \in Lease /\ NoLease.borrowers = 0  BY ValueTypes DEF NoLease
  <2>2. \A l \in Lease : LET n == [l EXCEPT !.hold = "gone"] IN
          n.borrowers = l.borrowers /\ n.hold = "gone"
      BY DEF Lease
  <2> QED BY <1>0, <2>1, <2>2 DEF HoldReleased
<1>3. \A l \in Callers \ {c} : lease'[l] = lease[l]  BY <1>0 DEF HoldReleased
<1>4. \A d \in Callers : \/ acquire'[d] = acquire[d]
                         \/ acquire[d].pc = "releasing" /\ acquire'[d].pc = "ended"
    BY <1>0, ValueTypes DEF HoldReleased
<1>5. \A d \in Callers : /\ acquire'[d].pc = "borrowing" <=> acquire[d].pc = "borrowing"
                         /\ acquire[d].pc = "borrowing" => acquire'[d].of = acquire[d].of
    BY <1>4
<1>6. \A l \in Callers : lease'[l].borrowers = lease[l].borrowers  BY <1>1, <1>2, <1>3
<1>7. Counted'  BY <1>5, <1>6, CountKept DEF Counted
<1>8. BorrowedExists'  BY <1>5 DEF BorrowedExists
<1>9. HeldWhileCounted'  BY <1>2, <1>3 DEF HeldWhileCounted
<1>10. Unopened'
  <2> SUFFICES ASSUME NEW d \in Callers, acquire'[d].pc \in {"idle", "queued", "opening"}
               PROVE  lease'[d].hold = "none"
      BY DEF Unopened
  <2>1. acquire'[d] = acquire[d]  BY <1>4
  <2>2. lease[d].hold = "none"  BY <2>1 DEF Unopened
  <2> QED BY <2>2, <1>1, <1>3
<1>11. CurrentHeld'  BY <1>1, <1>3 DEF CurrentHeld, HoldReleased, StoreTypeOK
<1> QED BY <1>7, <1>8, <1>9, <1>10, <1>11

(* close() retires the current lease. *)
LEMMA RetireStep ==
  ASSUME LeaseInv, StoreTypeOK', RetireCurrent
  PROVE  LeaseInv'
<1> USE DEF LeaseInv
<1>0. acquire \in [Callers -> Call] /\ lease \in [Callers -> Lease]
      /\ currentLease \in Callers \cup {CloseCall}
    BY DEF StoreTypeOK
<1>1. \A l \in Callers : lease'[l] = IF l = currentLease THEN Retired(lease[l]) ELSE lease[l]
    BY <1>0, MaterializationStoreAssumption DEF RetireCurrent
<1>2. \A l \in Callers : lease'[l].borrowers = lease[l].borrowers
    BY <1>0, <1>1, LeaseFields
<1>3. Counted'  BY <1>2, CountKept DEF Counted, RetireCurrent
<1>4. BorrowedExists'  BY DEF BorrowedExists, RetireCurrent
<1>5. HeldWhileCounted'
  <2> SUFFICES ASSUME NEW l \in Callers
               PROVE  lease'[l].hold # "held" => lease'[l].borrowers = 0
      BY DEF HeldWhileCounted
  <2>1. lease[l] \in Lease /\ (lease[l].hold # "held" => lease[l].borrowers = 0)
      BY <1>0 DEF HeldWhileCounted
  <2> QED BY <2>1, <1>1, RetireKeeps
<1>6. Unopened'
  <2> SUFFICES ASSUME NEW d \in Callers, acquire[d].pc \in {"idle", "queued", "opening"}
               PROVE  lease'[d].hold = "none"
      BY DEF Unopened, RetireCurrent
  <2>1. lease[d].hold = "none"  BY DEF Unopened
  <2>2. d # currentLease  BY <2>1, <1>0, MaterializationStoreAssumption DEF CurrentHeld
  <2> QED BY <2>1, <2>2, <1>1
<1>7. CurrentHeld'  BY DEF CurrentHeld, RetireCurrent
<1> QED BY <1>3, <1>4, <1>5, <1>6, <1>7

(* Every step keeps the leases right. *)
LEMMA LeaseStep == LeaseInv /\ InTurn /\ [StoreNext]_storeVars => LeaseInv'
<1> SUFFICES ASSUME LeaseInv, InTurn, [StoreNext]_storeVars PROVE LeaseInv'  OBVIOUS
<1>0. StoreTypeOK /\ StoreTypeOK'  BY StoreTypesStep DEF LeaseInv
<1>1. CASE UNCHANGED storeVars
    BY <1>0, <1>1, LeasesUntouched DEF storeVars
<1>2. CASE CloseStore \/ ReleaseWorkspaces \/ WorkspacesGone \/ CloseReturns
    BY <1>0, <1>2, LeasesUntouched
       DEF CloseStore, ReleaseWorkspaces, WorkspacesGone, CloseReturns
<1>3. CASE RetireCurrent  BY <1>0, <1>3, RetireStep
<1>4. ASSUME NEW c \in Callers, NEW at \in Coordinates, NEW exact \in BOOLEAN,
             Acquire(c, at, exact)
      PROVE  LeaseInv'
  <2>1. acquire'[c].pc \in {"ended", "queued"}
      BY <1>0, <1>4, ValueTypes DEF Acquire, StoreTypeOK, Call
  <2>2. \A d \in Callers \ {c} : acquire'[d] = acquire[d]  BY <1>0, <1>4 DEF Acquire,
      StoreTypeOK
  <2> QED BY <1>0, <1>4, <2>1, <2>2, LeasesUntouched DEF Acquire
<1>5. ASSUME NEW c \in Callers, TakeLeaseTurn(c) PROVE LeaseInv'
  <2>1. acquire[c].pc = "queued" /\ UNCHANGED currentLease  BY <1>5 DEF TakeLeaseTurn
  <2>2. CASE /\ UNCHANGED lease
             /\ \/ acquire' = [acquire EXCEPT ![c] = EndedCall]
                \/ acquire' = [acquire EXCEPT ![c].pc = "opening"]
    <3>1. acquire'[c].pc \in {"ended", "opening"}
        BY <1>0, <2>2, ValueTypes DEF StoreTypeOK, Call
    <3>2. \A d \in Callers \ {c} : acquire'[d] = acquire[d]
        BY <1>0, <1>5 DEF TakeLeaseTurn, StoreTypeOK
    <3> QED BY <1>0, <2>1, <2>2, <3>1, <3>2, LeasesUntouched
  <2>3. CASE /\ currentLease # CloseCall
             /\ acquire' = [acquire EXCEPT ![c].pc = "borrowing", ![c].of = currentLease]
             /\ lease' = [lease EXCEPT ![currentLease] = Borrowed(@)]
      BY <1>0, <2>1, <2>3, BorrowStep
  <2> QED BY <1>5, <2>2, <2>3 DEF TakeLeaseTurn
<1>6. ASSUME NEW c \in Callers, OpenLease(c) PROVE LeaseInv'  BY <1>0, <1>6, OpenStep
<1>7. ASSUME NEW c \in Callers, OpenLeaseFails(c) PROVE LeaseInv'
  <2>1. acquire[c].pc = "opening" /\ acquire'[c].pc = "ended"
      BY <1>0, <1>7, ValueTypes DEF OpenLeaseFails, StoreTypeOK
  <2>2. \A d \in Callers \ {c} : acquire'[d] = acquire[d]
      BY <1>0, <1>7 DEF OpenLeaseFails, StoreTypeOK
  <2> QED BY <1>0, <1>7, <2>1, <2>2, LeasesUntouched DEF OpenLeaseFails
<1>8. ASSUME NEW c \in Callers, ReleaseLease(c) PROVE LeaseInv'  BY <1>0, <1>8, ReturnStep
<1>9. ASSUME NEW c \in Callers, HoldReleased(c) PROVE LeaseInv'  BY <1>0, <1>9, HoldStep
<1>10. ASSUME NEW j \in Jobs,
              OpenWorkspace(j) \/ WorkspaceOpened(j) \/ ReleaseWorkspace(j) \/ WorkspaceReleased(j)
       PROVE  LeaseInv'
    BY <1>0, <1>10, LeasesUntouched
       DEF OpenWorkspace, WorkspaceOpened, ReleaseWorkspace, WorkspaceReleased
<1> QED BY <1>1, <1>2, <1>3, <1>4, <1>5, <1>6, <1>7, <1>8, <1>9, <1>10 DEF StoreNext

(* The specification begins with no lease at all. *)
LEMMA StoreInitInv == StoreInit => CloseInv
<1> SUFFICES ASSUME StoreInit PROVE CloseInv  OBVIOUS
<1>1. StoreTypeOK  BY ValueTypes DEF StoreInit, StoreTypeOK
<1>2. \A c \in Callers : acquire[c].pc = "idle" /\ lease[c].hold = "none" /\ lease[c].borrowers = 0
    BY DEF StoreInit, NoCall, NoLease
<1>3. Counted
  <2>1. \A l \in Callers : BorrowersOf(l) = {}  BY <1>2 DEF BorrowersOf
  <2> QED BY <2>1, <1>2, FS_EmptySet DEF Counted
<1>4. BorrowedExists /\ HeldWhileCounted /\ Unopened /\ CurrentHeld
    BY <1>2 DEF BorrowedExists, HeldWhileCounted, Unopened, CurrentHeld, StoreInit
<1>5. InTurn /\ Remembered  BY <1>2 DEF InTurn, Remembered
<1>6. LastTurn /\ WorkspacesFirst  BY DEF LastTurn, WorkspacesFirst, StoreInit
<1> QED BY <1>1, <1>3, <1>4, <1>5, <1>6 DEF CloseInv, LeaseInv

(* A counted borrower keeps the hold. *)
LEMMA LeaseInvHolds == LeaseInv => BorrowedIsHeld
<1> SUFFICES ASSUME LeaseInv, NEW c \in Callers, acquire[c].pc = "borrowing"
             PROVE  lease[acquire[c].of].hold = "held"
    BY DEF BorrowedIsHeld
<1>1. acquire[c].of \in Callers /\ c \in BorrowersOf(acquire[c].of)
    BY DEF LeaseInv, BorrowedExists, BorrowersOf
<1>2. lease[acquire[c].of].borrowers # 0  BY <1>1, FS_EmptySet DEF LeaseInv, Counted
<1> QED BY <1>1, <1>2 DEF LeaseInv, HeldWhileCounted

(* No borrower loses the materialization it reads: the cache is told to let
   go of a lease only when the last of its borrowers is done, whoever
   replaces the lease, and although close() retires it. *)
THEOREM LeasesHold == StoreSpec => []BorrowedIsHeld
<1>1. LeaseInv => BorrowedIsHeld  BY LeaseInvHolds
<1>2. StoreInit => LeaseInv /\ InTurn  BY StoreInitInv DEF CloseInv
<1>3. LeaseInv /\ InTurn /\ [StoreNext]_storeVars => (LeaseInv /\ InTurn)'
    BY LeaseStep, TurnStep DEF LeaseInv
<1> QED BY <1>1, <1>2, <1>3, PTL DEF StoreSpec

-----------------------------------------------------------------------------
(* What a step does to the queue: the names it held stay in it, and only
   close() adds its own. *)
LEMMA QueueAppend ==
  ASSUME NEW S, NEW q \in Seq(S), NEW x \in S
  PROVE  \A i \in 1..Len(Append(q, x)) :
            Append(q, x)[i] = x \/ \E k \in 1..Len(q) : Append(q, x)[i] = q[k]
<1>1. Len(Append(q, x)) = Len(q) + 1 /\ Append(q, x)[Len(q) + 1] = x
      /\ \A i \in 1..Len(q) : Append(q, x)[i] = q[i]
    BY AppendProperties
<1> QED BY <1>1

LEMMA QueueTail ==
  ASSUME NEW S, NEW q \in Seq(S), q # << >>
  PROVE  \A i \in 1..Len(Tail(q)) : \E k \in 1..Len(q) : Tail(q)[i] = q[k]
<1>1. Len(Tail(q)) = Len(q) - 1 /\ \A i \in 1..Len(Tail(q)) : Tail(q)[i] = q[i + 1]
    BY HeadTailProperties
<1>2. \A i \in 1..Len(Tail(q)) : i + 1 \in 1..Len(q)  BY <1>1
<1> QED BY <1>1, <1>2

(* Every lease the cache holds is one that close() knows of. *)
LEMMA RememberedStep == CloseInv /\ [StoreNext]_storeVars => Remembered'
<1> SUFFICES ASSUME CloseInv, [StoreNext]_storeVars PROVE Remembered'  OBVIOUS
<1>0. /\ acquire \in [Callers -> Call] /\ lease \in [Callers -> Lease]
      /\ currentLease \in Callers \cup {CloseCall}
      /\ Remembered /\ CurrentHeld
    BY DEF CloseInv, LeaseInv, StoreTypeOK
<1> USE DEF Remembered
<1>1. CASE UNCHANGED <<lease, currentLease, retirements>>  BY <1>0, <1>1
<1>2. CASE RetireCurrent
  <2>1. \A l \in Callers : lease'[l] = IF l = currentLease THEN Retired(lease[l]) ELSE lease[l]
      BY <1>0, <1>2, MaterializationStoreAssumption DEF RetireCurrent
  <2> QED BY <1>0, <1>2, <2>1, MaterializationStoreAssumption DEF RetireCurrent
<1>3. ASSUME NEW c \in Callers, TakeLeaseTurn(c) PROVE Remembered'
  <2>1. \A l \in Callers : lease'[l].hold = lease[l].hold
      BY <1>0, <1>3, LeaseFields DEF TakeLeaseTurn
  <2> QED BY <1>0, <1>3, <2>1 DEF TakeLeaseTurn
<1>4. ASSUME NEW c \in Callers, OpenLease(c) PROVE Remembered'
  <2>1. \A l \in Callers \ {c, currentLease} : lease'[l] = lease[l]
      BY <1>0, <1>4 DEF OpenLease
  <2> QED BY <1>0, <1>4, <2>1, MaterializationStoreAssumption DEF OpenLease
<1>5. ASSUME NEW c \in Callers, ReleaseLease(c) PROVE Remembered'
  <2>1. PICK of \in Callers : of = acquire[c].of
      BY <1>5 DEF ReleaseLease, CloseInv, LeaseInv, BorrowedExists
  <2>2. \A l \in Callers \ {of} : lease'[l] = lease[l]  BY <1>0, <1>5, <2>1 DEF ReleaseLease
  <2>3. lease'[of] = Returned(lease[of])  BY <1>0, <1>5, <2>1 DEF ReleaseLease
  <2>4. lease[of].hold = "held"
    <3>1. LeaseInv => BorrowedIsHeld  BY LeaseInvHolds
    <3> QED BY <3>1, <1>5, <2>1 DEF BorrowedIsHeld, CloseInv, ReleaseLease
  <2> QED BY <1>0, <1>5, <2>2, <2>4 DEF ReleaseLease
<1>6. ASSUME NEW c \in Callers, HoldReleased(c) PROVE Remembered'
  <2>1. \A l \in Callers \ {c} : lease'[l] = lease[l]  BY <1>0, <1>6 DEF HoldReleased
  <2>2. lease'[c].hold = "gone"
    <3>1. \A l \in Lease : [l EXCEPT !.hold = "gone"].hold = "gone"  BY DEF Lease
    <3> QED BY <1>0, <1>6, <3>1, ValueTypes DEF HoldReleased
  <2> QED BY <1>0, <1>6, <2>1, <2>2 DEF HoldReleased
<1>7. CASE \/ UNCHANGED storeVars
           \/ CloseStore \/ ReleaseWorkspaces \/ WorkspacesGone \/ CloseReturns
           \/ \E c \in Callers : \/ \E at \in Coordinates, exact \in BOOLEAN : Acquire(c, at, exact)
                                 \/ OpenLeaseFails(c)
           \/ \E j \in Jobs : \/ OpenWorkspace(j) \/ WorkspaceOpened(j)
                              \/ ReleaseWorkspace(j) \/ WorkspaceReleased(j)
    BY <1>1, <1>7 DEF storeVars, CloseStore, ReleaseWorkspaces, WorkspacesGone, CloseReturns,
       Acquire, OpenLeaseFails, OpenWorkspace, WorkspaceOpened, ReleaseWorkspace,
       WorkspaceReleased
<1> QED BY <1>2, <1>3, <1>4, <1>5, <1>6, <1>7 DEF StoreNext

(* Nothing is opened once close() has had its turn. *)
LEMMA LastTurnStep == CloseInv /\ [StoreNext]_storeVars => LastTurn'
<1> SUFFICES ASSUME CloseInv, [StoreNext]_storeVars PROVE LastTurn'  OBVIOUS
<1>0. /\ acquire \in [Callers -> Call] /\ leaseMutation \in Seq(Callers \cup {CloseCall})
      /\ LastTurn /\ InTurn
    BY DEF CloseInv, LeaseInv, StoreTypeOK
<1> USE DEF LastTurn
<1>1. CASE UNCHANGED <<leaseMutation, currentLease, retirements, closing, acquire>>
    BY <1>0, <1>1
<1>2. CASE CloseStore \/ ReleaseWorkspaces
    BY <1>0, <1>2 DEF CloseStore, ReleaseWorkspaces
<1>3. CASE WorkspacesGone  BY <1>0, <1>3 DEF WorkspacesGone
<1>4. CASE RetireCurrent
  <2>1. \A c \in Callers : acquire[c].pc # "opening"
      BY <1>0, <1>4, MaterializationStoreAssumption DEF RetireCurrent, InTurn
  <2> QED BY <1>4, <2>1 DEF RetireCurrent
<1>5. CASE CloseReturns  BY <1>0, <1>5 DEF CloseReturns
<1>6. ASSUME NEW c \in Callers, NEW at \in Coordinates, NEW exact \in BOOLEAN,
             Acquire(c, at, exact)
      PROVE  LastTurn'
  <2>1. \A d \in Callers : acquire'[d].pc = "opening" => acquire[d].pc = "opening"
      BY <1>0, <1>6, ValueTypes DEF Acquire, Call
  <2>2. CASE leaseMutation' = leaseMutation  BY <1>0, <1>6, <2>1, <2>2 DEF Acquire
  <2>3. CASE leaseMutation' = Append(leaseMutation, c)
    <3>1. \A i \in 1..Len(leaseMutation') : leaseMutation'[i] = CloseCall
             => \E k \in 1..Len(leaseMutation) : leaseMutation[k] = CloseCall
        BY <1>0, <2>3, QueueAppend, MaterializationStoreAssumption
    <3> QED BY <1>0, <1>6, <2>1, <3>1 DEF Acquire
  <2> QED BY <1>6, <2>2, <2>3 DEF Acquire
<1>7. ASSUME NEW c \in Callers, TakeLeaseTurn(c) PROVE LastTurn'
  <2>1. \A d \in Callers : acquire'[d].pc = "opening" => acquire[d].pc = "opening" \/ closing = "open"
    <3>1. \A d \in Callers \ {c} : acquire'[d] = acquire[d]  BY <1>0, <1>7 DEF TakeLeaseTurn
    <3>2. acquire'[c].pc \in {"ended", "borrowing"} \/ closing = "open"
        BY <1>0, <1>7, ValueTypes DEF TakeLeaseTurn, Call, IsClosed
    <3> QED BY <3>1, <3>2
  <2>2. \/ leaseMutation' = leaseMutation
        \/ leaseMutation # << >> /\ leaseMutation' = Tail(leaseMutation)
      BY <1>7 DEF TakeLeaseTurn
  <2>3. \A i \in 1..Len(leaseMutation') : leaseMutation'[i] = CloseCall
             => \E k \in 1..Len(leaseMutation) : leaseMutation[k] = CloseCall
      BY <1>0, <2>2, QueueTail
  <2> QED BY <1>0, <1>7, <2>1, <2>3 DEF TakeLeaseTurn
<1>8. ASSUME NEW c \in Callers, OpenLease(c) \/ OpenLeaseFails(c) PROVE LastTurn'
  <2>1. closing \notin {"retirements", "closed"} /\ leaseMutation # << >> /\ UNCHANGED closing
      BY <1>0, <1>8 DEF OpenLease, OpenLeaseFails, InTurn
  <2>2. \A i \in 1..Len(leaseMutation') : leaseMutation'[i] = CloseCall
             => \E k \in 1..Len(leaseMutation) : leaseMutation[k] = CloseCall
      BY <1>0, <1>8, <2>1, QueueTail DEF OpenLease, OpenLeaseFails
  <2> QED BY <1>0, <2>1, <2>2
<1>9. ASSUME NEW c \in Callers, ReleaseLease(c) PROVE LastTurn'
  <2>1. \A d \in Callers : acquire'[d].pc = "opening" => acquire[d].pc = "opening"
      BY <1>0, <1>9, ValueTypes DEF ReleaseLease, Call
  <2> QED BY <1>0, <1>9, <2>1 DEF ReleaseLease
<1>10. ASSUME NEW c \in Callers, HoldReleased(c) PROVE LastTurn'
  <2>1. \A d \in Callers : acquire'[d].pc = "opening" => acquire[d].pc = "opening"
      BY <1>0, <1>10, ValueTypes DEF HoldReleased
  <2> QED BY <1>0, <1>10, <2>1 DEF HoldReleased
<1>11. CASE \/ UNCHANGED storeVars
            \/ \E j \in Jobs : \/ OpenWorkspace(j) \/ WorkspaceOpened(j)
                               \/ ReleaseWorkspace(j) \/ WorkspaceReleased(j)
    BY <1>1, <1>11 DEF storeVars, OpenWorkspace, WorkspaceOpened, ReleaseWorkspace,
       WorkspaceReleased
<1> QED BY <1>2, <1>3, <1>4, <1>5, <1>6, <1>7, <1>8, <1>9, <1>10, <1>11 DEF StoreNext

(* The workspaces are released before close() asks for its turn. *)
LEMMA WorkspacesStep == CloseInv /\ [StoreNext]_storeVars => WorkspacesFirst'
<1> SUFFICES ASSUME CloseInv, [StoreNext]_storeVars PROVE WorkspacesFirst'  OBVIOUS
<1>0. /\ job \in [Jobs -> {"idle", "opening", "open", "releasing", "ended"}]
      /\ leaseMutation \in Seq(Callers \cup {CloseCall})
      /\ LastTurn /\ WorkspacesFirst
    BY DEF CloseInv, LeaseInv, StoreTypeOK
<1> USE DEF WorkspacesFirst
<1>1. CASE UNCHANGED <<job, closing>>  BY <1>0, <1>1
<1>2. CASE CloseStore \/ CloseReturns  BY <1>0, <1>2 DEF CloseStore, CloseReturns
<1>3. CASE ReleaseWorkspaces  BY <1>0, <1>3 DEF ReleaseWorkspaces
<1>4. CASE WorkspacesGone  BY <1>0, <1>4 DEF WorkspacesGone
<1>5. CASE RetireCurrent
  <2>1. Len(leaseMutation) > 0 /\ leaseMutation[1] = CloseCall  BY <1>0, <1>5 DEF RetireCurrent
  <2>2. closing \in {"queued", "retirements", "closed"}  BY <1>0, <2>1 DEF LastTurn
  <2> QED BY <1>0, <1>5, <2>2 DEF RetireCurrent
<1>6. ASSUME NEW j \in Jobs,
             OpenWorkspace(j) \/ WorkspaceOpened(j) \/ ReleaseWorkspace(j) \/ WorkspaceReleased(j)
      PROVE  WorkspacesFirst'
    BY <1>0, <1>6 DEF OpenWorkspace, WorkspaceOpened, ReleaseWorkspace, WorkspaceReleased,
       IsClosed
<1>7. CASE \/ UNCHANGED storeVars
           \/ \E c \in Callers :
                \/ \E at \in Coordinates, exact \in BOOLEAN : Acquire(c, at, exact)
                \/ TakeLeaseTurn(c) \/ OpenLease(c) \/ OpenLeaseFails(c)
                \/ ReleaseLease(c) \/ HoldReleased(c)
    BY <1>1, <1>7 DEF storeVars, Acquire, TakeLeaseTurn, OpenLease, OpenLeaseFails,
       ReleaseLease, HoldReleased
<1> QED BY <1>2, <1>3, <1>4, <1>5, <1>6, <1>7 DEF StoreNext

(* A close() that has returned has left nothing in storage: no call that was
   under way when it began keeps a hold it does not know of, and no lease is
   opened behind its back. *)
THEOREM CloseLeavesNothing == StoreSpec => []NothingLeft
<1>1. CloseInv => NothingLeft
  <2> SUFFICES ASSUME CloseInv, closing = "closed"
               PROVE  /\ \A c \in Callers : lease[c].hold \in {"none", "gone"}
                      /\ \A j \in Jobs : job[j] \in {"idle", "ended"}
      BY DEF NothingLeft
  <2>1. currentLease = CloseCall /\ retirements = {}  BY DEF CloseInv, LastTurn
  <2>2. ASSUME NEW c \in Callers PROVE lease[c].hold \in {"none", "gone"}
    <3>1. lease[c].hold \in {"none", "held", "releasing", "gone"}
        BY DEF CloseInv, LeaseInv, StoreTypeOK, Lease
    <3> QED BY <3>1, <2>1, MaterializationStoreAssumption DEF CloseInv, Remembered
  <2>3. ASSUME NEW j \in Jobs PROVE job[j] \in {"idle", "ended"}
      BY DEF CloseInv, WorkspacesFirst, LeaseInv, StoreTypeOK
  <2> QED BY <2>2, <2>3
<1>2. CloseInv /\ [StoreNext]_storeVars => CloseInv'
    BY LeaseStep, TurnStep, RememberedStep, LastTurnStep, WorkspacesStep
       DEF CloseInv, LeaseInv
<1> QED BY <1>1, <1>2, StoreInitInv, PTL DEF StoreSpec

-----------------------------------------------------------------------------
(* Streams *)

TeeType == [cache : Seq(Items), offset : Nat, finished : BOOLEAN, error : BOOLEAN,
            inflight : BOOLEAN]
CallPc == {"idle", "pulling", "waiting", "ready"}
BranchType == [pc : CallPc, index : Nat]
MuxType == [pc : {"fresh", "racing", "yielded", "ended", "threw"}, winner : {0, 1, 2}]
Pull == Result \cup {Fresh, Asked, Gone}
ConsumerType == [got : Seq(Copy), ended : {"open", "end", "error"}]

(* What tee has in its cache, beside what the source handed out and what     *)
(* each branch has taken.  A branch that is ready finds its item, or the end. *)
TeeInv ==
    /\ tee.error => tee.finished
    /\ ~tee.error => /\ \A j \in DOMAIN tee.cache : tee.cache[j] = tee.offset + j
                     /\ tee.offset + Len(tee.cache) = source
                     /\ tee.finished => source = Length
    /\ \A b \in Branches :
         /\ tee.offset <= branch[b].index
         /\ branch[b].index <= tee.offset + Len(tee.cache)
         /\ branch[b].pc = "ready" => Covered(tee, branch[b].index + 1) \/ tee.finished

(* What each pull of mux stands for. *)
MuxInv ==
    /\ \A b \in Branches :
         /\ branch[b].pc # "idle" => pending[b] = Asked
         /\ pending[b].kind = "item" => branch[b].index = pending[b].item
         /\ pending[b].kind \in {"end", "gone"} => branch[b].index = Length
    /\ pump = "idle" => \A b \in Branches : pending[b] = Fresh /\ branch[b].index = 0
    /\ mux.pc = "yielded" => mux.winner \in Branches /\ pending[mux.winner].kind = "item"
    /\ mux.pc = "ended" => \A b \in Branches : pending[b] = Gone
    /\ pump = "done" => mux.pc = "ended"

(* The copies demux has routed to k, received or not, in order. *)
Sent(k) == consumer[k].got \o buffers[k]

(* Of what came through branch b, everything up to item r was routed. *)
Routed(b, r) ==
    \A k \in Keys : \A i \in Items :
        class[i] = k => (i <= r <=> \E n \in DOMAIN Sent(k) : Sent(k)[n] = [item |-> i, via |-> b])

(* How many items of branch b were routed, by what mux holds of it: an item  *)
(* it holds was taken and is still to be routed; after a failure the count   *)
(* is open.                                                                  *)
Behind(b, r) ==
    /\ pending[b].kind = "item" => branch[b].index = r + 1
    /\ pending[b].kind \notin {"item", "error"} => branch[b].index = r

InOrder(k) ==
    /\ \A n \in DOMAIN Sent(k) : class[Sent(k)[n].item] = k
    /\ \A m, n \in DOMAIN Sent(k) :
         m < n /\ Sent(k)[m].via = Sent(k)[n].via => Sent(k)[m].item < Sent(k)[n].item

DemuxInv ==
    /\ \A k \in Keys : /\ waiting[k] > 0 => buffers[k] = <<>>
                       /\ consumer[k].ended = "end" => buffers[k] = <<>> /\ pump = "done"
                       /\ InOrder(k)
    /\ \A b \in Branches : \E r \in Nat : Routed(b, r) /\ Behind(b, r)

StreamInv == StreamTypeOK /\ TeeInv /\ MuxInv /\ DemuxInv

LEMMA StreamTypeParts ==
  StreamTypeOK <=>
    /\ class \in [Items -> Keys \cup {"unknown"}]
    /\ source \in 0..Length
    /\ aborted \in BOOLEAN
    /\ tee \in TeeType
    /\ branch \in [Branches -> BranchType]
    /\ mux \in MuxType
    /\ pending \in [Branches -> Pull]
    /\ pump \in {"idle", "pulling", "done", "failed"}
    /\ buffers \in [Keys -> Seq(Copy)]
    /\ waiting \in [Keys -> Nat]
    /\ consumer \in [Keys -> ConsumerType]
<1>1. Branches \cup {NoBranch} = {0, 1, 2}  BY DEF Branches, NoBranch
<1> QED BY <1>1 DEF StreamTypeOK, TeeType, BranchType, CallPc, MuxType, Pull, ConsumerType

LEMMA StreamTypesNext ==
  ASSUME StreamTypeOK, UNCHANGED <<class, aborted>>, source' \in 0..Length,
         tee' \in TeeType, branch' \in [Branches -> BranchType], mux' \in MuxType,
         pending' \in [Branches -> Pull], pump' \in {"idle", "pulling", "done", "failed"},
         buffers' \in [Keys -> Seq(Copy)], waiting' \in [Keys -> Nat],
         consumer' \in [Keys -> ConsumerType]
  PROVE  StreamTypeOK'
<1>1. Branches \cup {NoBranch} = {0, 1, 2}  BY DEF Branches, NoBranch
<1>2. /\ class' \in [Items -> Keys \cup {"unknown"}] /\ aborted' \in BOOLEAN
    BY DEF StreamTypeOK
<1> QED BY <1>1, <1>2 DEF StreamTypeOK, TeeType, BranchType, CallPc, MuxType, Pull, ConsumerType

(* The pulls, by what they are. *)
LEMMA PullKinds ==
  /\ Fresh \in Pull /\ Asked \in Pull /\ Gone \in Pull /\ End \in Pull /\ Error \in Pull
  /\ Fresh.kind = "fresh" /\ Asked.kind = "asked" /\ Gone.kind = "gone"
  /\ End.kind = "end" /\ Error.kind = "error"
  /\ \A i \in Items : Item(i) \in Pull /\ Item(i).kind = "item" /\ Item(i).item = i
  /\ \A p \in Pull : /\ p.kind = "item" => p.item \in Items
                     /\ p.kind \in {"item", "end", "error", "fresh", "asked", "gone"}
                     /\ p.kind = "gone" => p = Gone
BY DEF Pull, Result, Fresh, Asked, Gone, End, Error, Item

LEMMA StreamInitially == StreamInit => StreamInv
<1> SUFFICES ASSUME StreamInit PROVE StreamInv  OBVIOUS
<1> USE DEF StreamInit
<1>1. StreamTypeOK
  <2>1. tee \in TeeType  BY DEF TeeType
  <2>2. branch \in [Branches -> BranchType]  BY DEF BranchType, CallPc
  <2>3. mux \in MuxType  BY DEF MuxType, NoBranch
  <2>4. pending \in [Branches -> Pull]  BY PullKinds
  <2>5. consumer \in [Keys -> ConsumerType]  BY DEF ConsumerType
  <2>6. source \in 0..Length  BY StreamAssumption
  <2>7. buffers \in [Keys -> Seq(Copy)] /\ waiting \in [Keys -> Nat]  OBVIOUS
  <2> QED BY <2>1, <2>2, <2>3, <2>4, <2>5, <2>6, <2>7, StreamTypeParts
<1>2. TeeInv  BY DEF TeeInv, Covered
<1>3. MuxInv  BY PullKinds DEF MuxInv
<1>4. DemuxInv
  <2>1. \A k \in Keys : Sent(k) = <<>>  BY DEF Sent
  <2>2. \A k \in Keys : InOrder(k)  BY <2>1 DEF InOrder
  <2>3. \A b \in Branches : Routed(b, 0)
    <3>1. \A i \in Items : ~(i <= 0)  BY StreamAssumption DEF Items
    <3> QED BY <2>1, <3>1 DEF Routed
  <2>4. \A b \in Branches : Behind(b, 0)  BY PullKinds DEF Behind
  <2>5. 0 \in Nat  OBVIOUS
  <2> QED BY <2>2, <2>3, <2>4, <2>5 DEF DemuxInv
<1> QED BY <1>1, <1>2, <1>3, <1>4 DEF StreamInv

(* What demux has routed is untouched by a step that routes nothing. *)
LEMMA RoutedKept ==
  ASSUME DemuxInv, UNCHANGED <<class, pump, buffers, waiting, consumer>>,
         \A b \in Branches, r \in Nat : Behind(b, r) => Behind(b, r)'
  PROVE  DemuxInv'
<1>1. \A k \in Keys : Sent(k)' = Sent(k)  BY DEF Sent
<1>2. \A k \in Keys : InOrder(k)'  BY <1>1 DEF DemuxInv, InOrder
<1>3. \A b \in Branches, r \in Nat : Routed(b, r) => Routed(b, r)'  BY <1>1 DEF Routed
<1> QED BY <1>2, <1>3 DEF DemuxInv

-----------------------------------------------------------------------------
(* tee *)

LEMMA AppendedCache ==
  ASSUME NEW c \in Seq(Items), NEW o \in Nat, NEW i \in Items,
         \A j \in DOMAIN c : c[j] = o + j, i = o + Len(c) + 1
  PROVE  /\ Append(c, i) \in Seq(Items) /\ Len(Append(c, i)) = Len(c) + 1
         /\ \A j \in DOMAIN Append(c, i) : Append(c, i)[j] = o + j
<1>1. Append(c, i) \in Seq(Items) /\ Len(Append(c, i)) = Len(c) + 1  OBVIOUS
<1>2. ASSUME NEW j \in DOMAIN Append(c, i) PROVE Append(c, i)[j] = o + j
  <2>1. j \in 1..(Len(c) + 1)  BY <1>1
  <2>2. CASE j = Len(c) + 1  BY <2>2
  <2>3. CASE j # Len(c) + 1
    <3>1. j \in DOMAIN c  BY <2>1, <2>3
    <3> QED BY <3>1
  <2> QED BY <2>2, <2>3
<1> QED BY <1>1, <1>2

LEMMA PulledKeeps ==
  ASSUME StreamInv, NEW b \in Branches, Pulled(b)
  PROVE  StreamInv'
<1> USE StreamTypeParts DEF StreamInv
<1>0. UNCHANGED <<class, aborted, mux, pending, pump, buffers, waiting, consumer>>
    BY DEF Pulled
<1>1. branch' = [branch EXCEPT ![b].pc = "ready"]  BY DEF Pulled
<1>2. /\ branch' \in [Branches -> BranchType]
      /\ \A c \in Branches : branch'[c].index = branch[c].index
      /\ \A c \in Branches : c # b => branch'[c] = branch[c]
    BY <1>1 DEF BranchType, CallPc
<1>3. branch[b].pc = "pulling"  BY DEF Pulled
<1>4. tee.cache \in Seq(Items) /\ tee.offset \in Nat  BY DEF TeeType
<1>4a. \A c \in Branches : branch[c].index \in Nat  BY DEF BranchType
<1>4b. source \in 0..Length /\ Length \in Nat  BY StreamAssumption
<1>m. MuxInv'
  <2>1. \A c \in Branches : branch'[c].pc # "idle" => pending[c] = Asked
      BY <1>2, <1>3 DEF MuxInv
  <2> QED BY <1>0, <1>2, <2>1 DEF MuxInv
<1>d. DemuxInv'
  <2>1. \A c \in Branches, r \in Nat : Behind(c, r) => Behind(c, r)'
      BY <1>0, <1>2 DEF Behind
  <2> QED BY <1>0, <2>1, RoutedKept
<1>5. CASE /\ source < Length /\ source' = source + 1
           /\ tee' = [tee EXCEPT !.cache = Append(@, source + 1), !.inflight = FALSE]
  <2>1. source + 1 \in Items /\ source' \in 0..Length  BY <1>4b, <1>5 DEF Items
  <2>2. PICK a : a = Append(tee.cache, source + 1)  OBVIOUS
  <2>3. a \in Seq(Items) /\ Len(a) = Len(tee.cache) + 1  BY <1>4, <2>1, <2>2
  <2>4. /\ tee' \in TeeType /\ tee'.cache = a /\ tee'.offset = tee.offset
        /\ tee'.error = tee.error /\ tee'.finished = tee.finished
      BY <1>5, <2>2, <2>3 DEF TeeType
  <2>5. ~tee.error => /\ \A j \in DOMAIN a : a[j] = tee.offset + j
                      /\ tee.offset + Len(a) = source'
    <3> HAVE ~tee.error
    <3>1. /\ \A j \in DOMAIN tee.cache : tee.cache[j] = tee.offset + j
          /\ tee.offset + Len(tee.cache) = source
        BY DEF TeeInv
    <3>2. \A j \in DOMAIN a : a[j] = tee.offset + j  BY <1>4, <2>1, <2>2, <3>1, AppendedCache
    <3> QED BY <1>4, <1>5, <2>3, <3>1, <3>2
  <2>6. ~tee.error => ~tee.finished  BY <1>4b, <1>5 DEF TeeInv
  <2>7. ASSUME NEW c \in Branches
        PROVE  /\ tee'.offset <= branch'[c].index
               /\ branch'[c].index <= tee'.offset + Len(tee'.cache)
               /\ branch'[c].pc = "ready" => (Covered(tee, branch[c].index + 1))' \/ tee'.finished
    <3>1. tee.offset <= branch[c].index /\ branch[c].index <= tee.offset + Len(tee.cache)
        BY DEF TeeInv
    <3>2. Len(tee.cache) \in Nat  BY <1>4
    <3>3. tee.offset + Len(a) >= branch[c].index + 1  BY <1>4, <1>4a, <2>3, <3>1, <3>2
    <3>4. (Covered(tee, branch[c].index + 1))'  BY <1>2, <2>4, <3>3 DEF Covered
    <3> QED BY <1>2, <1>4, <1>4a, <2>3, <2>4, <3>1, <3>2, <3>4
  <2>8. TeeInv'  BY <2>4, <2>5, <2>6, <2>7 DEF TeeInv
  <2> QED BY <1>0, <1>2, <1>m, <1>d, <2>1, <2>4, <2>8, StreamTypesNext
<1>6. CASE /\ source' \in 0..Length
           /\ tee' = [tee EXCEPT !.error = TRUE, !.finished = TRUE, !.inflight = FALSE]
  <2>1. /\ tee' \in TeeType /\ tee'.cache = tee.cache /\ tee'.offset = tee.offset
        /\ tee'.error = TRUE /\ tee'.finished = TRUE
      BY <1>6 DEF TeeType
  <2>2. TeeInv'  BY <1>2, <2>1 DEF TeeInv
  <2> QED BY <1>0, <1>2, <1>6, <1>m, <1>d, <2>1, <2>2, StreamTypesNext
<1>7. CASE /\ source = Length /\ source' = source
           /\ tee' = [tee EXCEPT !.finished = TRUE, !.inflight = FALSE]
  <2>1. /\ tee' \in TeeType /\ tee'.cache = tee.cache /\ tee'.offset = tee.offset
        /\ tee'.error = tee.error /\ tee'.finished = TRUE
      BY <1>7 DEF TeeType
  <2>2. TeeInv'  BY <1>2, <1>7, <2>1 DEF TeeInv
  <2> QED BY <1>0, <1>2, <1>4b, <1>7, <1>m, <1>d, <2>1, <2>2, StreamTypesNext
<1> QED
  <2>1. source < Length => source + 1 \in 0..Length  BY <1>4b
  <2> QED BY <1>4b, <1>5, <1>6, <1>7, <2>1 DEF Pulled

(* A call of next() that begins, or goes on, takes nothing: it only finds    *)
(* out where it stands.                                                      *)
Starts(t, br) ==
    /\ t \in TeeType /\ br \in [Branches -> BranchType]
    /\ t.cache = tee.cache /\ t.offset = tee.offset
    /\ t.error = tee.error /\ t.finished = tee.finished
    /\ \A c \in Branches : br[c].index = branch[c].index
    /\ \A c \in Branches : br[c].pc = "ready" =>
                              Covered(tee, branch[c].index + 1) \/ tee.finished

LEMMA NextOnStarts ==
  ASSUME NEW b \in Branches, NEW t, NEW br, Starts(t, br), t.error => t.finished
  PROVE  /\ Starts(NextOn(b, t, br).tee, NextOn(b, t, br).branch)
         /\ \A c \in Branches : c # b => NextOn(b, t, br).branch[c] = br[c]
<1> DEFINE pc == EnsureCached(t, br[b].index + 1)
<1>1. pc \in CallPc /\ (pc = "ready" => Covered(t, br[b].index + 1) \/ t.finished)
    BY DEF EnsureCached, CallPc
<1>2. Covered(t, br[b].index + 1) <=> Covered(tee, branch[b].index + 1)
    BY DEF Covered, Starts
<1> HIDE DEF pc
<1>3. PICK u : u = [t EXCEPT !.inflight = @ \/ pc = "pulling"]  OBVIOUS
<1>4. /\ u \in TeeType /\ u.cache = t.cache /\ u.offset = t.offset
      /\ u.error = t.error /\ u.finished = t.finished
  <2>1. (t.inflight \/ pc = "pulling") \in BOOLEAN  OBVIOUS
  <2> QED BY <1>3, <2>1 DEF Starts, TeeType
<1>5. PICK d : d = [br EXCEPT ![b].pc = pc]  OBVIOUS
<1>6. /\ d \in [Branches -> BranchType] /\ d[b].pc = pc
      /\ \A c \in Branches : d[c].index = br[c].index
      /\ \A c \in Branches : c # b => d[c] = br[c]
    BY <1>1, <1>5 DEF Starts, BranchType
<1>7. NextOn(b, t, br) = [tee |-> u, branch |-> d]  BY <1>3, <1>5 DEF NextOn, pc
<1>8. Starts(u, d)  BY <1>1, <1>2, <1>4, <1>6 DEF Starts
<1> QED BY <1>6, <1>7, <1>8

LEMMA StartsKeepTee ==
  ASSUME StreamInv, Starts(tee', branch'), UNCHANGED source
  PROVE  TeeInv'
<1>1. \A c \in Branches : Covered(tee, branch[c].index + 1) =>
                          (Covered(tee, branch[c].index + 1))'
    BY DEF Covered, Starts
<1> QED BY <1>1 DEF StreamInv, TeeInv, Starts

LEMMA HereStarts ==
  ASSUME StreamInv PROVE Starts(tee, branch) /\ (tee.error => tee.finished)
BY StreamTypeParts DEF StreamInv, TeeInv, Starts

LEMMA ResumeKeeps ==
  ASSUME StreamInv, NEW b \in Branches, Resume(b)
  PROVE  StreamInv'
<1> USE StreamTypeParts
<1>0. UNCHANGED <<class, source, aborted, mux, pending, pump, buffers, waiting, consumer>>
    BY DEF Resume
<1>1. tee' = NextOn(b, tee, branch).tee /\ branch' = NextOn(b, tee, branch).branch
    BY DEF Resume
<1>2. Starts(tee', branch') /\ \A c \in Branches : c # b => branch'[c] = branch[c]
    BY <1>1, HereStarts, NextOnStarts
<1>3. StreamTypeOK'  BY <1>0, <1>2, StreamTypesNext DEF Starts, StreamInv
<1>4. TeeInv'  BY <1>0, <1>2, StartsKeepTee
<1>5. MuxInv'
  <2>1. branch[b].pc = "waiting"  BY DEF Resume
  <2>2. \A c \in Branches : branch'[c].pc # "idle" => pending[c] = Asked
      BY <1>2, <2>1 DEF MuxInv, StreamInv
  <2>3. \A c \in Branches : branch'[c].index = branch[c].index  BY <1>2 DEF Starts
  <2> QED BY <1>0, <2>2, <2>3 DEF MuxInv, StreamInv
<1>6. \A c \in Branches, r \in Nat : Behind(c, r) => Behind(c, r)'
    BY <1>0, <1>2 DEF Behind, Starts
<1>7. DemuxInv'  BY <1>0, <1>6, RoutedKept DEF StreamInv
<1> QED BY <1>3, <1>4, <1>5, <1>7 DEF StreamInv

(* What both branches have taken leaves the cache; the rest keeps its place. *)
LEMMA TrimKeeps ==
  ASSUME NEW t \in TeeType, NEW consumed \in [Branches -> Nat],
         \A c \in Branches : consumed[c] <= t.offset + Len(t.cache) /\ t.offset <= consumed[c],
         NEW u, u = TrimCache(t, consumed)
  PROVE  /\ u \in TeeType /\ u.error = t.error /\ u.finished = t.finished
         /\ u.offset + Len(u.cache) = t.offset + Len(t.cache)
         /\ \A c \in Branches : u.offset <= consumed[c]
         /\ (\A j \in DOMAIN t.cache : t.cache[j] = t.offset + j) =>
                \A j \in DOMAIN u.cache : u.cache[j] = u.offset + j
<1> DEFINE least == IF consumed[1] <= consumed[2] THEN consumed[1] ELSE consumed[2]
           d == least - t.offset
<1>1. /\ t.cache \in Seq(Items) /\ t.offset \in Nat /\ Len(t.cache) \in Nat
      /\ consumed[1] \in Nat /\ consumed[2] \in Nat
    BY DEF TeeType, Branches
<1>2. /\ least \in Nat /\ least <= t.offset + Len(t.cache)
      /\ \A c \in Branches : least <= consumed[c]
    BY <1>1 DEF Branches
<1>3. CASE ~(least > t.offset)
  <2>1. u = t  BY <1>3 DEF TrimCache
  <2> QED BY <2>1
<1>4. CASE least > t.offset
  <2>1. PICK s : s = SubSeq(t.cache, d + 1, Len(t.cache))  OBVIOUS
  <2>2. d \in Nat /\ d <= Len(t.cache)  BY <1>1, <1>2, <1>4
  <2>3. u = [t EXCEPT !.cache = s, !.offset = least]  BY <1>4, <2>1 DEF TrimCache
  <2> HIDE DEF least, d
  <2>4. /\ s \in Seq(Items) /\ Len(s) = Len(t.cache) - d
        /\ \A j \in DOMAIN s : s[j] = t.cache[d + j] /\ d + j \in DOMAIN t.cache
    <3>1. \A i \in (d + 1)..Len(t.cache) : t.cache[i] \in Items  BY <1>1, <2>2
    <3>2. d + 1 \in Int /\ Len(t.cache) \in Int  BY <1>1, <2>2
    <3>3. /\ s \in Seq(Items)
          /\ Len(s) = IF d + 1 <= Len(t.cache) THEN Len(t.cache) - (d + 1) + 1 ELSE 0
          /\ \A j \in 1..(Len(t.cache) - (d + 1) + 1) : s[j] = t.cache[(d + 1) + j - 1]
        BY <2>1, <3>1, <3>2, SubSeqProperties
    <3>4. Len(s) = Len(t.cache) - d  BY <1>1, <2>2, <3>3
    <3>5. ASSUME NEW j \in DOMAIN s PROVE s[j] = t.cache[d + j] /\ d + j \in DOMAIN t.cache
      <4>1. j \in 1..(Len(t.cache) - d)  BY <3>3, <3>4
      <4>2. j \in 1..(Len(t.cache) - (d + 1) + 1) /\ (d + 1) + j - 1 = d + j  BY <1>1, <2>2,
          <4>1
      <4>3. d + j \in 1..Len(t.cache)  BY <1>1, <2>2, <4>1
      <4> QED BY <1>1, <3>3, <4>2, <4>3
    <3> QED BY <3>3, <3>4, <3>5
  <2>5. /\ u \in TeeType /\ u.cache = s /\ u.offset = least
        /\ u.error = t.error /\ u.finished = t.finished
      BY <1>2, <2>3, <2>4 DEF TeeType
  <2>6. d + t.offset = least  BY <1>1, <1>2, <2>2 DEF d
  <2>7. u.offset + Len(u.cache) = t.offset + Len(t.cache)  BY <1>1, <2>2, <2>4, <2>5, <2>6
  <2>8. ASSUME \A j \in DOMAIN t.cache : t.cache[j] = t.offset + j, NEW j \in DOMAIN u.cache
        PROVE  u.cache[j] = u.offset + j
    <3>1. s[j] = t.offset + (d + j) /\ j \in Nat  BY <2>4, <2>5, <2>8
    <3> QED BY <1>1, <2>2, <2>5, <2>6, <3>1
  <2> QED BY <1>2, <2>5, <2>7, <2>8
<1> QED BY <1>3, <1>4

LEMMA BranchAnswersKeeps ==
  ASSUME StreamInv, NEW b \in Branches, BranchAnswers(b)
  PROVE  StreamInv'
<1> USE StreamTypeParts
<1> DEFINE here == tee.offset + Len(tee.cache)
           takes == ~tee.error /\ branch[b].index < here
           index == branch[b].index + (IF takes THEN 1 ELSE 0)
           consumed == [c \in Branches |-> IF c = b THEN index ELSE branch[c].index]
<1>t. StreamTypeOK /\ TeeInv /\ MuxInv /\ DemuxInv  BY DEF StreamInv
<1>0. UNCHANGED <<class, source, aborted, pump, buffers, waiting, consumer>>
    BY DEF BranchAnswers
<1>1. /\ branch[b].pc = "ready"
      /\ branch' = [branch EXCEPT ![b] = [pc |-> "idle", index |-> index]]
      /\ tee' = (IF takes THEN TrimCache(tee, consumed) ELSE tee)
      /\ pending' = [pending EXCEPT ![b] = Answer(b)]
    BY DEF BranchAnswers
<1>1m. mux' = [mux EXCEPT !.winner = IF mux.pc = "racing" /\ @ = NoBranch THEN b ELSE @]
    BY DEF BranchAnswers
<1>2. /\ tee \in TeeType /\ tee.offset \in Nat /\ Len(tee.cache) \in Nat /\ here \in Nat
      /\ tee.cache \in Seq(Items)
    BY <1>t DEF TeeType
<1>3. \A c \in Branches : branch[c].index \in Nat /\ branch[c] \in BranchType
    BY <1>t DEF BranchType
<1>4. index \in Nat /\ index >= branch[b].index /\ (index = branch[b].index + 1 <=> takes)
      /\ (~takes => index = branch[b].index)
    BY <1>3
<1>5. \A c \in Branches : tee.offset <= branch[c].index /\ branch[c].index <= here
    BY <1>t DEF TeeInv
<1>6. /\ consumed \in [Branches -> Nat]
      /\ \A c \in Branches : consumed[c] <= here /\ tee.offset <= consumed[c]
    BY <1>2, <1>3, <1>4, <1>5
<1>7. /\ branch' \in [Branches -> BranchType] /\ branch'[b].pc = "idle"
      /\ \A c \in Branches : branch'[c].index = consumed[c]
      /\ \A c \in Branches : c # b => branch'[c] = branch[c]
    BY <1>1, <1>3, <1>4, <1>t DEF BranchType, CallPc
<1>8. /\ tee' \in TeeType /\ tee'.error = tee.error /\ tee'.finished = tee.finished
      /\ tee'.offset + Len(tee'.cache) = here
      /\ \A c \in Branches : tee'.offset <= consumed[c]
      /\ (\A j \in DOMAIN tee.cache : tee.cache[j] = tee.offset + j) =>
                \A j \in DOMAIN tee'.cache : tee'.cache[j] = tee'.offset + j
  <2>1. CASE takes
    <3>1. tee' = TrimCache(tee, consumed)  BY <1>1, <2>1
    <3> HIDE DEF consumed
    <3> QED BY <1>2, <1>6, <3>1, TrimKeeps
  <2>2. CASE ~takes
    <3>1. tee' = tee  BY <1>1, <2>2
    <3> QED BY <1>2, <1>6, <3>1
  <2> QED BY <2>1, <2>2
<1>9. pending[b] = Asked  BY <1>1, <1>t DEF MuxInv
(* What the branch answers: its next item, the end, or an exception. *)
<1>10. \/ Answer(b).kind = "error" /\ Answer(b) \in Pull
       \/ /\ Answer(b) \in Pull /\ Answer(b).kind = "end"
          /\ ~takes /\ branch[b].index = Length
       \/ /\ Answer(b) \in Pull /\ Answer(b).kind = "item"
          /\ takes /\ Answer(b).item = branch[b].index + 1
  <2>1. CASE tee.error  BY <2>1, PullKinds DEF Answer
  <2>2. CASE ~tee.error /\ branch[b].index >= here
    <3>1. Answer(b) = End  BY <2>2 DEF Answer
    <3>2. ~takes  BY <1>2, <1>3, <2>2
    <3>3. here = source /\ (tee.finished => source = Length)  BY <1>t, <2>2 DEF TeeInv
    <3>4. ~Covered(tee, branch[b].index + 1)  BY <1>2, <1>3, <2>2 DEF Covered
    <3>5. tee.finished  BY <1>1, <1>t, <3>4 DEF TeeInv
    <3>6. branch[b].index = Length  BY <1>2, <1>3, <1>5, <2>2, <3>3, <3>5
    <3> QED BY <3>1, <3>2, <3>6, PullKinds
  <2>3. CASE ~tee.error /\ ~(branch[b].index >= here) /\ aborted
    <3>1. Answer(b) = Error  BY <2>3 DEF Answer
    <3> QED BY <3>1, PullKinds
  <2>4. CASE ~tee.error /\ ~(branch[b].index >= here) /\ ~aborted
    <3>1. takes  BY <1>2, <1>3, <2>4
    <3>2. PICK j : j = branch[b].index - tee.offset + 1  OBVIOUS
    <3>3. j \in 1..Len(tee.cache) /\ tee.offset + j = branch[b].index + 1
        BY <1>2, <1>3, <1>5, <2>4, <3>2
    <3>4. tee.cache[j] = tee.offset + j /\ tee.cache[j] \in Items  BY <1>2, <1>t, <2>4,
        <3>3 DEF TeeInv
    <3>5. Answer(b) = Item(branch[b].index + 1)  BY <2>4, <3>2, <3>3, <3>4 DEF Answer
    <3> QED BY <3>1, <3>3, <3>4, <3>5, PullKinds
  <2> QED BY <2>1, <2>2, <2>3, <2>4
<1>11. /\ pending' \in [Branches -> Pull] /\ pending'[b] = Answer(b)
       /\ \A c \in Branches : c # b => pending'[c] = pending[c]
    BY <1>1, <1>10, <1>t
<1>12. mux' \in MuxType /\ mux'.pc = mux.pc /\ (mux.pc # "racing" => mux'.winner = mux.winner)
  <2>1. b \in {0, 1, 2}  BY DEF Branches
  <2> QED BY <1>1m, <1>t, <2>1 DEF MuxType
<1> HIDE DEF consumed, index, takes, here
<1>13. consumed[b] = index /\ \A c \in Branches : c # b => consumed[c] = branch[c].index
    BY DEF consumed
<1>14. StreamTypeOK'  BY <1>0, <1>7, <1>8, <1>11, <1>12, <1>t, StreamTypesNext
<1>15. TeeInv'
  <2>1. ASSUME NEW c \in Branches, branch'[c].pc = "ready"
        PROVE  (Covered(tee, branch[c].index + 1))' \/ tee'.finished
    <3>1. c # b  BY <1>7, <2>1
    <3>2. Covered(tee, branch[c].index + 1) \/ tee.finished  BY <1>7, <1>t, <2>1,
        <3>1 DEF TeeInv
    <3> QED BY <1>7, <1>8, <3>1, <3>2 DEF Covered, here
  <2>2. \A c \in Branches : branch'[c].index <= tee'.offset + Len(tee'.cache)
      BY <1>6, <1>7, <1>8
  <2>3. \A c \in Branches : tee'.offset <= branch'[c].index  BY <1>7, <1>8
  <2>4. ~tee.error => here = source  BY <1>t DEF TeeInv, here
  <2> QED BY <1>0, <1>8, <1>t, <2>1, <2>2, <2>3, <2>4 DEF TeeInv
<1>16. MuxInv'
  <2>1. ASSUME NEW c \in Branches
        PROVE  /\ branch'[c].pc # "idle" => pending'[c] = Asked
               /\ pending'[c].kind = "item" => branch'[c].index = pending'[c].item
               /\ pending'[c].kind \in {"end", "gone"} => branch'[c].index = Length
    <3>1. CASE c = b  BY <1>4, <1>7, <1>10, <1>11, <1>13, <3>1
    <3>2. CASE c # b  BY <1>7, <1>11, <1>t, <3>2 DEF MuxInv
    <3> QED BY <3>1, <3>2
  <2>2. pump # "idle"  BY <1>9, <1>t, PullKinds DEF MuxInv
  <2>3. mux.pc # "ended"  BY <1>9, <1>t, PullKinds DEF MuxInv
  <2>4. mux.pc = "yielded" => mux.winner # b  BY <1>9, <1>t, PullKinds DEF MuxInv
  <2> QED BY <1>0, <1>11, <1>12, <1>t, <2>1, <2>2, <2>3, <2>4 DEF MuxInv
<1>17. ASSUME NEW c \in Branches, NEW r \in Nat, Behind(c, r) PROVE Behind(c, r)'
  <2>1. CASE c = b
    <3>1. branch[b].index = r  BY <1>9, <1>17, <2>1, PullKinds DEF Behind
    <3> QED BY <1>4, <1>7, <1>10, <1>11, <1>13, <2>1, <3>1 DEF Behind
  <2>2. CASE c # b  BY <1>7, <1>11, <1>17, <2>2 DEF Behind
  <2> QED BY <2>1, <2>2
<1>18. DemuxInv'  BY <1>0, <1>17, <1>t, RoutedKept
<1> QED BY <1>14, <1>15, <1>16, <1>18 DEF StreamInv

-----------------------------------------------------------------------------
(* mux *)

LEMMA RaceNowTyped == ASSUME NEW p PROVE RaceNow(p) \in {0, 1, 2}
<1>1. CASE Settled(p) = {}  BY <1>1 DEF RaceNow, NoBranch
<1>2. CASE Settled(p) # {}
  <2>1. Settled(p) \subseteq {1, 2}  BY DEF Settled, Branches
  <2>2. \E b \in Settled(p) : \A c \in Settled(p) : b <= c
    <3>1. CASE 1 \in Settled(p)  BY <2>1, <3>1
    <3>2. CASE 1 \notin Settled(p)
      <4>1. 2 \in Settled(p) /\ \A c \in Settled(p) : c = 2  BY <1>2, <2>1, <3>2
      <4> QED BY <4>1
    <3> QED BY <3>1, <3>2
  <2>3. RaceNow(p) \in Settled(p)  BY <1>2, <2>2 DEF RaceNow
  <2> QED BY <2>1, <2>3
<1> QED BY <1>1, <1>2

LEMMA MuxContinuesKeeps ==
  ASSUME StreamInv, MuxContinues
  PROVE  StreamInv'
<1> DEFINE b == mux.winner
           p == [pending EXCEPT ![b] = Gone]
<1>t. StreamTypeOK /\ TeeInv /\ MuxInv /\ DemuxInv  BY DEF StreamInv
<1>y. /\ mux \in MuxType /\ pending \in [Branches -> Pull]
      /\ branch \in [Branches -> BranchType] /\ tee \in TeeType
    BY <1>t, StreamTypeParts
<1>0. UNCHANGED <<class, source, aborted, tee, branch, pump, buffers, waiting, consumer>>
    BY DEF MuxContinues
<1>1. mux.pc = "racing" /\ b \in Branches
    BY <1>y DEF MuxContinues, MuxType, NoBranch, Branches
<1>2. TeeInv'  BY <1>0, <1>t DEF TeeInv, Covered
<1>3. pump # "done"  BY <1>1, <1>t DEF MuxInv
<1>i. pump # "idle" \/ pending[b] = Fresh  BY <1>1, <1>t DEF MuxInv
<1>4. CASE pending[b].kind = "item" /\ mux' = [mux EXCEPT !.pc = "yielded"] /\ UNCHANGED pending
  <2>1. mux' \in MuxType /\ mux'.pc = "yielded" /\ mux'.winner = b  BY <1>4, <1>y DEF MuxType
  <2>2. MuxInv'  BY <1>0, <1>1, <1>3, <1>4, <1>t, <2>1 DEF MuxInv
  <2>3. DemuxInv'
    <3>1. \A c \in Branches, r \in Nat : Behind(c, r) => Behind(c, r)'  BY <1>0, <1>4 DEF Behind
    <3> QED BY <1>0, <1>t, <3>1, RoutedKept
  <2>4. StreamTypeOK'  BY <1>0, <1>4, <1>t, <2>1, StreamTypeParts, StreamTypesNext
  <2> QED BY <1>2, <2>2, <2>3, <2>4 DEF StreamInv
<1>5. CASE pending[b].kind = "error" /\ mux' = [pc |-> "threw", winner |-> NoBranch]
           /\ UNCHANGED pending
  <2>1. mux' \in MuxType /\ mux'.pc = "threw"  BY <1>5 DEF MuxType, NoBranch
  <2>2. MuxInv'  BY <1>0, <1>3, <1>5, <1>t, <2>1 DEF MuxInv
  <2>3. DemuxInv'
    <3>1. \A c \in Branches, r \in Nat : Behind(c, r) => Behind(c, r)'  BY <1>0, <1>5 DEF Behind
    <3> QED BY <1>0, <1>t, <3>1, RoutedKept
  <2>4. StreamTypeOK'  BY <1>0, <1>5, <1>t, <2>1, StreamTypeParts, StreamTypesNext
  <2> QED BY <1>2, <2>2, <2>3, <2>4 DEF StreamInv
<1>6. CASE /\ pending[b].kind = "end" /\ pending' = p
           /\ mux' = IF {c \in Branches : p[c] # Gone} = {} THEN [pc |-> "ended", winner |-> NoBranch]
                     ELSE [pc |-> "racing", winner |-> RaceNow(p)]
  <2>1. /\ pending' \in [Branches -> Pull] /\ pending'[b] = Gone
        /\ \A c \in Branches : c # b => pending'[c] = pending[c]
      BY <1>1, <1>6, <1>y, PullKinds
  <2>2. /\ mux' \in MuxType /\ mux'.pc \in {"racing", "ended"}
        /\ mux'.pc = "ended" => \A c \in Branches : pending'[c] = Gone
    <3>1. RaceNow(p) \in {0, 1, 2}  BY RaceNowTyped
    <3>2. CASE {c \in Branches : p[c] # Gone} = {}
      <4>1. mux' = [pc |-> "ended", winner |-> NoBranch]  BY <1>6, <3>2
      <4> QED BY <1>6, <3>2, <4>1 DEF MuxType, NoBranch
    <3>3. CASE {c \in Branches : p[c] # Gone} # {}
      <4>1. mux' = [pc |-> "racing", winner |-> RaceNow(p)]  BY <1>6, <3>3
      <4> QED BY <3>1, <4>1 DEF MuxType
    <3> QED BY <3>2, <3>3
  <2> HIDE DEF b
  <2>3. pump # "idle"  BY <1>i, <1>6, PullKinds
  <2>4. branch[b].index = Length  BY <1>1, <1>6, <1>t DEF MuxInv
  <2>5. branch[b].pc = "idle"  BY <1>1, <1>6, <1>t, PullKinds DEF MuxInv
  <2>6. ASSUME NEW c \in Branches
        PROVE  /\ branch'[c].pc # "idle" => pending'[c] = Asked
               /\ pending'[c].kind = "item" => branch'[c].index = pending'[c].item
               /\ pending'[c].kind \in {"end", "gone"} => branch'[c].index = Length
    <3>1. CASE c = b  BY <1>0, <2>1, <2>4, <2>5, <3>1, PullKinds
    <3>2. CASE c # b  BY <1>0, <1>t, <2>1, <3>2 DEF MuxInv
    <3> QED BY <3>1, <3>2
  <2>7. MuxInv'  BY <1>0, <1>3, <2>2, <2>3, <2>6 DEF MuxInv
  <2>8. DemuxInv'
    <3>1. ASSUME NEW c \in Branches, NEW r \in Nat, Behind(c, r) PROVE Behind(c, r)'
      <4>1. CASE c = b  BY <1>0, <1>6, <2>1, <3>1, <4>1, PullKinds DEF Behind
      <4>2. CASE c # b  BY <1>0, <2>1, <3>1, <4>2 DEF Behind
      <4> QED BY <4>1, <4>2
    <3> QED BY <1>0, <1>t, <3>1, RoutedKept
  <2>9. StreamTypeOK'  BY <1>0, <1>t, <2>1, <2>2, StreamTypeParts, StreamTypesNext
  <2> QED BY <1>2, <2>7, <2>8, <2>9 DEF StreamInv
<1> QED BY <1>4, <1>5, <1>6 DEF MuxContinues

LEMMA MuxStartsKeeps ==
  ASSUME StreamInv, MuxStarts, pump = "idle", pump' = "pulling", UNCHANGED <<source, aborted>>
  PROVE  /\ tee' \in TeeType /\ branch' \in [Branches -> BranchType]
         /\ mux' \in MuxType /\ pending' \in [Branches -> Pull]
         /\ TeeInv' /\ MuxInv'
         /\ \A c \in Branches, r \in Nat : Behind(c, r) => Behind(c, r)'
<1>t. StreamTypeOK /\ TeeInv /\ MuxInv /\ DemuxInv  BY DEF StreamInv
<1>0. \A c \in Branches : pending[c] = Fresh /\ branch[c].index = 0 /\ branch[c].pc = "idle"
    BY <1>t, PullKinds DEF MuxInv
<1>1. CASE aborted
  <2>1. /\ pending' = [b \in Branches |-> Error] /\ mux' = [pc |-> "racing", winner |-> 1]
        /\ UNCHANGED <<tee, branch>>
      BY <1>1 DEF MuxStarts
  <2>2. /\ tee' \in TeeType /\ branch' \in [Branches -> BranchType]
        /\ mux' \in MuxType /\ pending' \in [Branches -> Pull]
      BY <1>t, <2>1, StreamTypeParts, PullKinds DEF MuxType
  <2>3. TeeInv'  BY <1>t, <2>1 DEF TeeInv, Covered
  <2>4. MuxInv'  BY <1>0, <2>1, PullKinds DEF MuxInv
  <2>5. \A c \in Branches, r \in Nat : Behind(c, r) => Behind(c, r)'
      BY <2>1, PullKinds DEF Behind
  <2> QED BY <2>2, <2>3, <2>4, <2>5
<1>2. CASE ~aborted
  <2> DEFINE first == NextOn(1, tee, branch)
             second == NextOn(2, first.tee, first.branch)
  <2>1. /\ pending' = [b \in Branches |-> Asked] /\ mux' = [pc |-> "racing", winner |-> NoBranch]
        /\ tee' = second.tee /\ branch' = second.branch
      BY <1>2 DEF MuxStarts
  <2>2. 1 \in Branches /\ 2 \in Branches  BY DEF Branches
  <2>3. Starts(first.tee, first.branch)  BY <2>2, HereStarts, NextOnStarts
  <2>4. first.tee.error => first.tee.finished  BY <2>3, HereStarts DEF Starts
  <2> HIDE DEF first
  <2>5. Starts(tee', branch')  BY <2>1, <2>2, <2>3, <2>4, NextOnStarts
  <2>6. /\ tee' \in TeeType /\ branch' \in [Branches -> BranchType]
        /\ mux' \in MuxType /\ pending' \in [Branches -> Pull]
      BY <2>1, <2>5, PullKinds DEF Starts, MuxType, NoBranch
  <2>7. TeeInv'  BY <2>5, StartsKeepTee
  <2>8. MuxInv'  BY <2>1, PullKinds DEF MuxInv
  <2>9. \A c \in Branches, r \in Nat : Behind(c, r) => Behind(c, r)'
      BY <1>0, <2>1, <2>5, PullKinds DEF Behind, Starts
  <2> QED BY <2>6, <2>7, <2>8, <2>9
<1> QED BY <1>1, <1>2

-----------------------------------------------------------------------------
(* demux *)

LEMMA MoveHead ==
  ASSUME NEW T, NEW s \in Seq(T), NEW t \in Seq(T), t # <<>>
  PROVE  /\ Append(s, Head(t)) \in Seq(T) /\ Tail(t) \in Seq(T)
         /\ Append(s, Head(t)) \o Tail(t) = s \o t
<1>1. /\ Head(t) \in T /\ Tail(t) \in Seq(T) /\ Len(Tail(t)) = Len(t) - 1
      /\ \A i \in 1..Len(Tail(t)) : Tail(t)[i] = t[i + 1]
      /\ Len(t) \in Nat \ {0} /\ Head(t) = t[1]
    BY HeadTailProperties, EmptySeq
<1>2. PICK a : a = Append(s, Head(t))  OBVIOUS
<1>3. /\ a \in Seq(T) /\ Len(a) = Len(s) + 1 /\ a[Len(s) + 1] = t[1]
      /\ \A i \in 1..Len(s) : a[i] = s[i]
    BY <1>1, <1>2
<1>4. PICK l : l = a \o Tail(t)  OBVIOUS
<1>5. PICK r : r = s \o t  OBVIOUS
<1>6. /\ l \in Seq(T) /\ Len(l) = Len(a) + Len(Tail(t))
      /\ \A i \in 1..(Len(a) + Len(Tail(t))) :
            l[i] = IF i <= Len(a) THEN a[i] ELSE Tail(t)[i - Len(a)]
    BY <1>1, <1>3, <1>4, ConcatProperties
<1>7. /\ r \in Seq(T) /\ Len(r) = Len(s) + Len(t)
      /\ \A i \in 1..(Len(s) + Len(t)) : r[i] = IF i <= Len(s) THEN s[i] ELSE t[i - Len(s)]
    BY <1>5, ConcatProperties
<1>8. Len(s) \in Nat  OBVIOUS
<1>9. Len(l) = Len(r)  BY <1>1, <1>3, <1>6, <1>7, <1>8
<1>10. ASSUME NEW i \in 1..Len(l) PROVE l[i] = r[i]
  <2>1. CASE i <= Len(s)
    <3>1. i \in 1..Len(s) /\ i \in 1..(Len(s) + Len(t)) /\ i \in 1..(Len(a) + Len(Tail(t)))
        BY <1>1, <1>3, <1>6, <1>8, <2>1
    <3>2. l[i] = a[i]  BY <1>3, <1>6, <1>8, <2>1, <3>1
    <3>3. r[i] = s[i]  BY <1>7, <2>1, <3>1
    <3> QED BY <1>3, <3>1, <3>2, <3>3
  <2>2. CASE i = Len(s) + 1
    <3>1. l[i] = a[i] /\ a[i] = t[1]  BY <1>1, <1>3, <1>6, <1>8, <2>2
    <3>2. r[i] = t[i - Len(s)] /\ i - Len(s) = 1  BY <1>1, <1>7, <1>8, <1>9, <2>2
    <3> QED BY <3>1, <3>2
  <2>3. CASE i > Len(s) + 1
    <3>1. PICK j : j = i - Len(a)  OBVIOUS
    <3>2. j \in 1..Len(Tail(t)) /\ j + 1 = i - Len(s)  BY <1>1, <1>3, <1>6, <1>8, <2>3, <3>1
    <3>3. l[i] = Tail(t)[j]  BY <1>3, <1>6, <1>8, <2>3, <3>1
    <3>4. r[i] = t[j + 1]  BY <1>7, <1>8, <1>9, <2>3, <3>2
    <3> QED BY <1>1, <3>2, <3>3, <3>4
  <2> QED BY <1>8, <2>1, <2>2, <2>3
<1>11. l = r  BY <1>6, <1>7, <1>9, <1>10, SeqEqual
<1> QED BY <1>1, <1>2, <1>3, <1>4, <1>5, <1>11

LEMMA NextOfKeyKeeps ==
  ASSUME StreamInv, NEW k \in Keys, NextOfKey(k)
  PROVE  StreamInv'
<1>t. StreamTypeOK /\ TeeInv /\ MuxInv /\ DemuxInv  BY DEF StreamInv
<1>y. /\ buffers \in [Keys -> Seq(Copy)] /\ waiting \in [Keys -> Nat]
      /\ consumer \in [Keys -> ConsumerType] /\ consumer[k].ended = "open"
      /\ consumer[k].got \in Seq(Copy) /\ buffers[k] \in Seq(Copy)
      /\ pump \in {"idle", "pulling", "done", "failed"}
    BY <1>t, StreamTypeParts DEF NextOfKey, ConsumerType
<1>0. UNCHANGED <<class, source, aborted>>  BY DEF NextOfKey
<1>1. /\ tee' \in TeeType /\ branch' \in [Branches -> BranchType]
      /\ mux' \in MuxType /\ pending' \in [Branches -> Pull]
      /\ TeeInv' /\ MuxInv'
      /\ \A c \in Branches, r \in Nat : Behind(c, r) => Behind(c, r)'
      /\ pump' = IF pump = "idle" THEN "pulling" ELSE pump
  <2>1. CASE pump = "idle"
    <3>1. pump' = "pulling" /\ MuxStarts  BY <2>1 DEF NextOfKey
    <3> QED BY <1>0, <2>1, <3>1, MuxStartsKeeps
  <2>2. CASE pump # "idle"
    <3>1. UNCHANGED <<pump, mux, pending, tee, branch>>  BY <2>2 DEF NextOfKey
    <3>2. TeeInv'  BY <1>0, <1>t, <3>1 DEF TeeInv, Covered
    <3>3. MuxInv'  BY <1>t, <3>1 DEF MuxInv
    <3>4. \A c \in Branches, r \in Nat : Behind(c, r) => Behind(c, r)'  BY <3>1 DEF Behind
    <3> QED BY <1>t, <2>2, <3>1, <3>2, <3>3, <3>4, StreamTypeParts
  <2> QED BY <2>1, <2>2
(* In every case the copies that were sent stay the same. *)
<1>2. /\ buffers' \in [Keys -> Seq(Copy)] /\ waiting' \in [Keys -> Nat]
      /\ consumer' \in [Keys -> ConsumerType]
      /\ \A h \in Keys : /\ Sent(h)' = Sent(h)
                         /\ waiting'[h] > 0 => buffers'[h] = <<>>
                         /\ consumer'[h].ended = "end" => buffers'[h] = <<>> /\ pump' = "done"
  <2>w. \A h \in Keys : /\ waiting[h] > 0 => buffers[h] = <<>>
                        /\ consumer[h].ended = "end" => buffers[h] = <<>> /\ pump' = "done"
      BY <1>1, <1>t DEF DemuxInv
  <2>1. CASE /\ pump = "failed" /\ consumer' = [consumer EXCEPT ![k].ended = "error"]
             /\ UNCHANGED <<buffers, waiting>>
    <3>1. /\ consumer' \in [Keys -> ConsumerType] /\ consumer'[k].ended = "error"
          /\ \A h \in Keys : consumer'[h].got = consumer[h].got
          /\ \A h \in Keys : h # k => consumer'[h] = consumer[h]
        BY <1>y, <2>1 DEF ConsumerType
    <3>2. ASSUME NEW h \in Keys
          PROVE  /\ Sent(h)' = Sent(h)
                 /\ waiting'[h] > 0 => buffers'[h] = <<>>
                 /\ consumer'[h].ended = "end" => buffers'[h] = <<>> /\ pump' = "done"
      <4>1. Sent(h)' = Sent(h)  BY <2>1, <3>1 DEF Sent
      <4>2. CASE h = k  BY <2>1, <2>w, <3>1, <4>1, <4>2
      <4>3. CASE h # k  BY <2>1, <2>w, <3>1, <4>1, <4>3
      <4> QED BY <4>2, <4>3
    <3> QED BY <1>y, <2>1, <3>1, <3>2
  <2>2. CASE /\ buffers[k] # <<>>
             /\ consumer' = [consumer EXCEPT ![k].got = Append(@, Head(buffers[k]))]
             /\ buffers' = [buffers EXCEPT ![k] = Tail(@)]
             /\ UNCHANGED waiting
    <3>1. PICK a : a = Append(consumer[k].got, Head(buffers[k]))  OBVIOUS
    <3>2. PICK z : z = Tail(buffers[k])  OBVIOUS
    <3>3. a \in Seq(Copy) /\ z \in Seq(Copy) /\ a \o z = consumer[k].got \o buffers[k]
        BY <1>y, <2>2, <3>1, <3>2, MoveHead, SMTT(20)
    <3>4. /\ consumer' \in [Keys -> ConsumerType]
          /\ consumer'[k].got = a /\ consumer'[k].ended = "open"
          /\ \A h \in Keys : h # k => consumer'[h] = consumer[h]
      <4>1. consumer' = [consumer EXCEPT ![k].got = a]  BY <2>2, <3>1
      <4> QED BY <1>y, <3>3, <4>1 DEF ConsumerType
    <3>5. /\ buffers' \in [Keys -> Seq(Copy)] /\ buffers'[k] = z
          /\ \A h \in Keys : h # k => buffers'[h] = buffers[h]
        BY <1>y, <2>2, <3>2, <3>3
    <3>6. ~(waiting[k] > 0)  BY <1>y, <2>2, <2>w
    <3>7. ASSUME NEW h \in Keys
          PROVE  /\ Sent(h)' = Sent(h)
                 /\ waiting'[h] > 0 => buffers'[h] = <<>>
                 /\ consumer'[h].ended = "end" => buffers'[h] = <<>> /\ pump' = "done"
      <4>1. CASE h = k  BY <2>2, <3>3, <3>4, <3>5, <3>6, <4>1 DEF Sent
      <4>2. CASE h # k  BY <1>y, <2>2, <2>w, <3>4, <3>5, <4>2 DEF Sent
      <4> QED BY <4>1, <4>2
    <3> QED BY <1>y, <2>2, <3>4, <3>5, <3>7
  <2>3. CASE /\ pump = "done" /\ buffers[k] = <<>>
             /\ consumer' = [consumer EXCEPT ![k].ended = "end"]
             /\ UNCHANGED <<buffers, waiting>>
    <3>1. /\ consumer' \in [Keys -> ConsumerType]
          /\ \A h \in Keys : consumer'[h].got = consumer[h].got
          /\ \A h \in Keys : h # k => consumer'[h] = consumer[h]
        BY <1>y, <2>3 DEF ConsumerType
    <3>2. pump' = "done"  BY <1>1, <2>3
    <3>3. ASSUME NEW h \in Keys
          PROVE  /\ Sent(h)' = Sent(h)
                 /\ waiting'[h] > 0 => buffers'[h] = <<>>
                 /\ consumer'[h].ended = "end" => buffers'[h] = <<>> /\ pump' = "done"
      <4>1. Sent(h)' = Sent(h)  BY <2>3, <3>1 DEF Sent
      <4>2. CASE h = k  BY <2>3, <3>2, <4>1, <4>2
      <4>3. CASE h # k  BY <2>3, <2>w, <3>1, <4>1, <4>3
      <4> QED BY <4>2, <4>3
    <3> QED BY <1>y, <2>3, <3>1, <3>3
  <2>4. CASE /\ buffers[k] = <<>>
             /\ waiting' = [waiting EXCEPT ![k] = @ + 1]
             /\ UNCHANGED <<buffers, consumer>>
    <3>1. waiting' \in [Keys -> Nat] /\ \A h \in Keys : h # k => waiting'[h] = waiting[h]
        BY <1>y, <2>4
    <3>2. ASSUME NEW h \in Keys
          PROVE  /\ Sent(h)' = Sent(h)
                 /\ waiting'[h] > 0 => buffers'[h] = <<>>
                 /\ consumer'[h].ended = "end" => buffers'[h] = <<>> /\ pump' = "done"
      <4>1. Sent(h)' = Sent(h)  BY <2>4 DEF Sent
      <4>2. CASE h = k  BY <2>4, <2>w, <4>1, <4>2
      <4>3. CASE h # k  BY <2>4, <2>w, <3>1, <4>1, <4>3
      <4> QED BY <4>2, <4>3
    <3> QED BY <1>y, <2>4, <3>1, <3>2
  <2> QED BY <2>1, <2>2, <2>3, <2>4 DEF NextOfKey
<1>3. DemuxInv'
  <2>1. \A h \in Keys : InOrder(h)'  BY <1>0, <1>2, <1>t DEF DemuxInv, InOrder
  <2>2. \A b \in Branches, r \in Nat : Routed(b, r) => Routed(b, r)'  BY <1>0, <1>2 DEF Routed
  <2> QED BY <1>1, <1>2, <1>t, <2>1, <2>2 DEF DemuxInv
<1>4. StreamTypeOK'
  <2>1. pump' \in {"idle", "pulling", "done", "failed"} /\ source' \in 0..Length
      BY <1>0, <1>1, <1>y, <1>t, StreamTypeParts
  <2> QED BY <1>0, <1>1, <1>2, <1>t, <2>1, StreamTypesNext
<1> QED BY <1>1, <1>3, <1>4 DEF StreamInv

LEMMA MoveToBuffer ==
  ASSUME NEW T, NEW s \in Seq(T), NEW t \in Seq(T), NEW e \in T
  PROVE  s \o Append(t, e) = Append(s \o t, e)
<1>1. Append(t, e) = t \o <<e>> /\ <<e>> \in Seq(T)  OBVIOUS
<1>2. s \o t \in Seq(T)  BY ConcatProperties
<1>3. Append(s \o t, e) = (s \o t) \o <<e>>  BY <1>2
<1>4. (s \o t) \o <<e>> = s \o (t \o <<e>>)  BY <1>1, ConcatAssociative
<1> QED BY <1>1, <1>3, <1>4

(* The pump routes the item mux has yielded: it is the next of its branch,   *)
(* and comes after everything of its class that was sent.                    *)
LEMMA PumpTakesKeeps ==
  ASSUME StreamInv, PumpTakes
  PROVE  StreamInv'
<1>t. StreamTypeOK /\ TeeInv /\ MuxInv /\ DemuxInv  BY DEF StreamInv
<1>y. /\ buffers \in [Keys -> Seq(Copy)] /\ waiting \in [Keys -> Nat]
      /\ consumer \in [Keys -> ConsumerType]
      /\ pending \in [Branches -> Pull] /\ branch \in [Branches -> BranchType]
      /\ class \in [Items -> Keys \cup {"unknown"}] /\ source \in 0..Length
    BY <1>t, StreamTypeParts
<1>z. \A h \in Keys : consumer[h].got \in Seq(Copy) /\ buffers[h] \in Seq(Copy)
    BY <1>y DEF ConsumerType
<1>0. UNCHANGED <<class, source, aborted, pump>> /\ pump = "pulling" /\ mux.pc = "yielded"
    BY DEF PumpTakes
<1>1. PICK w : w = mux.winner  OBVIOUS
<1>2. w \in Branches /\ pending[w].kind = "item"  BY <1>0, <1>1, <1>t DEF MuxInv
<1>3. PICK i : i = pending[w].item  OBVIOUS
<1>4. i \in Items /\ branch[w].index = i  BY <1>2, <1>3, <1>y, <1>t, PullKinds DEF MuxInv
<1>5. PICK copy : copy = [item |-> i, via |-> w]  OBVIOUS
<1>6. copy \in Copy /\ copy.item = i /\ copy.via = w  BY <1>2, <1>4, <1>5 DEF Copy
<1>n. Length \in Nat /\ \A j \in Items : j \in Nat  BY StreamAssumption DEF Items
(* mux pulls the branch it has emitted. *)
<1>7. /\ tee' = NextOn(w, tee, branch).tee /\ branch' = NextOn(w, tee, branch).branch
      /\ pending' = [pending EXCEPT ![w] = Asked]
      /\ mux' = [pc |-> "racing", winner |-> RaceNow([pending EXCEPT ![w] = Asked])]
    BY <1>1 DEF PumpTakes, MuxResumes
<1>8. Starts(tee', branch') /\ \A c \in Branches : c # w => branch'[c] = branch[c]
    BY <1>2, <1>7, HereStarts, NextOnStarts
<1>9. /\ pending' \in [Branches -> Pull] /\ pending'[w] = Asked
      /\ \A c \in Branches : c # w => pending'[c] = pending[c]
    BY <1>2, <1>7, <1>y, PullKinds
<1>10. mux' \in MuxType /\ mux'.pc = "racing"  BY <1>7, RaceNowTyped DEF MuxType
<1>11. TeeInv'  BY <1>0, <1>8, StartsKeepTee
<1>12. MuxInv'
  <2>1. ASSUME NEW c \in Branches
        PROVE  /\ branch'[c].pc # "idle" => pending'[c] = Asked
               /\ pending'[c].kind = "item" => branch'[c].index = pending'[c].item
               /\ pending'[c].kind \in {"end", "gone"} => branch'[c].index = Length
    <3>1. CASE c = w  BY <1>9, <3>1, PullKinds
    <3>2. CASE c # w  BY <1>8, <1>9, <1>t, <3>2 DEF MuxInv
    <3> QED BY <3>1, <3>2
  <2> QED BY <1>0, <1>10, <2>1 DEF MuxInv
(* The copy goes to the end of what was sent to its key, if there is one. *)
<1>13. /\ buffers' \in [Keys -> Seq(Copy)] /\ waiting' \in [Keys -> Nat]
       /\ consumer' \in [Keys -> ConsumerType]
       /\ \A h \in Keys : /\ waiting'[h] > 0 => buffers'[h] = <<>>
                          /\ consumer'[h].ended = consumer[h].ended
                          /\ class[i] # h => Sent(h)' = Sent(h)
                          /\ class[i] = h => Sent(h)' = Append(Sent(h), copy)
  <2>k. PICK k : k = class[i]  OBVIOUS
  <2>w. \A h \in Keys : waiting[h] > 0 => buffers[h] = <<>>  BY <1>t DEF DemuxInv
  <2>0. pending[mux.winner].item = i /\ [item |-> pending[mux.winner].item, via |-> mux.winner] = copy
      BY <1>1, <1>3, <1>5
  <2>1. CASE k \notin Keys /\ UNCHANGED <<buffers, waiting, consumer>>
      BY <1>y, <2>1, <2>k, <2>w DEF Sent
  <2>2. CASE /\ k \in Keys /\ waiting[k] > 0
             /\ waiting' = [waiting EXCEPT ![k] = @ - 1]
             /\ consumer' = [consumer EXCEPT ![k].got = Append(@, copy)]
             /\ UNCHANGED buffers
    <3>1. PICK a : a = Append(consumer[k].got, copy)  OBVIOUS
    <3>2. a \in Seq(Copy)  BY <1>6, <1>z, <2>2, <3>1
    <3>3. /\ consumer' \in [Keys -> ConsumerType] /\ consumer'[k].got = a
          /\ \A h \in Keys : consumer'[h].ended = consumer[h].ended
          /\ \A h \in Keys : h # k => consumer'[h] = consumer[h]
      <4>1. consumer' = [consumer EXCEPT ![k].got = a]  BY <2>2, <3>1
      <4>2. PICK d : d = [consumer[k] EXCEPT !.got = a]  OBVIOUS
      <4>3. consumer[k] \in ConsumerType  BY <1>y, <2>2
      <4>4. d \in ConsumerType /\ d.got = a /\ d.ended = consumer[k].ended
          BY <3>2, <4>2, <4>3 DEF ConsumerType
      <4>5. consumer' = [consumer EXCEPT ![k] = d]  BY <4>1, <4>2
      <4> QED BY <1>y, <2>2, <4>4, <4>5
    <3>4. waiting' \in [Keys -> Nat] /\ \A h \in Keys : h # k => waiting'[h] = waiting[h]
        BY <1>y, <2>2
    <3>5. buffers[k] = <<>> /\ buffers' = buffers  BY <2>2, <2>w
    <3>6. Sent(k)' = Append(Sent(k), copy)
      <4>1. Sent(k)' = a  BY <3>2, <3>3, <3>5, ConcatEmptySeq DEF Sent
      <4>2. Sent(k) = consumer[k].got  BY <1>z, <2>2, <3>5, ConcatEmptySeq DEF Sent
      <4> QED BY <3>1, <4>1, <4>2
    <3>7. \A h \in Keys : h # k => Sent(h)' = Sent(h)  BY <3>3, <3>5 DEF Sent
    <3>8. \A h \in Keys : waiting'[h] > 0 => buffers'[h] = <<>>  BY <2>w, <3>4, <3>5
    <3> QED BY <1>y, <2>k, <3>3, <3>4, <3>5, <3>6, <3>7, <3>8
  <2>3. CASE /\ k \in Keys /\ waiting[k] = 0
             /\ buffers' = [buffers EXCEPT ![k] = Append(@, copy)]
             /\ UNCHANGED <<waiting, consumer>>
    <3>1. PICK a : a = Append(buffers[k], copy)  OBVIOUS
    <3>2. a \in Seq(Copy)  BY <1>6, <1>z, <2>3, <3>1
    <3>3. /\ buffers' \in [Keys -> Seq(Copy)] /\ buffers'[k] = a
          /\ \A h \in Keys : h # k => buffers'[h] = buffers[h]
        BY <1>y, <2>3, <3>1, <3>2
    <3>4. Sent(k)' = Append(Sent(k), copy)
      <4>1. Sent(k)' = consumer[k].got \o a  BY <2>3, <3>3 DEF Sent
      <4>2. consumer[k].got \o a = Append(consumer[k].got \o buffers[k], copy)
        <5>1. PICK g : g = consumer[k].got  OBVIOUS
        <5>2. PICK t : t = buffers[k]  OBVIOUS
        <5>3. g \in Seq(Copy) /\ t \in Seq(Copy)  BY <1>z, <2>3, <5>1, <5>2
        <5>4. g \o Append(t, copy) = Append(g \o t, copy)  BY <1>6, <5>3, MoveToBuffer
        <5> QED BY <3>1, <5>1, <5>2, <5>4
      <4> QED BY <4>1, <4>2 DEF Sent
    <3>5. \A h \in Keys : h # k => Sent(h)' = Sent(h)  BY <2>3, <3>3 DEF Sent
    <3>6. ~(waiting[k] > 0)  BY <2>3
    <3>7. \A h \in Keys : waiting'[h] > 0 => buffers'[h] = <<>>  BY <2>3, <2>w, <3>3, <3>6
    <3> QED BY <1>y, <2>k, <2>3, <3>3, <3>4, <3>5, <3>7
  <2> QED BY <2>0, <2>k, <2>1, <2>2, <2>3 DEF PumpTakes
(* Elementwise. *)
<1>14. \A h \in Keys : /\ Sent(h) \in Seq(Copy) /\ Len(Sent(h)) \in Nat
                       /\ DOMAIN Sent(h) = 1..Len(Sent(h))
  <2> SUFFICES ASSUME NEW h \in Keys
               PROVE  Sent(h) \in Seq(Copy) /\ Len(Sent(h)) \in Nat /\ DOMAIN Sent(h) = 1..Len(Sent(h))
      OBVIOUS
  <2>1. PICK g \in Seq(Copy) : g = consumer[h].got  BY <1>z
  <2>2. PICK t \in Seq(Copy) : t = buffers[h]  BY <1>z
  <2>3. Sent(h) = g \o t  BY <2>1, <2>2 DEF Sent
  <2>4. g \o t \in Seq(Copy)  BY ConcatProperties
  <2> QED BY <2>3, <2>4
<1>15. ASSUME NEW h \in Keys, class[i] = h
       PROVE  /\ DOMAIN Sent(h)' = 1..(Len(Sent(h)) + 1)
              /\ Sent(h)'[Len(Sent(h)) + 1] = copy
              /\ \A n \in DOMAIN Sent(h) : Sent(h)'[n] = Sent(h)[n]
  <2>1. PICK s : s = Sent(h)  OBVIOUS
  <2>2. s \in Seq(Copy) /\ Sent(h)' = Append(s, copy)  BY <1>13, <1>14, <1>15, <2>1
  <2>3. /\ DOMAIN Append(s, copy) = 1..(Len(s) + 1) /\ Append(s, copy)[Len(s) + 1] = copy
        /\ \A n \in DOMAIN s : Append(s, copy)[n] = s[n]
      BY <1>6, <2>2
  <2> QED BY <2>1, <2>2, <2>3
<1>16. PICK r \in Nat : Routed(w, r) /\ Behind(w, r)  BY <1>2, <1>t DEF DemuxInv
<1>17. i = r + 1  BY <1>2, <1>4, <1>16 DEF Behind
<1>18. ASSUME NEW h \in Keys, NEW n \in DOMAIN Sent(h), Sent(h)[n].via = w
       PROVE  Sent(h)[n].item < i
  <2>1. Sent(h)[n] \in Copy  BY <1>14
  <2>2. PICK j \in Items : Sent(h)[n] = [item |-> j, via |-> w] /\ j = Sent(h)[n].item
      BY <1>18, <2>1 DEF Copy
  <2>3. class[j] = h  BY <1>t, <2>2 DEF DemuxInv, InOrder
  <2>4. j <= r  BY <1>16, <2>2, <2>3 DEF Routed
  <2> QED BY <1>17, <1>n, <2>2, <2>4
<1>19. ASSUME NEW h \in Keys PROVE InOrder(h)'
  <2>1. CASE class[i] # h
    <3>1. Sent(h)' = Sent(h)  BY <1>13, <2>1
    <3> QED BY <1>0, <1>t, <3>1 DEF DemuxInv, InOrder
  <2>2. CASE class[i] = h
    <3>1. PICK l : l = Len(Sent(h))  OBVIOUS
    <3>2. /\ l \in Nat /\ DOMAIN Sent(h)' = 1..(l + 1) /\ DOMAIN Sent(h) = 1..l
          /\ Sent(h)'[l + 1] = copy /\ \A n \in 1..l : Sent(h)'[n] = Sent(h)[n]
        BY <1>14, <1>15, <2>2, <3>1
    <3>3. \A n \in DOMAIN Sent(h)' : n \in 1..l \/ n = l + 1  BY <3>2
    <3>4. InOrder(h)  BY <1>t DEF DemuxInv
    <3>5. ASSUME NEW n \in DOMAIN Sent(h)' PROVE class'[Sent(h)'[n].item] = h
        BY <1>0, <1>6, <2>2, <3>2, <3>3, <3>4 DEF InOrder
    <3>6. ASSUME NEW m \in DOMAIN Sent(h)', NEW n \in DOMAIN Sent(h)', m < n,
                 Sent(h)'[m].via = Sent(h)'[n].via
          PROVE  Sent(h)'[m].item < Sent(h)'[n].item
      <4>1. m \in 1..l  BY <3>2, <3>6
      <4>2. CASE n \in 1..l  BY <3>2, <3>4, <3>6, <4>1, <4>2 DEF InOrder
      <4>3. CASE n = l + 1
        <5>1. Sent(h)'[n] = copy /\ Sent(h)'[m] = Sent(h)[m]  BY <3>2, <4>1, <4>3
        <5>2. Sent(h)[m].via = w  BY <1>6, <3>6, <5>1
        <5> QED BY <1>6, <1>18, <3>2, <4>1, <5>1, <5>2
      <4> QED BY <3>3, <4>2, <4>3
    <3> QED BY <3>5, <3>6 DEF InOrder
  <2> QED BY <2>1, <2>2
<1>20. ASSUME NEW h \in Keys, NEW c
       PROVE  (\E n \in DOMAIN Sent(h)' : Sent(h)'[n] = c) <=>
                 \/ \E n \in DOMAIN Sent(h) : Sent(h)[n] = c
                 \/ class[i] = h /\ c = copy
  <2>1. CASE class[i] # h
    <3>1. Sent(h)' = Sent(h)  BY <1>13, <2>1
    <3> QED BY <2>1, <3>1
  <2>2. CASE class[i] = h
    <3>1. PICK l : l = Len(Sent(h))  OBVIOUS
    <3>2. /\ l \in Nat /\ DOMAIN Sent(h)' = 1..(l + 1) /\ DOMAIN Sent(h) = 1..l
          /\ Sent(h)'[l + 1] = copy /\ \A n \in 1..l : Sent(h)'[n] = Sent(h)[n]
        BY <1>14, <1>15, <2>2, <3>1
    <3>3. 1..(l + 1) = (1..l) \cup {l + 1}  BY <3>2
    <3> QED BY <2>2, <3>2, <3>3
  <2> QED BY <2>1, <2>2
<1>21. Routed(w, r + 1)'
  <2>1. ASSUME NEW h \in Keys, NEW j \in Items, class[j] = h
        PROVE  j <= r + 1 <=> \E n \in DOMAIN Sent(h)' : Sent(h)'[n] = [item |-> j, via |-> w]
    <3>1. j <= r <=> \E n \in DOMAIN Sent(h) : Sent(h)[n] = [item |-> j, via |-> w]
        BY <1>16, <2>1 DEF Routed
    <3>2. [item |-> j, via |-> w] = copy <=> j = i  BY <1>5
    <3>3. j <= r + 1 <=> (j <= r \/ j = i)  BY <1>17, <1>n
    <3> QED BY <1>20, <2>1, <3>1, <3>2, <3>3
  <2> QED BY <1>0, <2>1 DEF Routed
<1>22. ASSUME NEW c \in Branches, c # w, NEW q \in Nat, Routed(c, q) PROVE Routed(c, q)'
  <2>1. ASSUME NEW h \in Keys, NEW j \in Items, class[j] = h
        PROVE  j <= q <=> \E n \in DOMAIN Sent(h)' : Sent(h)'[n] = [item |-> j, via |-> c]
    <3>1. j <= q <=> \E n \in DOMAIN Sent(h) : Sent(h)[n] = [item |-> j, via |-> c]
        BY <1>22, <2>1 DEF Routed
    <3>2. [item |-> j, via |-> c] # copy  BY <1>5, <1>22
    <3> QED BY <1>20, <3>1, <3>2
  <2> QED BY <1>0, <2>1 DEF Routed
<1>23. ASSUME NEW c \in Branches PROVE \E q \in Nat : Routed(c, q)' /\ Behind(c, q)'
  <2>1. CASE c = w
    <3>1. branch'[w].index = r + 1  BY <1>2, <1>4, <1>8, <1>17 DEF Starts
    <3>2. Behind(w, r + 1)'  BY <1>9, <3>1, PullKinds DEF Behind
    <3>3. r + 1 \in Nat  BY <1>16
    <3> QED BY <1>21, <2>1, <3>2, <3>3
  <2>2. CASE c # w
    <3>1. PICK q \in Nat : Routed(c, q) /\ Behind(c, q)  BY <1>t DEF DemuxInv
    <3>2. Behind(c, q)'  BY <1>8, <1>9, <2>2, <3>1 DEF Behind
    <3> QED BY <1>22, <2>2, <3>1, <3>2
  <2> QED BY <2>1, <2>2
<1>24. DemuxInv'
  <2>1. \A h \in Keys : consumer[h].ended # "end"  BY <1>0, <1>t DEF DemuxInv
  <2>2. \A h \in Keys : consumer'[h].ended # "end"  BY <1>13, <2>1
  <2>3. \A h \in Keys : waiting'[h] > 0 => buffers'[h] = <<>>  BY <1>13
  <2> QED BY <1>19, <1>23, <2>2, <2>3 DEF DemuxInv
<1>25. StreamTypeOK'
    BY <1>0, <1>8, <1>9, <1>10, <1>13, <1>t, <1>y, StreamTypesNext DEF Starts
<1> QED BY <1>11, <1>12, <1>24, <1>25 DEF StreamInv

LEMMA PumpEndsKeeps ==
  ASSUME StreamInv, PumpEnds
  PROVE  StreamInv'
<1>t. StreamTypeOK /\ TeeInv /\ MuxInv /\ DemuxInv  BY DEF StreamInv
<1>0. /\ UNCHANGED <<class, source, aborted, tee, branch, mux, pending, buffers>>
      /\ pump = "pulling" /\ mux.pc \in {"ended", "threw"}
    BY DEF PumpEnds
<1>1. PICK how \in {"end", "error"} : how = IF mux.pc = "ended" THEN "end" ELSE "error"
    OBVIOUS
<1>2. /\ pump' = (IF how = "end" THEN "done" ELSE "failed")
      /\ consumer' = [k \in Keys |-> IF waiting[k] > 0 THEN [consumer[k] EXCEPT !.ended = how]
                                     ELSE consumer[k]]
      /\ waiting' = [k \in Keys |-> 0]
    BY <1>1 DEF PumpEnds
<1>y. consumer \in [Keys -> ConsumerType]  BY <1>t, StreamTypeParts
<1>3. ASSUME NEW k \in Keys
      PROVE  /\ consumer'[k] \in ConsumerType /\ consumer'[k].got = consumer[k].got
             /\ consumer'[k].ended = "end" => buffers'[k] = <<>> /\ pump' = "done"
  <2>0. consumer[k] \in ConsumerType  BY <1>y
  <2>1. CASE waiting[k] > 0
    <3>1. consumer'[k] = [consumer[k] EXCEPT !.ended = how]  BY <1>2, <2>1
    <3>2. /\ consumer'[k] \in ConsumerType /\ consumer'[k].got = consumer[k].got
          /\ consumer'[k].ended = how
        BY <1>1, <2>0, <3>1 DEF ConsumerType
    <3>3. buffers[k] = <<>>  BY <1>t, <2>1 DEF DemuxInv
    <3> QED BY <1>0, <1>2, <3>2, <3>3
  <2>2. CASE ~(waiting[k] > 0)
    <3>1. consumer'[k] = consumer[k]  BY <1>2, <2>2
    <3>2. consumer[k].ended # "end"  BY <1>0, <1>t DEF DemuxInv
    <3> QED BY <2>0, <3>1, <3>2
  <2> QED BY <2>1, <2>2
<1>4. consumer' \in [Keys -> ConsumerType]  BY <1>2, <1>3
<1>5. MuxInv'
  <2>1. pump' # "idle" /\ (pump' = "done" => mux.pc = "ended")  BY <1>1, <1>2
  <2> QED BY <1>0, <1>t, <2>1 DEF MuxInv
<1>6. TeeInv'  BY <1>0, <1>t DEF TeeInv, Covered
<1>7. DemuxInv'
  <2>1. \A k \in Keys : Sent(k)' = Sent(k)  BY <1>0, <1>3 DEF Sent
  <2>2. \A k \in Keys : InOrder(k)'  BY <1>0, <1>t, <2>1 DEF DemuxInv, InOrder
  <2>3. \A b \in Branches, r \in Nat : Routed(b, r) => Routed(b, r)'  BY <1>0, <2>1 DEF Routed
  <2>4. \A b \in Branches, r \in Nat : Behind(b, r) => Behind(b, r)'  BY <1>0 DEF Behind
  <2>5. \A k \in Keys : ~(waiting'[k] > 0)  BY <1>2
  <2> QED BY <1>3, <1>t, <2>2, <2>3, <2>4, <2>5 DEF DemuxInv
<1>8. StreamTypeOK'
  <2>1. pump' \in {"idle", "pulling", "done", "failed"} /\ waiting' \in [Keys -> Nat]  BY <1>2
  <2> QED BY <1>0, <1>4, <1>t, <2>1, StreamTypeParts, StreamTypesNext
<1> QED BY <1>5, <1>6, <1>7, <1>8 DEF StreamInv

LEMMA AbortKeeps ==
  ASSUME StreamInv, Abort \/ UNCHANGED pipelineVars
  PROVE  StreamInv'
<1>t. StreamTypeOK /\ TeeInv /\ MuxInv /\ DemuxInv  BY DEF StreamInv
<1>0. /\ UNCHANGED <<class, source, tee, branch, mux, pending, pump, buffers, waiting, consumer>>
      /\ aborted' \in BOOLEAN
    BY <1>t DEF Abort, pipelineVars, StreamTypeOK
<1>1. StreamTypeOK'  BY <1>0, <1>t DEF StreamTypeOK
<1>2. TeeInv'  BY <1>0, <1>t DEF TeeInv, Covered
<1>3. MuxInv'  BY <1>0, <1>t DEF MuxInv
<1>4. \A b \in Branches, r \in Nat : Behind(b, r) => Behind(b, r)'  BY <1>0 DEF Behind
<1>5. DemuxInv'  BY <1>0, <1>4, <1>t, RoutedKept
<1> QED BY <1>1, <1>2, <1>3, <1>5 DEF StreamInv

LEMMA StreamStep == StreamInv /\ [StreamNext]_pipelineVars => StreamInv'
<1> SUFFICES ASSUME StreamInv, [StreamNext]_pipelineVars PROVE StreamInv'  OBVIOUS
<1> QED BY PulledKeeps, ResumeKeeps, BranchAnswersKeeps, MuxContinuesKeeps, NextOfKeyKeeps,
           PumpTakesKeeps, PumpEndsKeeps, AbortKeeps DEF StreamNext

LEMMA SentIsDelivered == StreamInv => DeliveredOnce
<1> SUFFICES ASSUME StreamInv, NEW k \in Keys
             PROVE  LET got == consumer[k].got
                        mine == {i \in Items : class[i] = k}
                    IN  /\ \A n \in DOMAIN got : got[n].item \in mine
                        /\ \A m, n \in DOMAIN got :
                             m < n /\ got[m].via = got[n].via => got[m].item < got[n].item
                        /\ \A n \in DOMAIN got : \A i \in mine :
                             i < got[n].item => \E m \in 1..n : got[m] = [got[n] EXCEPT !.item = i]
                        /\ consumer[k].ended = "end" =>
                             \A i \in mine, b \in Branches :
                                \E n \in DOMAIN got : got[n] = [item |-> i, via |-> b]
    BY DEF DeliveredOnce
<1> DEFINE got == consumer[k].got
           mine == {i \in Items : class[i] = k}
<1>t. StreamTypeOK /\ TeeInv /\ MuxInv /\ DemuxInv  BY DEF StreamInv
<1>1. got \in Seq(Copy) /\ buffers[k] \in Seq(Copy)
    BY <1>t, StreamTypeParts DEF ConsumerType
<1>2. PICK s : s = Sent(k)  OBVIOUS
<1>3. PICK l : l = Len(got)  OBVIOUS
<1>4. /\ l \in Nat /\ DOMAIN got = 1..l /\ s \in Seq(Copy) /\ Len(s) \in Nat /\ l <= Len(s)
      /\ DOMAIN s = 1..Len(s) /\ \A n \in 1..l : s[n] = got[n]
  <2>1. /\ s \in Seq(Copy) /\ Len(s) = l + Len(buffers[k])
        /\ \A n \in 1..(l + Len(buffers[k])) : s[n] = IF n <= l THEN got[n] ELSE buffers[k][n - l]
      BY <1>1, <1>2, <1>3, ConcatProperties DEF Sent
  <2>2. l \in Nat /\ Len(buffers[k]) \in Nat /\ DOMAIN got = 1..l  BY <1>1, <1>3
  <2> QED BY <2>1, <2>2
<1>5. /\ \A n \in DOMAIN s : class[s[n].item] = k
      /\ \A m, n \in DOMAIN s : m < n /\ s[m].via = s[n].via => s[m].item < s[n].item
    BY <1>2, <1>t DEF DemuxInv, InOrder
<1>6. \A n \in DOMAIN got : n \in DOMAIN s /\ s[n] = got[n] /\ got[n] \in Copy  BY <1>1, <1>4
<1>n. \A j \in Items : j \in Nat  BY StreamAssumption DEF Items
<1> HIDE DEF got
<1>7. \A n \in DOMAIN got : got[n].item \in mine  BY <1>5, <1>6 DEF Copy
<1>8. \A m, n \in DOMAIN got : m < n /\ got[m].via = got[n].via => got[m].item < got[n].item
    BY <1>5, <1>6
<1>9. ASSUME NEW n \in DOMAIN got, NEW i \in mine, i < got[n].item
      PROVE  \E m \in 1..n : got[m] = [got[n] EXCEPT !.item = i]
  <2>1. PICK j \in Items, b \in Branches : got[n] = [item |-> j, via |-> b]
      BY <1>6 DEF Copy
  <2>2. PICK r \in Nat : Routed(b, r)  BY <1>t DEF DemuxInv
  <2>3. class[j] = k  BY <1>7, <2>1
  <2>4. j <= r  BY <1>2, <1>6, <2>1, <2>2, <2>3 DEF Routed
  <2>5. i <= r /\ i < j  BY <1>9, <1>n, <2>1, <2>4
  <2>6. PICK m \in DOMAIN s : s[m] = [item |-> i, via |-> b]
      BY <1>2, <2>2, <2>5 DEF Routed
  <2>7. ~(n < m)
    <3> SUFFICES ASSUME n < m PROVE FALSE  OBVIOUS
    <3>1. s[n] = [item |-> j, via |-> b] /\ n \in DOMAIN s  BY <1>6, <2>1
    <3>2. s[n].item < s[m].item  BY <1>5, <2>6, <3>1
    <3> QED BY <1>n, <2>5, <2>6, <3>1, <3>2
  <2>8. n \in 1..l /\ m \in 1..Len(s)  BY <1>4
  <2>9. m \in 1..n /\ m \in 1..l  BY <1>4, <2>7, <2>8
  <2>10. got[m] = [item |-> i, via |-> b]  BY <1>4, <2>6, <2>9
  <2> QED BY <2>1, <2>9, <2>10
<1>10. ASSUME consumer[k].ended = "end", NEW i \in mine, NEW b \in Branches
       PROVE  \E n \in DOMAIN got : got[n] = [item |-> i, via |-> b]
  <2>1. buffers[k] = <<>> /\ pump = "done"  BY <1>10, <1>t DEF DemuxInv
  <2>2. pending[b] = Gone /\ branch[b].index = Length  BY <1>t, <2>1, PullKinds DEF MuxInv
  <2>3. PICK r \in Nat : Routed(b, r) /\ Behind(b, r)  BY <1>t DEF DemuxInv
  <2>4. r = Length  BY <2>2, <2>3, PullKinds DEF Behind
  <2>5. i <= r  BY <2>4, StreamAssumption DEF Items
  <2>6. \E n \in DOMAIN s : s[n] = [item |-> i, via |-> b]  BY <1>2, <2>3, <2>5 DEF Routed
  <2>7. s = got  BY <1>1, <1>2, <2>1, ConcatEmptySeq DEF Sent, got
  <2> QED BY <2>6, <2>7
<1> QED BY <1>7, <1>8, <1>9, <1>10 DEF got

(* The pipeline keeps its types. *)
THEOREM StreamTypes == StreamSpec => []StreamTypeOK
<1>1. StreamInv => StreamTypeOK  BY DEF StreamInv
<1> QED BY <1>1, StreamInitially, StreamStep, PTL DEF StreamSpec

(* However the two branches of tee share their pulls, however many calls of  *)
(* next() each consumer has outstanding and whatever fails, every copy is    *)
(* delivered once and in order, and the end is told after all of them.       *)
THEOREM EveryCopyOnce == StreamSpec => []DeliveredOnce
BY SentIsDelivered, StreamInitially, StreamStep, PTL DEF StreamSpec
=============================================================================
