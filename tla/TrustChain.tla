----------------------------- MODULE TrustChain -----------------------------
(***************************************************************************)
(* The chain of trust records: TrustRecordService appends to it with       *)
(* retries, GitTrustChainAdapter publishes by compare-and-swap, and        *)
(* TrustStateBuilder and TrustEvaluator tell from it whom to trust.        *)
(*                                                                         *)
(* Administrators race on one chain; an answer of the storage may be lost. *)
(* Record ids are hashes: a record is named by its place in the ledger of  *)
(* everything published, and names the record it was signed after.         *)
(* Signatures are by the issuer's key and key ids are right.               *)
(***************************************************************************)
EXTENDS Naturals, Sequences, SequencesExt, FiniteSets

CONSTANTS
    Admins,
    TrustKeys,
    BoundWriters,
    TrustRetries,   \* maxRetries of appendRecordWithRetry
    MaxRecords      \* bound: records published

ASSUME TrustAssumption == TrustRetries \in Nat /\ MaxRecords \in Nat

VARIABLES
    ledger,     \* every record published, with its parent commit
    ref,        \* the trust ref; 0 when there is none
    admin,      \* the call of appendRecordWithRetry each administrator makes
    confirmed   \* the records whose publication was reported (history)

trustVars == <<ledger, ref, admin, confirmed>>

RecordTypes == {"KEY_ADD", "KEY_REVOKE", "WRITER_BIND_ADD", "WRITER_BIND_REVOKE"}
Subjects == [type : RecordTypes, key : TrustKeys, writer : BoundWriters, issuer : TrustKeys]
NoCall == [pc |-> "idle"]

TrustInit ==
    /\ ledger = <<>> /\ ref = 0
    /\ admin = [a \in Admins |-> NoCall]
    /\ confirmed = {}

-----------------------------------------------------------------------------
(* Who is trusted *)

NoTrust == [active |-> {}, revoked |-> {}, bindings |-> {}, errors |-> FALSE]

\* resolveIssuerKey: a key may add itself, everything else takes an active key.
IssuerKnown(ctx, r) == (r.type = "KEY_ADD" /\ r.issuer = r.key) \/ r.issuer \in ctx.active

Rejected(ctx) == [ctx EXCEPT !.errors = TRUE]

HandleKeyAdd(ctx, r) ==
    IF r.key \in ctx.revoked \cup ctx.active THEN Rejected(ctx)
    ELSE [ctx EXCEPT !.active = @ \cup {r.key}]

HandleKeyRevoke(ctx, r) ==
    IF r.key \notin ctx.active THEN Rejected(ctx)
    ELSE [ctx EXCEPT !.active = @ \ {r.key}, !.revoked = @ \cup {r.key}]

HandleBindAdd(ctx, r) ==
    IF r.key \notin ctx.active THEN Rejected(ctx)
    ELSE [ctx EXCEPT !.bindings = @ \cup {<<r.writer, r.key>>}]

HandleBindRevoke(ctx, r) ==
    IF <<r.writer, r.key>> \notin ctx.bindings THEN Rejected(ctx)
    ELSE [ctx EXCEPT !.bindings = @ \ {<<r.writer, r.key>>}]

\* A record that is not accepted changes nothing but the list of errors.
ProcessRecord(ctx, r) ==
    CASE ~IssuerKnown(ctx, r) -> Rejected(ctx)
      [] IssuerKnown(ctx, r) /\ r.type = "KEY_ADD" -> HandleKeyAdd(ctx, r)
      [] IssuerKnown(ctx, r) /\ r.type = "KEY_REVOKE" -> HandleKeyRevoke(ctx, r)
      [] IssuerKnown(ctx, r) /\ r.type = "WRITER_BIND_ADD" -> HandleBindAdd(ctx, r)
      [] IssuerKnown(ctx, r) /\ r.type = "WRITER_BIND_REVOKE" -> HandleBindRevoke(ctx, r)

BuildState(records) == FoldLeft(ProcessRecord, NoTrust, records)

\* readRecords: from the commit back by first parents, oldest first.
RecordsTo(tip) ==
    LET walk[i \in 0..Len(ledger)] ==
            IF i = 0 THEN <<>> ELSE Append(walk[ledger[i].parent], ledger[i].record)
    IN  walk[tip]

\* evaluateWriters, with the key that speaks for the writer.
TrustedThrough(w, k) ==
    LET state == BuildState(RecordsTo(ref))
    IN  ~state.errors /\ <<w, k>> \in state.bindings /\ k \in state.active

-----------------------------------------------------------------------------
(* Appending *)

\* An administrator signs a record after the tip it has read, whether or not it is right
\* for the chain up to there, and asks for it to be appended, with a function that signs
\* again or without.
AppendRecordWithRetry(a, record, resign) ==
    /\ admin[a].pc = "idle" /\ Len(ledger) < MaxRecords
    /\ admin' = [admin EXCEPT ![a] = [pc |-> "check", record |-> record, prev |-> ref,
                                      parent |-> 0, resign |-> resign, attempt |-> 1]]
    /\ UNCHANGED <<ledger, ref, confirmed>>

\* isRetryableConflict and the count of attempts.
RetryOrThrow(a, mismatch) ==
    admin' = [admin EXCEPT ![a] =
        IF (mismatch => @.resign) /\ @.attempt <= TrustRetries THEN [@ EXCEPT !.pc = "retry", !.parent = 0]
        ELSE NoCall]

\* appendRecord: the tip is read and must be the record this one was signed after.
CheckTip(a) ==
    /\ admin[a].pc = "check"
    /\ IF admin[a].prev = ref
       THEN admin' = [admin EXCEPT ![a].pc = "persist", ![a].parent = ref]
       ELSE RetryOrThrow(a, TRUE)
    /\ UNCHANGED <<ledger, ref, confirmed>>

Published(a) ==
    /\ Len(ledger) < MaxRecords
    /\ ledger' = Append(ledger, [record |-> admin[a].record, prev |-> admin[a].prev,
                                 parent |-> admin[a].parent])
    /\ ref' = Len(ledger) + 1

\* mutant: the ref is moved whatever it is
PersistBlindly(a) ==
    /\ admin[a].pc = "persist"
    /\ Published(a)
    /\ confirmed' = confirmed \cup {Len(ledger) + 1}
    /\ admin' = [admin EXCEPT ![a] = NoCall]

\* persistRecord: the ref moves if it is still where it was.
Persist(a) ==
    /\ admin[a].pc = "persist" /\ ref = admin[a].parent
    /\ Published(a)
    /\ confirmed' = confirmed \cup {Len(ledger) + 1}
    /\ admin' = [admin EXCEPT ![a] = NoCall]

\* The ref has moved, or Git reports a conflict though it has not.
PersistConflicts(a) ==
    /\ admin[a].pc = "persist"
    /\ RetryOrThrow(a, FALSE)
    /\ UNCHANGED <<ledger, ref, confirmed>>

\* The record is published and the answer is lost: the ref is seen to have moved.
PersistUnanswered(a) ==
    /\ admin[a].pc = "persist" /\ ref = admin[a].parent
    /\ Published(a)
    /\ RetryOrThrow(a, FALSE)
    /\ UNCHANGED confirmed

\* Another failure is thrown on; the caller may call again.
PersistFails(a) ==
    /\ admin[a].pc = "persist" /\ ref = admin[a].parent
    /\ admin' = [admin EXCEPT ![a] = NoCall]
    /\ UNCHANGED <<ledger, ref, confirmed>>

\* The fresh tip is read; the record is signed after it, or must be already.
Retry(a) ==
    /\ admin[a].pc = "retry"
    /\ admin' = [admin EXCEPT ![a] =
        IF @.resign \/ @.prev = ref THEN [@ EXCEPT !.pc = "check", !.prev = ref,
                                                   !.attempt = admin[a].attempt + 1]
        ELSE NoCall]
    /\ UNCHANGED <<ledger, ref, confirmed>>

-----------------------------------------------------------------------------
TrustNext ==
    \E a \in Admins :
        \/ \E r \in Subjects, resign \in BOOLEAN : AppendRecordWithRetry(a, r, resign)
        \/ CheckTip(a) \/ Retry(a)
        \/ Persist(a) \/ PersistConflicts(a) \/ PersistUnanswered(a) \/ PersistFails(a)

TrustSpec == TrustInit /\ [][TrustNext]_trustVars

-----------------------------------------------------------------------------
(* Properties *)

TrustRecord == [record : Subjects, prev : Nat, parent : Nat]

AppendCall ==
    [pc : {"check", "persist", "retry"}, record : Subjects, prev : Nat, parent : Nat,
     resign : BOOLEAN, attempt : Nat]

TrustTypeOK ==
    /\ ledger \in Seq(TrustRecord)
    /\ ref \in 0..Len(ledger)
    /\ confirmed \subseteq DOMAIN ledger
    /\ admin \in [Admins -> {NoCall} \cup AppendCall]

\* Once an administrator was told that a key is revoked, no evaluation trusts a writer
\* through that key again: not after racing appends, retries with another signature,
\* records published twice because their answer was lost, or an attempt to add the key
\* anew.  Where the chain has become contradictory nobody is trusted (TrustStateBuilder,
\* evaluateWriters).
RevocationHolds ==
    \A i \in confirmed : ledger[i].record.type = "KEY_REVOKE" =>
        \A w \in BoundWriters : ~TrustedThrough(w, ledger[i].record.key)
=============================================================================
