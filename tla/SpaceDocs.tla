------------------------------ MODULE SpaceDocs ------------------------------
(****************************************************************************)
(* The documents of the coordinator's "spaces" collection and what each     *)
(* operation of package spacestatus computes from a snapshot of them: the   *)
(* error it returns, the documents it writes, the deletion-log records it   *)
(* inserts.  The operators are pure; SpaceStatus makes a state machine of   *)
(* them by running each one in a MongoDB transaction.                       *)
(****************************************************************************)
EXTENDS Integers, FiniteSets

CONSTANTS
    Spaces,             \* space ids
    Identities,         \* accounts
    Nobody,             \* the empty identity: no owner, or no owner filter
    TypeOf,             \* [Spaces -> type]: what VerifySpaceHeader reads in the header
    Signers,            \* [Spaces -> accounts whose SpaceSign passes the header checks]
    SpaceLimit,         \* config spaceLimit, <= 0 turns the check off
    SharedLimits,       \* limits of shared spaces that accounts have or had
    OneToOneLimit,      \* the limit of one-to-one spaces
    DeletionPeriod      \* config deletionPeriodDays, in ticks

HeaderTypes == {"personal", "tech", "regular", "onetoone"}

\* Documents written by coordinators of older versions carry no type.
Types == HeaderTypes \cup {"missing"}

\* SpaceStatusDeletionStarted is never assigned.
Phases == {"absent", "created", "pending", "deleted"}

\* A timestamp field the document does not have.
Missing == -1

ASSUME NobodyAssumption == Nobody \notin Identities
ASSUME HeaderAssumption == /\ TypeOf \in [Spaces -> HeaderTypes]
                           /\ Signers \in [Spaces -> SUBSET Identities]
ASSUME LimitsAssumption == /\ SpaceLimit \in Int
                           /\ SharedLimits \subseteq Nat
                           /\ OneToOneLimit \in Nat
                           /\ DeletionPeriod \in Nat

Doc == [identity : Identities \cup {Nobody}, status : Phases, type : Types,
        shareable : BOOLEAN, deletionTimestamp : Int, toBeDeletedTimestamp : Int]

\* No document; as an entry of a transaction's writes, a document left alone.
NoDoc == [identity |-> Nobody, status |-> "absent", type |-> "missing",
          shareable |-> FALSE, deletionTimestamp |-> 0,
          toBeDeletedTimestamp |-> Missing]

Has(db, s) == db[s].status # "absent"

NoWrites == [s \in Spaces |-> NoDoc]

WrittenBy(writes) == {s \in Spaces : Has(writes, s)}

\* A snapshot as the transaction that wrote `writes` reads it.
Overlay(db, writes) == [s \in Spaces |-> IF Has(writes, s) THEN writes[s] ELSE db[s]]

----------------------------------------------------------------------------
(* Queries.                                                                 *)

\* find({identity: who, status: phase})
Owned(db, who, phase) == {s \in Spaces : db[s].identity = who /\ db[s].status = phase}

\* The account's tech space; a document without a type passes for one.
AccountSpaces(db, who, phase) ==
    {s \in Owned(db, who, phase) : db[s].type \in {"tech", "missing"}}

\* Decoding a document without a type leaves the zero value, personal.
DecodedType(doc) == IF doc.type = "missing" THEN "personal" ELSE doc.type

WithinLimit(db, who) ==
    SpaceLimit <= 0 \/ Cardinality(Owned(db, who, "created")) <= SpaceLimit

\* What GetLimitsBySpace may have answered the handler before MakeShareable starts its
\* transaction: for a regular space the limit the account had at that time, which
\* SetLimits changes and which is another one once the space has another owner.
ShareLimits(type) ==
    CASE type \in {"personal", "tech"} -> {0}
      [] type = "onetoone"             -> {OneToOneLimit}
      [] OTHER                         -> SharedLimits

SharedLike(db, doc) ==
    {s \in Owned(db, doc.identity, "created") :
        db[s].type = DecodedType(doc) /\ db[s].shareable}

\* Faulty variant for PendingIsResolved: a missing timestamp taken for a zero one.
OldPendingZero(db, now) ==
    {s \in Spaces : /\ db[s].status = "pending"
                    /\ db[s].toBeDeletedTimestamp = 0
                    /\ db[s].deletionTimestamp > 0
                    /\ db[s].deletionTimestamp <= now - DeletionPeriod}

\* Documents of older versions: no toBeDeletedTimestamp, the deadline is the
\* deletion timestamp plus the configured period.
OldPending(db, now) ==
    {s \in Spaces : /\ db[s].status = "pending"
                    /\ db[s].toBeDeletedTimestamp = Missing
                    /\ db[s].deletionTimestamp > 0
                    /\ db[s].deletionTimestamp <= now - DeletionPeriod}

\* Faulty variant for NeverRestoredNeverEarly: no upper bound on the deadline.
NewPendingAnyTime(db, now) ==
    {s \in Spaces : /\ db[s].status = "pending"
                    /\ db[s].toBeDeletedTimestamp > 0}

NewPending(db, now) ==
    {s \in Spaces : /\ db[s].status = "pending"
                    /\ db[s].toBeDeletedTimestamp > 0
                    /\ db[s].toBeDeletedTimestamp <= now}

----------------------------------------------------------------------------
(* Outcomes: what the function passed to db.Tx returns.                     *)

Errors == {"ok", "ErrUnexpected", "ErrSpaceNotExists", "ErrSpaceIsCreated",
           "ErrSpaceDeletionPending", "ErrSpaceIsDeleted", "ErrAccountIsDeleted",
           "ErrSpaceLimitReached"}

\* The statuses of records that a change of status inserts.  Records of a fourth one,
\* OwnershipChange, are not written by package spacestatus: see SpaceStatus.
LogStatuses == {"Ok", "RemovePrepare", "Remove"}

LogStatus(phase) == CASE phase = "created" -> "Ok"
                      [] phase = "pending" -> "RemovePrepare"
                      [] OTHER             -> "Remove"

Entry == [space : Spaces, group : Identities \cup {Nobody}, status : LogStatuses]

Outcome == [err : Errors, writes : [Spaces -> Doc], log : SUBSET Entry]

Fail(err) == [err |-> err, writes |-> NoWrites, log |-> {}]

Nothing == Fail("ok")

Write(s, doc) == [Nothing EXCEPT !.writes = [NoWrites EXCEPT ![s] = doc]]

\* A change of status and the timestamps modifyStatus sets with it.
ToCreated == [status |-> "created", at |-> 0, due |-> 0]
ToPending(at, period) == [status |-> "pending", at |-> at, due |-> at + period]

\* Faulty variant for TypeOK: SpaceStatusDeletionStarted in place of SpaceStatusDeleted.
ToDeletionStarted == [status |-> "deletionStarted", at |-> 0, due |-> 0]

ToDeleted == [status |-> "deleted", at |-> 0, due |-> 0]

\* Faulty variant for ShownIsOfLastDeletion: the first deletion's timestamp is kept.
ModifiedKeepsFirst(doc, change) ==
    IF change.status = "deleted"
    THEN [doc EXCEPT !.status = "deleted"]
    ELSE [doc EXCEPT !.status = change.status,
                     !.deletionTimestamp = IF @ > 0 THEN @ ELSE change.at,
                     !.toBeDeletedTimestamp = change.due]

Modified(doc, change) ==
    IF change.status = "deleted"
    THEN [doc EXCEPT !.status = "deleted"]
    ELSE [doc EXCEPT !.status = change.status,
                     !.deletionTimestamp = change.at,
                     !.toBeDeletedTimestamp = change.due]

\* Every change of status inserts its deletion-log record in the same
\* transaction, under the owner the document has.
SetStatusAll(db, S, change) ==
    [err    |-> "ok",
     writes |-> [s \in Spaces |-> IF s \in S THEN Modified(db[s], change) ELSE NoDoc],
     log    |-> {[space |-> s, group |-> db[s].identity,
                  status |-> LogStatus(change.status)] : s \in S}]

IncorrectStatus(doc) == CASE doc.status = "absent"  -> "ErrSpaceNotExists"
                          [] doc.status = "created" -> "ErrSpaceIsCreated"
                          [] doc.status = "pending" -> "ErrSpaceDeletionPending"
                          [] OTHER                  -> "ErrSpaceIsDeleted"

\* Faulty variant for StatusMovesLegally and DeadlineIsFixed: the update does not filter on the old status.
SetStatusAnyPhase(db, s, who, change, old) ==
    IF Has(db, s) /\ who \in {Nobody, db[s].identity}
    THEN SetStatusAll(db, {s}, change)
    ELSE Fail(IncorrectStatus(db[s]))

\* findOneAndUpdate({_id: s, status: old, identity: who}): the deleter names no owner.
SetStatusTx(db, s, who, change, old) ==
    IF db[s].status = old /\ who \in {Nobody, db[s].identity}
    THEN SetStatusAll(db, {s}, change)
    ELSE Fail(IncorrectStatus(db[s]))

----------------------------------------------------------------------------
(* Operations.                                                              *)

NewDoc(s, who) ==
    [NoDoc EXCEPT !.identity = who, !.status = "created", !.type = TypeOf[s]]

\* Faulty variant for LimitCheckIsFresh: the limit is not looked at.
Unlimited(db, who, outcome) == outcome

\* An outcome that stands only if the account stays within its limit.
Limited(db, who, outcome) ==
    IF WithinLimit(Overlay(db, outcome.writes), who)
    THEN outcome
    ELSE Fail("ErrSpaceLimitReached")

\* A forced NewStatus of a space that exists drops the error of its change of
\* status: checkLimitTx overwrites it.
Revived(db, s, who) ==
    Limited(db, who, [SetStatusTx(db, s, who, ToCreated, db[s].status) EXCEPT !.err = "ok"])

\* Faulty variant for AccountCheckIsFresh: the account's status is not looked up.
NewStatusNoAccountCheck(db, s, who, force) ==
    IF db[s].status = "created" THEN Nothing
    ELSE IF ~Has(db, s) THEN Limited(db, who, Write(s, NewDoc(s, who)))
    ELSE IF ~force THEN Fail("ErrSpaceIsDeleted")
    ELSE Revived(db, s, who)

NewStatus(db, s, who, force) ==
    IF AccountSpaces(db, who, "pending") # {} THEN Fail("ErrAccountIsDeleted")
    ELSE IF db[s].status = "created" THEN Nothing
    ELSE IF ~Has(db, s) THEN Limited(db, who, Write(s, NewDoc(s, who)))
    ELSE IF ~force THEN Fail("ErrSpaceIsDeleted")
    ELSE Revived(db, s, who)

SpaceDelete(db, s, who, now, period) ==
    IF ~Has(db, s) THEN Fail("ErrSpaceNotExists")
    ELSE IF db[s].type \in {"tech", "onetoone"} THEN Fail("ErrUnexpected")
    ELSE SetStatusTx(db, s, who, ToPending(now, period), "created")

\* Faulty variant for AccountMovesWhole: only the tech space is deleted.
AccountDeleteTechOnly(db, who, now) ==
    IF AccountSpaces(db, who, "created") = {}
    THEN Fail("ErrAccountIsDeleted")
    ELSE SetStatusAll(db, AccountSpaces(db, who, "created"), ToPending(now, DeletionPeriod))

AccountDelete(db, who, now) ==
    IF AccountSpaces(db, who, "created") = {}
    THEN Fail("ErrAccountIsDeleted")
    ELSE SetStatusAll(db, Owned(db, who, "created"), ToPending(now, DeletionPeriod))

AccountRevertDeletion(db, who) ==
    IF AccountSpaces(db, who, "pending") = {}
    THEN Fail("ErrUnexpected")
    ELSE SetStatusAll(db, Owned(db, who, "pending"), ToCreated)

\* The deprecated ChangeStatus, one operator per branch of its switch.
ChangeStatusRestore(db, s, who) ==
    LET outcome == SetStatusTx(db, s, who, ToCreated, "pending")
    IN  IF outcome.err = "ok" THEN Limited(db, who, outcome) ELSE outcome

ChangeStatusDelete(db, s, who, now) ==
    SetStatusTx(db, s, who, ToPending(now, DeletionPeriod), "created")

\* The shared spaces of the owner, one kind at a time, are counted in the snapshot
\* and compared with the limit the handler brings along.
MakeShareable(db, s, limit) ==
    IF ~Has(db, s) THEN Fail("ErrSpaceNotExists")
    ELSE IF db[s].shareable THEN Nothing
    ELSE IF Cardinality(SharedLike(db, db[s])) >= limit
    THEN Fail("ErrSpaceLimitReached")
    ELSE Write(s, [db[s] EXCEPT !.shareable = TRUE])

MakeUnshareable(db, s) ==
    IF ~Has(db, s) THEN Fail("ErrSpaceNotExists")
    ELSE IF ~db[s].shareable THEN Nothing
    ELSE Write(s, [db[s] EXCEPT !.shareable = FALSE])

\* convertStatus: the deletion date a client is shown.
Shown(doc) == IF doc.status = "created" THEN 0 ELSE doc.deletionTimestamp + DeletionPeriod

\* What the deleter asks of setStatus for one entry of its cursor.
DeleteEntry(db, s) == SetStatusTx(db, s, Nobody, ToDeleted, "pending")

=============================================================================
