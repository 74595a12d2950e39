----------------------------- MODULE SpaceStatus -----------------------------
(****************************************************************************)
(* The life of a space in the coordinator: package spacestatus, the deleter *)
(* loop it runs, and the deletion log it writes.                            *)
(*                                                                          *)
(* Every request runs in a MongoDB transaction (db.Tx).  It is two steps    *)
(* here: Begin takes the snapshot and computes the outcome of the whole     *)
(* function, Commit publishes it.  Between the two other transactions       *)
(* commit; `missed` collects the documents they overwrote, and a            *)
(* transaction that writes one of those is aborted with a write conflict,   *)
(* while one that only read them commits: snapshot isolation.               *)
(*                                                                          *)
(* A deletion-log record has the ObjectID drawn when it is inserted into    *)
(* the transaction, so ids are ordered by snapshot and not by commit.  The  *)
(* records of one transaction share one id here.  The log holds two kinds   *)
(* of records: those of changes of status, inserted in the transaction that *)
(* changes the status, and those of changes of owner, which AclAddRecord    *)
(* inserts in no transaction, after it wrote the owner.                     *)
(****************************************************************************)
EXTENDS SpaceDocs

CONSTANTS
    Workers,        \* request handlers running at once
    Deleter,        \* the goroutine of the periodic deleter
    Periods,        \* deletion periods SpaceDelete requests ask for, in ticks
    NewOwners,      \* accounts a space's ACL may name as the new owner
    LegacySpaces,   \* spaces that may have a document of an older version
    MaxRequests,    \* bound: requests in a behaviour
    MaxFaults,      \* bound: failures, timeouts and crashes in a behaviour
    LastRequest,    \* bound: last time at which requests arrive
    MaxTime         \* bound: last value of the clock

Procs == Workers \cup {Deleter}

ASSUME ProcsAssumption == Deleter \notin Workers
ASSUME PeriodsAssumption == Periods \subseteq Int
ASSUME NewOwnersAssumption == NewOwners \subseteq Identities
ASSUME BoundsAssumption == /\ MaxRequests \in Nat /\ MaxFaults \in Nat
                            /\ LastRequest \in Nat /\ MaxTime \in Nat

VARIABLES
    spaces,         \* collection "spaces"
    statusRecords,      \* collection "deletionLog": records of changes of status
    ownershipRecords,   \* collection "deletionLog": records of changes of owner
    nextId,         \* the next ObjectID
    tx,             \* the open transaction of each process
    transfers,      \* AclAddRecord calls that found a new owner
    deleter,        \* the deleter's query, its clock and the ids its cursor holds
    now,            \* the clock
    requests,       \* requests received
    faults          \* faults happened

vars == <<spaces, statusRecords, ownershipRecords, nextId, tx, transfers, deleter, now,
          requests, faults>>

Ops == {"none", "NewStatus", "SpaceDelete", "AccountDelete", "AccountRevertDeletion",
        "ChangeStatus", "MakeShareable", "MakeUnshareable", "DeleteEntry"}

Record == [id : Nat, space : Spaces, group : Identities \cup {Nobody},
           status : LogStatuses]

\* A record of a change of owner is filed under the owner the space had before.
OwnershipRecord == [id : Nat, space : Spaces, group : Identities \cup {Nobody},
                    status : {"OwnershipChange"}]

\* What is left of an AclAddRecord that goes on to change the owner: the owner it read
\* with the status, the new one, its next step and, once drawn, the id of its record.
Transfer == [call : Nat, space : Spaces, identity : Identities \cup {Nobody},
             owner : NewOwners, at : {"change", "draw", "insert"}, id : Nat]

Tx == [op : Ops, who : Identities \cup {Nobody}, target : SUBSET Spaces, err : Errors,
       id : Nat, writes : [Spaces -> Doc], log : SUBSET Record, missed : SUBSET Spaces]

NoTx == [op |-> "none", who |-> Nobody, target |-> {}, err |-> "ok", id |-> 0,
         writes |-> NoWrites, log |-> {}, missed |-> {}]

Open(p) == tx[p].op # "none"

NoRun == [query |-> "idle", at |-> 0, batch |-> {}]

\* Collection "deletionLog".
deletionLog == statusRecords \cup ownershipRecords

TypeOK ==
    /\ spaces \in [Spaces -> Doc]
    /\ statusRecords \in SUBSET Record
    /\ ownershipRecords \in SUBSET OwnershipRecord
    /\ nextId \in Nat
    /\ tx \in [Procs -> Tx]
    /\ transfers \in SUBSET Transfer
    /\ deleter \in [query : {"idle", "old", "new"}, at : Nat, batch : SUBSET Spaces]
    /\ now \in Nat
    /\ requests \in 0 .. MaxRequests
    /\ faults \in 0 .. MaxFaults

\* Documents of an older version: no type, no toBeDeletedTimestamp, no record in
\* the deletion log.
LegacyDocs(s) ==
    {[NoDoc EXCEPT !.identity = i, !.status = "created"] : i \in Signers[s]}
    \cup {[NoDoc EXCEPT !.identity = i, !.status = "pending", !.deletionTimestamp = 1] :
            i \in Signers[s]}

\* Nothing is logged or under way.
Quiet ==
    /\ statusRecords = {}
    /\ ownershipRecords = {}
    /\ nextId = 1
    /\ tx = [p \in Procs |-> NoTx]
    /\ transfers = {}
    /\ deleter = NoRun
    /\ now = 1
    /\ requests = 0
    /\ faults = 0

Init ==
    /\ spaces \in [Spaces -> {NoDoc} \cup UNION {LegacyDocs(s) : s \in Spaces}]
    /\ \A s \in Spaces : spaces[s] \in
            {NoDoc} \cup (IF s \in LegacySpaces THEN LegacyDocs(s) ELSE {})
    /\ Quiet

----------------------------------------------------------------------------
(* Transactions: db.Tx.                                                     *)

Stamped(entry, id) ==
    [id |-> id, space |-> entry.space, group |-> entry.group, status |-> entry.status]

\* Start a transaction on the current documents and run its function to the end.
Begin(p, op, who, target, outcome) ==
    /\ ~Open(p)
    /\ tx' = [tx EXCEPT ![p] =
            [op |-> op, who |-> who, target |-> target, err |-> outcome.err, id |-> nextId,
             writes |-> outcome.writes, log |-> {Stamped(e, nextId) : e \in outcome.log},
             missed |-> {}]]
    /\ nextId' = IF outcome.log = {} THEN nextId ELSE nextId + 1

\* Faulty variant for LogMatchesStatus, StatusRecordsInIdOrder, RecordsNameTheOwner
\* and ImplementsLifecycle: the last writer wins.
ConflictIgnored(t) == FALSE

Conflict(t) == WrittenBy(t.writes) \cap t.missed # {}

\* Faulty variant for OutcomeStillHolds: no write conflict is noticed.
OverwriteUnseen(written) == tx

\* Documents that change keep their old value in the snapshots of open transactions.
Overwrite(written) ==
    [p \in Procs |-> IF Open(p) THEN [tx[p] EXCEPT !.missed = @ \cup written] ELSE tx[p]]

Commit(p) ==
    /\ Open(p)
    /\ tx[p].err = "ok"
    /\ ~Conflict(tx[p])
    /\ spaces' = Overlay(spaces, tx[p].writes)
    /\ statusRecords' = statusRecords \cup tx[p].log
    /\ tx' = [Overwrite(WrittenBy(tx[p].writes)) EXCEPT ![p] = NoTx]
    /\ UNCHANGED <<ownershipRecords, nextId, transfers, deleter, now, requests, faults>>

\* The function returned an error, or the server reports a write conflict.  db.Tx
\* does not retry: the caller gets the error.
Abort(p) ==
    /\ Open(p)
    /\ tx[p].err # "ok" \/ Conflict(tx[p])
    /\ tx' = [tx EXCEPT ![p] = NoTx]
    /\ UNCHANGED <<spaces, statusRecords, ownershipRecords, nextId, transfers, deleter,
                   now, requests, faults>>

\* A transaction that could commit is lost: a failing server, a closed connection.
LoseTx(p) ==
    /\ Open(p)
    /\ tx[p].err = "ok"
    /\ ~Conflict(tx[p])
    /\ faults < MaxFaults
    /\ faults' = faults + 1
    /\ tx' = [tx EXCEPT ![p] = NoTx]
    /\ UNCHANGED <<spaces, statusRecords, ownershipRecords, nextId, transfers, deleter,
                   now, requests>>

----------------------------------------------------------------------------
(* Requests.                                                                *)

Request(w, op, who, target, outcome) ==
    /\ requests < MaxRequests /\ now <= LastRequest
    /\ requests' = requests + 1
    /\ Begin(w, op, who, target, outcome)
    /\ UNCHANGED <<spaces, statusRecords, ownershipRecords, transfers, deleter, now,
                   faults>>

\* SpaceSign, once the header is validated against the caller.
RequestNewStatus(w) ==
    \E s \in Spaces, force \in BOOLEAN :
        \E who \in Signers[s] :
            Request(w, "NewStatus", who, {s}, NewStatus(spaces, s, who, force))

RequestSpaceDelete(w) ==
    \E s \in Spaces, who \in Identities, period \in Periods :
        Request(w, "SpaceDelete", who, {s}, SpaceDelete(spaces, s, who, now, period))

RequestAccountDelete(w) ==
    \E who \in Identities :
        Request(w, "AccountDelete", who, {}, AccountDelete(spaces, who, now))

RequestAccountRevertDeletion(w) ==
    \E who \in Identities :
        Request(w, "AccountRevertDeletion", who, {}, AccountRevertDeletion(spaces, who))

RequestChangeStatus(w) ==
    \E s \in Spaces, who \in Identities :
        \/ Request(w, "ChangeStatus", who, {s}, ChangeStatusRestore(spaces, s, who))
        \/ Request(w, "ChangeStatus", who, {s}, ChangeStatusDelete(spaces, s, who, now))

RequestMakeShareable(w) ==
    \E s \in Spaces :
        \E limit \in ShareLimits(DecodedType(spaces[s])) :
            Request(w, "MakeShareable", Nobody, {s}, MakeShareable(spaces, s, limit))

RequestMakeUnshareable(w) ==
    \E s \in Spaces :
        Request(w, "MakeUnshareable", Nobody, {s}, MakeUnshareable(spaces, s))

\* AclAddRecord reads the status first; the record it adds names a new owner.
RequestAclOwnerChange ==
    \E s \in Spaces, who \in NewOwners :
        /\ requests < MaxRequests /\ now <= LastRequest
        /\ requests' = requests + 1
        /\ spaces[s].status = "created"
        /\ spaces[s].shareable
        /\ spaces[s].identity # who
        /\ transfers' = transfers \cup
                {[call |-> requests', space |-> s, identity |-> spaces[s].identity,
                  owner |-> who, at |-> "change", id |-> 0]}
        /\ UNCHANGED <<spaces, statusRecords, ownershipRecords, nextId, tx, deleter,
                       now, faults>>

Advance(c, step, id) ==
    transfers' = (transfers \ {c}) \cup {[c EXCEPT !.at = step, !.id = id]}

\* Faulty variant for FormerOwnerComesFirst: a failed write of the owner is not noticed.
ChangeOwnerTried(c) ==
    /\ c.at = "change"
    /\ Advance(c, "draw", 0)
    /\ UNCHANGED <<spaces, statusRecords, ownershipRecords, nextId, tx, deleter, now,
                   requests, faults>>

\* ... and later writes the owner, whatever became of the space, in no transaction.
ChangeOwner(c) ==
    /\ c.at = "change"
    /\ Advance(c, "draw", 0)
    /\ spaces' = [spaces EXCEPT ![c.space].identity = c.owner]
    /\ tx' = Overwrite(IF spaces[c.space].identity = c.owner THEN {} ELSE {c.space})
    /\ UNCHANGED <<statusRecords, ownershipRecords, nextId, deleter, now, requests,
                   faults>>

\* AddOwnershipChange: the driver draws the id of the record and sends the insert ...
DrawOwnershipId(c) ==
    /\ c.at = "draw"
    /\ Advance(c, "insert", nextId)
    /\ nextId' = nextId + 1
    /\ UNCHANGED <<spaces, statusRecords, ownershipRecords, tx, deleter, now, requests,
                   faults>>

\* ... which runs in no transaction: the record is visible when the server has it.
InsertOwnershipChange(c) ==
    /\ c.at = "insert"
    /\ transfers' = transfers \ {c}
    /\ ownershipRecords' = ownershipRecords \cup
            {[id |-> c.id, space |-> c.space, group |-> c.identity,
              status |-> "OwnershipChange"]}
    /\ UNCHANGED <<spaces, statusRecords, nextId, tx, deleter, now, requests, faults>>

\* The handler fails before one of these steps: the owner or its record is not written.
LoseTransfer(c) ==
    /\ faults < MaxFaults
    /\ faults' = faults + 1
    /\ transfers' = transfers \ {c}
    /\ UNCHANGED <<spaces, statusRecords, ownershipRecords, nextId, tx, deleter, now,
                   requests>>

----------------------------------------------------------------------------
(* The deleter: spaceDeleter.delete, every runSeconds.                      *)

\* The clock is read once, both bounds are computed from it; the cursor of the first
\* query.
DeleterQueryOld ==
    /\ deleter.query = "idle"
    /\ deleter' = [query |-> "old", at |-> now, batch |-> OldPending(spaces, now)]
    /\ UNCHANGED <<spaces, statusRecords, ownershipRecords, nextId, tx, transfers, now,
                   requests, faults>>

\* The first cursor is exhausted: the second query.
DeleterQueryNew ==
    /\ deleter.query = "old"
    /\ deleter.batch = {}
    /\ ~Open(Deleter)
    /\ deleter' = [deleter EXCEPT !.query = "new", !.batch = NewPending(spaces, deleter.at)]
    /\ UNCHANGED <<spaces, statusRecords, ownershipRecords, nextId, tx, transfers, now,
                   requests, faults>>

\* One entry: setStatus by the id alone, the rest of the entry is not looked at.
\* An error is logged and the loop goes on.
DeleterProcessEntry(s) ==
    /\ s \in deleter.batch
    /\ deleter' = [deleter EXCEPT !.batch = @ \ {s}]
    /\ Begin(Deleter, "DeleteEntry", Nobody, {s}, DeleteEntry(spaces, s))
    /\ UNCHANGED <<spaces, statusRecords, ownershipRecords, transfers, now, requests,
                   faults>>

DeleterDone ==
    /\ deleter.query = "new"
    /\ deleter.batch = {}
    /\ ~Open(Deleter)
    /\ deleter' = NoRun
    /\ UNCHANGED <<spaces, statusRecords, ownershipRecords, nextId, tx, transfers, now,
                   requests, faults>>

\* cur.Next fails and reads like the end of the cursor; its error is not looked at.
DeleterCursorFails ==
    /\ deleter.batch # {}
    /\ ~Open(Deleter)
    /\ faults < MaxFaults
    /\ faults' = faults + 1
    /\ deleter' = [deleter EXCEPT !.batch = {}]
    /\ UNCHANGED <<spaces, statusRecords, ownershipRecords, nextId, tx, transfers, now,
                   requests>>

\* deletionTimeout passes, or a query fails: the run ends where it is.
DeleterGiveUp ==
    /\ deleter.query # "idle"
    /\ faults < MaxFaults
    /\ faults' = faults + 1
    /\ deleter' = NoRun
    /\ tx' = [tx EXCEPT ![Deleter] = NoTx]
    /\ UNCHANGED <<spaces, statusRecords, ownershipRecords, nextId, transfers, now,
                   requests>>

----------------------------------------------------------------------------
(* The environment.                                                         *)

Tick ==
    /\ now < MaxTime
    /\ now' = now + 1
    /\ UNCHANGED <<spaces, statusRecords, ownershipRecords, nextId, tx, transfers,
                   deleter, requests, faults>>

\* The coordinator stops and starts again: MongoDB drops its open transactions,
\* what it kept in memory is gone.
Crash ==
    /\ faults < MaxFaults
    /\ faults' = faults + 1
    /\ tx' = [p \in Procs |-> NoTx]
    /\ transfers' = {}
    /\ deleter' = NoRun
    /\ UNCHANGED <<spaces, statusRecords, ownershipRecords, nextId, now, requests>>

Next ==
    \/ \E w \in Workers : \/ RequestNewStatus(w)
                          \/ RequestSpaceDelete(w)
                          \/ RequestAccountDelete(w)
                          \/ RequestAccountRevertDeletion(w)
                          \/ RequestChangeStatus(w)
                          \/ RequestMakeShareable(w)
                          \/ RequestMakeUnshareable(w)
    \/ RequestAclOwnerChange
    \/ \E c \in transfers : \/ ChangeOwner(c)
                            \/ DrawOwnershipId(c)
                            \/ InsertOwnershipChange(c)
                            \/ LoseTransfer(c)
    \/ \E p \in Procs : Commit(p) \/ Abort(p) \/ LoseTx(p)
    \/ DeleterQueryOld
    \/ DeleterQueryNew
    \/ \E s \in Spaces : DeleterProcessEntry(s)
    \/ DeleterDone
    \/ DeleterCursorFails
    \/ DeleterGiveUp
    \/ Tick
    \/ Crash

Spec == Init /\ [][Next]_vars

\* The clock runs, a transaction ends one way or the other, and the periodic loop
\* goes on.  Nothing is assumed of the clients.
Fairness ==
    /\ WF_vars(Tick)
    /\ \A p \in Procs : WF_vars(Commit(p) \/ Abort(p))
    /\ WF_vars(DeleterQueryOld)
    /\ WF_vars(DeleterQueryNew)
    /\ WF_vars(\E s \in Spaces : DeleterProcessEntry(s))
    /\ WF_vars(DeleterDone)

FairSpec == Spec /\ Fairness

----------------------------------------------------------------------------
(* Properties.                                                              *)

RecordsOf(s) == {r \in statusRecords : r.space = s}

IsLast(r) == \A q \in RecordsOf(r.space) : q.id <= r.id

\* The deletion log tells the truth: of the status records of a space the one with the
\* highest id, which is where a consumer that reads the log in id order ends, names the
\* status its document has; a space without one never left "created" (or is older than
\* the log).  Ids are drawn when a transaction inserts the record (deletionlog.Add), not
\* when it commits, so this rests on write conflicts between setStatusTx calls.
LogMatchesStatus ==
    \A s \in Spaces :
        /\ \A r \in RecordsOf(s) : IsLast(r) => r.status = LogStatus(spaces[s].status)
        /\ RecordsOf(s) = {} =>
              \/ spaces[s].status \in {"absent", "created"}
              \/ spaces[s].status = "pending" /\ s \in LegacySpaces

\* A consumer that reads page after page never meets a status record of a space that it
\* should have applied before one it already has: the status records of one space become
\* visible in the order of their ids, although those of different spaces, and records of
\* changes of owner, do not.
StatusRecordsInIdOrder ==
    [][\A r \in statusRecords' \ statusRecords : \A q \in RecordsOf(r.space) : q.id < r.id]_vars

LoggedMoves == {<<"created", "pending">>, <<"pending", "created">>,
                <<"pending", "deleted">>, <<"deleted", "created">>}

LegalMoves == LoggedMoves \cup {<<"absent", "created">>}

\* No interleaving of handlers and deleter takes a space from "created" to "deleted",
\* or from "deleted" to "pending", or makes its document disappear: each outcome is
\* computed from an older snapshot than the one it is published on.
StatusMovesLegally ==
    [][\A s \in Spaces : spaces[s].status # spaces'[s].status =>
            <<spaces[s].status, spaces'[s].status>> \in LegalMoves]_vars

Deadline(doc) == IF doc.toBeDeletedTimestamp = Missing
                 THEN doc.deletionTimestamp + DeletionPeriod
                 ELSE doc.toBeDeletedTimestamp

DeadlinePassed(s) == Deadline(spaces[s]) <= now

\* A space is deleted before its deadline only if it had been restored: the deleter
\* acts on ids its cursor read earlier and looks only at the status again, which is
\* enough for a space that is deleted once.
NeverRestoredNeverEarly ==
    \A s \in Spaces :
        spaces[s].status = "deleted" /\ ~DeadlinePassed(s) =>
            \E r \in RecordsOf(s) : r.status = "Ok"

\* The deletion date a client is shown is computed from the configured period, the
\* deleter goes by the date stored with the deletion.  The two differ by what the
\* period of some SpaceDelete differs from the configured one, and by no more: both
\* are of the same deletion, not of one that was reverted.
ShownIsOfLastDeletion ==
    \A s \in Spaces : spaces[s].status = "pending" =>
        Deadline(spaces[s]) - Shown(spaces[s]) \in {0} \cup {p - DeletionPeriod : p \in Periods}

\* The deadline of a pending deletion stays what it is until the deletion is reverted or
\* carried out, and so does the date a client is shown: a second deletion of the space, of
\* its account or by the old API neither puts it off nor brings it forward.
DeadlineIsFixed ==
    [][\A s \in Spaces : spaces[s].status = "pending" /\ spaces'[s].status = "pending" =>
            /\ Deadline(spaces'[s]) = Deadline(spaces[s])
            /\ Shown(spaces'[s]) = Shown(spaces[s])]_vars

\* A SpaceSign that is about to create or restore a space of an account whose
\* deletion is pending started before the account was deleted: whoever calls after
\* AccountDelete has returned is refused.
AccountCheckIsFresh ==
    \A w \in Workers :
        tx[w].op = "NewStatus" /\ WrittenBy(tx[w].writes) # {} =>
            AccountSpaces(spaces, tx[w].who, "pending") \subseteq tx[w].missed

\* AccountDelete leaves none of the account's spaces created and AccountRevertDeletion
\* none of them pending, but for documents another commit wrote in the meantime: the
\* handlers move what their query returned in the snapshot, one document at a time.
AccountMovesWhole ==
    [][\A w \in Workers : Commit(w) =>
        /\ tx[w].op = "AccountDelete" =>
                Owned(spaces', tx[w].who, "created") \subseteq tx[w].missed
        /\ tx[w].op = "AccountRevertDeletion" =>
                Owned(spaces', tx[w].who, "pending") \subseteq tx[w].missed]_vars

\* A NewStatus or ChangeStatus that takes an account over its limit overlapped some
\* other commit: checkLimitTx counts the documents of the snapshot.  Requests that
\* come one after the other stay within the limit, AccountRevertDeletion apart.
LimitCheckIsFresh ==
    \A w \in Workers :
        /\ tx[w].op \in {"NewStatus", "ChangeStatus"}
        /\ \E s \in Spaces : tx[w].writes[s].status = "created"
        /\ tx[w].missed = {}
        => WithinLimit(Overlay(spaces, tx[w].writes), tx[w].who)

\* A consumer that reads the log in id order has met all status records that were filed
\* under the former owner of a space when it meets the record of the change of owner:
\* those that come later name the new one.  The owner is written, and its record
\* inserted, in no transaction; a transaction that read the former owner draws its ids
\* earlier or does not commit.  Accounts that may get the space back are left out.
FormerOwnerComesFirst ==
    \A q \in ownershipRecords : \A r \in RecordsOf(q.space) :
        r.group = q.group /\ q.group \notin NewOwners => r.id < q.id

\* As long as no commit overwrote a document that a transaction writes, what the
\* transaction is about to do to it is still right: its log records are younger than
\* the status records the space has, and the change of status is a legal one from
\* where the space is now.  The fact about snapshots and write conflicts that the others rest on.
OutcomeStillHolds ==
    \A p \in Procs : \A s \in WrittenBy(tx[p].writes) \ tx[p].missed :
        /\ \A q \in RecordsOf(s) : \A r \in tx[p].log : q.id < r.id
        /\ IF tx[p].log # {}
           THEN <<spaces[s].status, tx[p].writes[s].status>> \in LoggedMoves
           ELSE \/ tx[p].writes[s].status = spaces[s].status
                \/ spaces[s].status = "absent" /\ tx[p].writes[s].status = "created"

\* A process without a transaction holds nothing of an earlier one.
IdleIsClean == \A p \in Procs : ~Open(p) => tx[p] = NoTx

\* Ids come from one counter, one for all records of a transaction.
IdsAreDrawn ==
    /\ \A r \in statusRecords : r.id < nextId
    /\ \A p \in Procs : \A r \in tx[p].log : r.id = tx[p].id /\ r.id < nextId

\* A transaction that logs anything logs each document it writes, with its status.
LogCoversWrites ==
    \A p \in Procs :
        /\ \A r \in tx[p].log :
              /\ r.space \in WrittenBy(tx[p].writes)
              /\ r.status = LogStatus(tx[p].writes[r.space].status)
        /\ tx[p].log # {} =>
              \A s \in WrittenBy(tx[p].writes) : \E r \in tx[p].log : r.space = s

AbsentIsSilent == \A s \in Spaces : ~Has(spaces, s) => RecordsOf(s) = {}

\* The inductive invariant behind LogMatchesStatus and the two action properties.
IInv ==
    /\ TypeOK
    /\ IdleIsClean
    /\ IdsAreDrawn
    /\ LogCoversWrites
    /\ AbsentIsSilent
    /\ OutcomeStillHolds
    /\ LogMatchesStatus

\* Every pending deletion comes to an end, restored by its owner or carried out, in
\* spite of crashes, lost transactions and runs that time out: what a run of the
\* deleter leaves behind the next one finds.  The exception is a deadline of zero or
\* less, which a negative period gives: no query of the deleter returns it.
PendingIsResolved ==
    \A s \in Spaces :
        spaces[s].status = "pending" /\ Deadline(spaces[s]) > 0 ~> spaces[s].status # "pending"

----------------------------------------------------------------------------
(* Refinement: with transactions and ids hidden, and the last status record  *)
(* of each space read as what was announced of it, the coordinator is a      *)
(* SpaceLifecycle.                                                           *)

Announced(s) ==
    LET last == CHOOSE r \in RecordsOf(s) : IsLast(r)
    IN  IF RecordsOf(s) = {} THEN "silent"
        ELSE CHOOSE phase \in Phases \ {"absent"} : LogStatus(phase) = last.status

Lifecycle == INSTANCE SpaceLifecycle WITH
    phase     <- [s \in Spaces |-> spaces[s].status],
    announced <- [s \in Spaces |-> Announced(s)]

\* Every step of handlers, deleter and crashes is one atomic move of SpaceLifecycle,
\* or none: an account's spaces move together, and what the log announces changes in
\* the step that changes the spaces.
ImplementsLifecycle == Lifecycle!Spec

----------------------------------------------------------------------------
(* What tests and comments say, and the code does not do: see the README.   *)

\* spacestatus_test.go "new status space limit", "restore status limit": a NewStatus or
\* ChangeStatus that would take the account over SpaceLimit created spaces is refused.
LimitIsKept ==
    [][\A w \in Workers :
          /\ Commit(w)
          /\ tx[w].op \in {"NewStatus", "ChangeStatus"}
          /\ \E s \in Spaces : tx[w].writes[s].status = "created"
          => WithinLimit(spaces', tx[w].who)]_vars

\* spacestatus_test.go "force create": a NewStatus that returns no error, and that no
\* other commit overlapped, leaves the space created.
NewStatusCreates ==
    [][\A w \in Workers : Commit(w) /\ tx[w].op = "NewStatus" /\ tx[w].missed = {} =>
            \A s \in tx[w].target : spaces'[s].status = "created"]_vars

\* spacestatus_test.go "revert deletion": while the deletion of an account is pending
\* it gets no created space.
NoCreatedSpaceInPendingAccount ==
    \A i \in Identities :
        AccountSpaces(spaces, i, "pending") # {} => Owned(spaces, i, "created") = {}

\* spacedeleter.go: the deleter removes spaces whose toBeDeletedTimestamp has passed.
NeverDeletedEarly ==
    \A s \in Spaces : spaces[s].status = "deleted" => DeadlinePassed(s)

=============================================================================
