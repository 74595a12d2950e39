# Verification of any-sync-coordinator

TLA+ models of the any-sync coordinator (the Go code in `src/`), the TLC runs that check
them on small instances, and proofs that TLAPS checks for every instance.

The coordinator registers spaces (`SpaceSign`), deletes them after a grace period, tells
other nodes about it through a deletion log, orders changes of a space's ACL, keeps account
limits and network configurations, and passes messages between accounts (inbox). Its state
is in MongoDB; requests run concurrently; a periodic goroutine deletes what is due.

## 1. Inventory

| Component | State | Operations | Talks to | Model |
|---|---|---|---|---|
| `spacestatus` service | collection `spaces`: owner, status, type, dates, shareable | `NewStatus`, `SpaceDelete`, `AccountDelete`, `AccountRevertDeletion`, `ChangeStatus`, `MakeShareable`, `MakeUnshareable`, `ChangeOwner` | `db.Tx`, `deletionlog.Add`, `accountlimit` | `SpaceDocs`, `SpaceStatus` |
| space deleter | cursor of a run, in memory | `delete` every `runSeconds`, at most 100 s | `spaces`, `setStatus` | `SpaceStatus` |
| change verifier | none | signature checks of headers and payloads | none | constants of `SpaceDocs` |
| `db` | MongoDB client | `Tx`: start, run, commit or abort, no retry | MongoDB | `SpaceStatus` |
| `deletionlog` | collection `deletionLog` | `Add`, `AddOwnershipChange`, `GetAfter` | read by other nodes | `SpaceStatus`, `LogPaging`, `DeletionLog`, `AclRecords` |
| `coordinator`, rpc handlers | none | one handler per rpc; `AclAddRecord` and the share handlers chain several components | all | `AclRecords` and the module of each component |
| `accountlimit` | collection of limits, file nodes | `SetLimits`, `GetLimits`, `GetLimitsBySpace` | file node | `AccountLimit`, `ShareLimits` in `SpaceDocs` |
| `subscribe` | map of streams, mutex, goroutine per stream | `AddStream`, `NotifyAllPeers`, `waitCloseStream`, `Close` | client streams | `Subscribe` |
| `inbox` | collection `inbox`, change stream | `InboxAddMessage`, `InboxFetch`, `streamListener` | `subscribe` | `Inbox` |
| `acleventlog` | collection | `AddLog`, `GetAfter` | read by nodes | `AclEventLog`, `LogPaging`, `AclRecords` |
| `coordinatorlog` | collection | `SpaceReceipt` (insert only) | nobody reads it | `AclEventLog` |
| `nodeconfsource` | collection | `Add` (by `confapply`), `GetLast` | nodes, clients | `NodeConf` |
| `identityrepo` | collection | `Push`, `Pull`, `Delete` | clients | `IdentityRepo`, `IdentityStore` |
| `account`, `config`, `cmd` | none after start | wiring | | not modelled |

What is hard, and what makes the parts correct:

- **Transactions and snapshots.** Handlers and deleter overlap; a transaction acts on an old
  snapshot; only write conflicts stop it; errors are not retried. Document and log must
  still agree, and statuses move only along legal moves. Checks that read what another
  transaction writes (limits, pending account) are exposed to write skew.
- **Ids before commits.** Log records, events, messages and configurations get their ids
  when they are inserted, and become visible later: a reader that pages by id may pass one.
  The deletion log has two kinds of writers, transactions and a plain insert.
- **Answers of others.** The ACL service answers from what it knows, which may be old; a
  limit is read before the transaction that goes by it.
- **Time.** Deadlines, a deleter that works from a cursor read earlier, documents of older
  versions with another form of deadline, runs that time out, restarts.
- **Calls in a row without a transaction.** `AclAddRecord` reads a status and writes ACL,
  event log, owner and ownership record one by one; `MakeSpaceUnshareable` looks at the ACL
  and writes the document; `SetLimits` writes to two systems. Any of these writes may be the
  last that succeeds, and calls overlap.
- **Streams.** Registrations are made, refused, replaced and removed by four different
  parties under one mutex that a slow client can hold.
- **Reads that last.** A cursor goes through documents that change; coordinators poll at
  different times and a client asks one after another.

`PROJECT.json` lists each such place as a hazard, with its line and the properties that
cover it.

## 2. Modules

| Module | Models |
|---|---|
| `SpaceDocs` | The documents, the queries, and each operation of `spacestatus` as a pure operator from a snapshot to an outcome (error, documents written, log records). |
| `SpaceStatus` | The state machine: handlers that run these operators in transactions, the owner change and its record, the deleter, clock, faults. |
| `SpaceLifecycle` | The abstract specification that `SpaceStatus` implements. |
| `LogPaging` | `GetAfter`, which both logs have in common. |
| `DeletionLog` | `SpaceStatus` with a node that follows the deletion log page by page. |
| `AclRecords` | `AclAddRecord`, `MakeSpaceShareable`, `MakeSpaceUnshareable`, over document, ACL, event log and ownership records. |
| `AccountLimit` | `SetLimits` over file node and database. |
| `AclEventLog` | The ACL event log, its writers and readers, and the coordinator log. |
| `NodeConf` | Network configurations on their way from the operator to clients. |
| `IdentityRepo` | The identity repository; `IdentityStore` is what it promises. |
| `Subscribe` | Package `subscribe` and the handler `NotifySubscribe`. |
| `Inbox` | Package `inbox` composed with `Subscribe`, and the clients. |
| `MCSpaceStatus`, `MCDeletionLog`, `MCAclRecords`, `MCStores`, `MCInbox` | Instances for TLC; the `.cfg` files give the sizes. |
| `SpaceStatusProofs`, `SpaceSnapshotProofs`, `SpaceLifecycleProofs`, `SpaceDeadlineProofs`, `LogReaderProofs`, `AclRecordsProofs`, `StoresProofs`, `InboxProofs` | Theorems, section 5. |

### SpaceStatus

`db.Tx` (db.go:56) is two steps. `Begin` takes the snapshot and computes the outcome of the
*whole* function; `Commit`, `Abort` or `LoseTx` ends it. In between other transactions
commit, and `tx[p].missed` collects the documents they overwrote. A transaction that
*writes* one of them aborts with a write conflict; one that only *read* them commits. That
is the snapshot isolation of MongoDB transactions, write skew included. A function that
returns an error is an open transaction that can only abort. Nothing is retried, as in the
code. Taking the snapshot and the computation as one step loses nothing: a transaction reads
only its snapshot, and its writes are seen by nobody before the commit; a conflict the
server reports earlier than at the commit ends in the same abort.

| State | Code |
|---|---|
| `spaces` | collection `spaces` (`StatusEntry`); "absent" stands for no document |
| `statusRecords`, `ownershipRecords` | collection `deletionLog`, which is `deletionLog`, the union: records of changes of status (`Add`, in the transaction) and of changes of owner (`AddOwnershipChange`, in none) |
| `nextId` | ObjectIDs as one counter: drawn in `Add`, so at `Begin`, and in `AddOwnershipChange`, one step before the record is visible |
| `tx` | the session transaction of each handler and of the deleter |
| `transfers` | `AclAddRecord` calls between their read of the status and the end of `AddOwnershipChange`: what they read, what they are to write, and their next step |
| `deleter` | which query the run is at, the clock it read at the start, and what its cursor has not returned yet |
| `now` | `time.Now` |
| `requests`, `faults` | bounds |

Decisions a reader should know:

- Signatures are abstracted: `Signers[s]` are the accounts whose header for `s` passes
  `VerifySpaceHeader`, `TypeOf[s]` the type in it; other payload signatures are taken as
  valid.
- The records of one transaction share one id. In the code they have consecutive ids and
  become visible together; `DeletionLog` tells them apart, in an order given by `Rank`.
- `LegacySpaces` may start with a document of an older version: no type, no
  `toBeDeletedTimestamp`, created or pending, and no record in the log. `Missing` (-1)
  stands for the absent field; a deadline of exactly -1 is not distinguished from it, and no
  run has one.
- The cursor's batch is read at once, and its entries come in any order. A cursor that fails
  reads like one at its end (`DeleterCursorFails`); a timeout or a query that fails ends the
  run (`DeleterGiveUp`).
- The part of `AclAddRecord` that is about the owner is four actions:
  `RequestAclOwnerChange` (the stale read), `ChangeOwner`, which runs in no transaction and
  conflicts with those that are open, `DrawOwnershipId` and `InsertOwnershipChange`: the
  driver draws the id of the record before the server has it, so a status record of the same
  space may become visible in between, or after it with a lower id. `LoseTransfer` ends the
  call before any of the last three. The handler as a whole is in `AclRecords`.
- `MakeShareable` and `MakeUnshareable` are the service's; the checks of their handlers are
  in `AclRecords`. The limit that `MakeShareable` is given is read by the handler before the
  transaction: any of `SharedLimits`, the limits that accounts have or had, for a space
  whose limit is the account's.
- Both bounds of the deleter's queries are computed when a run starts (spacedeleter.go:110),
  so `DeleterQueryNew` goes by the clock of `DeleterQueryOld`. The documents are those at
  the query.
- `Shown` is what the read handlers report as the deletion date (rpchandler.go:84).
- One coordinator process.

### SpaceLifecycle

A space has a phase, a reader of the log has been told a phase, and a step moves a set of
spaces from one phase to another *and* announces it, or registers a new space without
announcing it. The refinement maps a space's status to its phase and the status record with
the highest id to what was announced. `ImplementsLifecycle` thus says that transactions make
each operation one atomic move, an account's spaces together, and that no crash or conflict
separates document and log.

### LogPaging and DeletionLog

`GetAfter` fetches one record more than the page and returns whether there was one.
`DeletionLog` adds to `SpaceStatus` a network node that asks for the records after its
`cursor` and applies them in order (`told`). `CoordinatorStep` is any step of `SpaceStatus`;
it puts records that become visible at or below the cursor into the history variable `late`:
such a record is never returned, since its id was drawn before, and it became visible after,
one with a higher id that the reader has. That this can happen is a fact about the design,
and properties exclude exactly these records. `StatusRecordsInIdOrder` says that the
*status* records of one space become visible in the order of their ids. It does not say it
of all records: the record of a change of owner is inserted in no transaction, so that it
may have the id 7, and a reader may pass 7, before the transaction that drew 6 for a record
of the same space commits. `FormerOwnerComesFirst` says what is left of the order: a status
record filed under the former owner never comes after the record of the change. Accounts
that a space may return to (`NewOwners`) are left out, since for them "former" means
nothing.

### AclRecords

| State | Code |
|---|---|
| `spaces` | collection `spaces` |
| `acl` | the ACL that the consensus nodes keep, as the state (owner, members) after each record |
| `events` | the entries of each space in the ACL event log |
| `ownership` | the `OwnershipChange` records of each space in the deletion log |
| `calls` | the call each handler works on: its point, what it read at the start, what it added |
| `overlapped`, `failed`, `unrepaired` | history: spaces that two calls worked on at once or about which a call was told an outdated ACL, on which a call ended half-way, and with any of these and no whole `AclAddRecord` since |

Each call is a chain of steps: one for each read of a store that a decision depends on and
one for each write; `CallFails` and `Crash` may cut it between any two of them. A
transaction of `spacestatus` (`Share`, `Unshare`) is a single step, which
`ImplementsLifecycle` justifies: it is proved that its effect is one atomic move. The ACL
service and the consensus nodes are outside `src/`; `AppendRecord` allows what a valid
record may do: a member more within the limits that `AclAddRecord` hands on, a member less,
another owner from among the members.

What these handlers ask the ACL service is answered from a *view*: the first `n` records of
the ACL, for any `n` that lags behind by `MaxLag` records at most (`Views`). Assumed of the
service is that `AddRecord` adds at the head of the ACL or fails, and that a view does not
shrink between two questions of one call. `ReadOwner` is an answer by which the owner is the
present one, `ReadFormerOwner` any other. `MakeSpaceUnshareable` first asks whether the ACL
has the record that the client takes for its head (`HasRecord`, coordinator.go:423), then
whether there are members, and `EmptyAt` is both questions: a client that names the head of
the ACL is not answered from a view without it. The client may name an older record too, or
one that the ACL has not (`ErrAclHeadIsMissing`); `CheckOlderHead` is an older record and a
view by which there were no members then. A call that goes on after an outdated answer is
`Misled`, and counts with the calls that overlapped, since it makes the same mistakes.
`StatusMoves` lets the space be deleted and restored meanwhile. The history variables say
when a property is claimed: without them each of the properties is false, and section 4 has
the counterexample for one.

### AccountLimit, AclEventLog, NodeConf, IdentityRepo

These four share no state with each other or with the rest. `MCStores` puts them into one
specification whose variable `part` chooses, at the start, which of them a behaviour
exercises.

- `AccountLimit`: a call goes to a file node (`UpdateFileLimits`), then to the database
  (`UpdateDbLimits`). `SetCallsFail` ends calls between. A request that a file node carries
  out although its answer is lost is in the model as a call that fails after the first step.
  The file node is told the storage of a tariff only, the limits on members and shared
  spaces are in the database alone: `fileLimits` is the tariff whose storage it has.
  `unequal` is history. Between the two writes, and after a failure, either side may have
  the larger limit, depending on whether the tariff goes up or down.
- `AclEventLog`: the driver draws an id (`DrawEventId`), the server inserts (`InsertEvent`)
  or the call is lost. `SpaceSign` writes the receipt to the coordinator log first, and the
  event only if that succeeded; its caller is told of neither. Readers page with `GetAfter`;
  `lateEvents` are events inserted below a cursor.
- `NodeConf`: `AddConf` refuses a configuration without nodes, draws the id, and
  `InsertConf` makes it visible. `PollLast` is the `nodeconf` service of any-sync asking
  `GetLast`; `NetworkConfiguration` is the handler: it sends the nodes only to a client
  whose configuration is another. Configuration 0 is the configuration file.
- `IdentityRepo`: `Push`, `DeleteAll` and `DeleteKinds` are one update of one document each.
  `Push` and `Delete` put the kind into a field path as the client sent it
  (identityrepo.go:67, 136). `Kinds` are plain ones. A request also has a set `inside` of
  kinds that its dotted kinds begin with: `data.k.data.x` is a path into the datum of `k`.
  What is set there is returned to nobody, since `Pull` looks for the dotted kind among the
  keys of the document. It may be another field, which leaves the datum as it is, or a
  document where bytes should be, which makes the datum `Unreadable` and the document fail
  to decode; a datum made by it alone is `Blank`. What is removed there may be the data or
  the signature (`Blank`). Paths that overlap, or that MongoDB refuses, fail the request.
  `Pull` opens a cursor that meets one document after another (`PullNext`), and gives no
  answer at all when one of them does not decode (`PullFails`). `RepoIsAStore` says that,
  with documents that are missing and documents without data read alike, it is the store of
  values in `IdentityStore`, where a request may also spoil values it reaches into, and no
  others. `unsteady` are accounts whose document came or went in the pull.

### Subscribe and Inbox

| State | Code |
|---|---|
| `rpc`, `done`, `stalled` | a `NotifySubscribe` call, its stream's context, a client that does not read |
| `notifyStreams` | the map of the same name, for one event type, by (account, peer) |
| `waiters` | goroutines in `waitCloseStream` |
| `notifying` | `NotifyAllPeers` inside its loop: it holds `mu` until no key is left |
| `inbox`, `adding` | the collection; messages with an id that are not yet inserted |
| `listening`, `changes` | the change stream of `streamListener` |
| `offset`, `fetched`, `mustFetch`, `late` | the clients: last id, ids read, about to fetch; ids inserted below an offset (history) |

Package `inbox` publishes one event type, so one is modelled; a subscription to a type that
the service does not know writes to a nil map and panics (service.go:72), which is among the
crashes of `SubscribeCrash`. The message ids are drawn by the driver before the insert.
`Send` blocks on a client that does not read while `mu` is held; it fails only on a stream
that is over, and then removes it. The second subscription of a peer is refused and the
error dropped, as in rpchandler.go:502. The clients are not in this repository; they fetch
after subscribing, after a notification and while `hasMore`, from their last id, as
`coordinator/inboxrpctest` describes. A crash loses the change stream, the registry and
calls that did not insert; `ListenerEnds` stands both for a `Watch` that fails and for a
`stream.Next` that returns false, which the code treats alike.

## 3. Runs

| Run | Instance | Shows |
|---|---|---|
| `SpaceStatus_safety` | tech space and legacy space of one account, 2 handlers and the deleter, 3 requests, 1 fault, clock to 3 | `LogMatchesStatus`, `NeverRestoredNeverEarly`, `AccountCheckIsFresh`, `ShownIsOfLastDeletion`, `DeadlineIsFixed`, `AccountMovesWhole`, `StatusRecordsInIdOrder`, `StatusMovesLegally`, `ImplementsLifecycle`, and `IInv`, the invariant of the proofs |
| `SpaceStatus_live` | tech space and legacy space, 1 handler, two accounts and a change of owner, 3 requests, 1 fault, clock to 4, one period that puts the deadline before the epoch | `PendingIsResolved` |
| `DeletionLog_reader` | two spaces (one shared) of one account, a change of owner, 2 handlers and the deleter, 3 requests, 1 fault, limit 1, pages of 1 and 2 | `ReaderIsRight`, `LastPageIsLast`, `RecordsNameTheOwner`, `FormerOwnerComesFirst`, `LimitCheckIsFresh` |
| `AclRecords_safety` | one space, two accounts, 2 calls at once, 5 in all, views up to 2 records behind, limits of 0 and 1, 1 failure or restart | `UnsharedIsEmpty`, `OwnerIsRepaired`, `OwnershipIsChained`, `EventLogTellsAll` |
| `Stores` | per store: 2 setters, 4 calls, 1 fault; 2 owners, 3 events, pages of 1 and 2; 2 coordinators, 1 client, 3 configurations; 2 accounts, 2 kinds, 3 writes | `LimitsAgree`; `ReadersMissNothing`, `EventHasReceipt`; `DisabledIsNotUsed`, `ServedIsNewer`, `AllUseTheYoungest`; `PulledIsTheirs`, `RepoIsAStore` |
| `Inbox_live` | one peer with two streams, 2 messages, page size 1, 1 fault | `RegisteredIsWaited`, `FetchIsGapFree`, `AnnouncedIsKept`, `IInv` (which adds that the send loop meets no removed stream), `DeadStreamIsForgotten`, `MessageReachesSubscriber`, `AnnouncedIsFetched` |
| `SpaceStatus_limit`, `_force`, `_account`, `_early`, `AclRecords_unshare`, `Inbox_subscribe` | smallest that show it | violations, section 4 |

What the properties say is in the comment above each. Each property of a passing run has a
mutant in `PROJECT.json`: a plausible bug in a modelled definition (the operators commented
"Faulty variant") under which the run fails.

**Deadlock** is checked in the `SpaceStatus` runs and in `DeletionLog_reader`: the deleter
never stops. The other runs set `CHECK_DEADLOCK FALSE`. In `AclRecords` and `Stores` the
bounds on calls let a behaviour end with nothing left to do; the inbox is quiet when no
client is there.

**Bounds.** A conflict needs two overlapping transactions, a stale one three commits: two
handlers and the deleter give these. Two spaces are enough for an account that moves as a
whole, for write skew and for a record that becomes visible late; one with two owners for
owner changes. 3 requests and 3 ticks reach create, delete, remove, revive, and more from
the documents of older versions that a behaviour may start with; the fault of this run is
one crash, lost transaction or query, or run that gives up, anywhere among them.
`MaxRequests`, `LastRequest` and `MaxTime` bound requests and clock, `MaxFaults` the number
of crashes, lost transactions, failed queries and lost transfers. In `SpaceStatus_live`
requests stop at `LastRequest` 2, so that the latest deadline (2 + period 2) is still on the
clock: without it the bound, not the code, would break the property. In `AclRecords` five
calls are enough for a change of owner that is lost half-way, a call that repairs it,
sharing and unsharing; two are open at once, since a third adds only overlaps of which
nothing is claimed. Views two records behind reach an owner, or an ACL without members,
before the last change and before the one before it. In `Stores` three events with pages of
one and two reach a page that is cut and an event that arrives late, three configurations
one that arrives late between two others. For the inbox, page size 1 and two messages reach
`hasMore`, and two streams of one key reach the late removal of a newer registration. With
one key the send loop has one turn, and a client that stalls can hold up only its own
account: a second key takes the liveness check beyond what a run may last. That the loop
meets no removed stream is proved for any keys (`InboxInvariant`); the stall of other
accounts is only argued, in the premise of the two liveness properties below. The handlers
are symmetric in the safety runs; no symmetry is used where liveness is checked.

**Fairness.** The clock advances. A transaction that is open ends (the driver's context and
the server's transaction lifetime see to it): weak fairness of `Commit \/ Abort` for each
process. The periodic loop goes on (`periodicsync`): weak fairness of each of the deleter's
steps. Goroutines of `subscribe` and `inbox` run and an insert that was sent is carried out:
weak fairness of each, which is enough because the mutex, once free, stays free long enough
in a model where only finitely many messages come. A client that is to fetch does. In
`NodeConf` each coordinator polls (the `nodeconf` service does so periodically) and each
client asks each coordinator now and then. Nothing is assumed of clients that subscribe,
leave or stall, of operators, nor of faults.

`PendingIsResolved` has one exception: a deadline of zero or less, which a negative period
gives (the deletion duration is not checked, coordinator.go:157). The query asks for a
deadline greater than zero (spacedeleter.go:54), so such a space stays pending until its
owner restores it.

`DeadStreamIsForgotten` and `MessageReachesSubscriber` have the premise
`StalledClientsLeave`: `Send` under the mutex lets one client that stops reading, and stays
connected, block everybody, so nothing can be promised without it.
`MessageReachesSubscriber` also excludes a goroutine of an older stream of the same peer
that has not run yet: it removes the newer registration (service.go:90).

## 4. Where code and text disagree

1. `SpaceStatus_limit`: two `NewStatus` calls for different spaces overlap, each counts the
   created spaces in its own snapshot (`checkLimitTx`, spacestatus.go:532), and the account
   ends above its limit (write skew), where `spacestatus_test.go` ("new status space limit",
   389-390) requires `ErrSpaceLimitReached`. `LimitCheckIsFresh` says that an overlap is
   needed. `AccountRevertDeletion` goes over the limit by itself, which no text rules out.
2. `SpaceStatus_force`: `NewStatus` with force drops the error of its change of status
   (spacestatus.go:466, overwritten at 475) and reports success for a space that stays
   deleted, after a change of owner.
3. `SpaceStatus_account`: `NewStatus` and `AccountDelete` overlap, and an account whose
   deletion is pending gets a created space (write skew). `AccountCheckIsFresh` says that an
   overlap is needed.
4. `SpaceStatus_early`: the deleter checks the status again, but not the deadline
   (spacedeleter.go:122), so a space restored and deleted again during a run is removed at
   once. `NeverRestoredNeverEarly` says that this is the only way.
5. `AclRecords_unshare`: `MakeSpaceUnshareable` looks at the ACL and then writes the
   document (coordinator.go:431); an `AclAddRecord` between the two adds a member to a space
   that is then unshareable, which `coordinator_test.go` ("non empty acl") rules out.
   `UnsharedIsEmpty` says that such an overlap is needed, or a client that names an older
   head than the ACL has, however old the ACL is that the service answers from.
6. `Inbox_subscribe`: the comment in `inboxrpc_test.go:192` that a fetch right after the
   subscription closes the race with a new message does not hold: the subscription is not
   acknowledged, and the fetch may come before `AddStream`.

## 5. Proofs

The theorems hold for all values of the constants that satisfy the named assumptions of the
modules: any number of handlers, spaces and accounts, any integer periods, any limits and
page sizes, any number of requests and faults. Those that count documents or order records
by id within a transaction (`AccountCheckHolds`, `LimitCheckHolds`, all of
`LogReaderProofs`) assume that `Spaces` is finite.

**`SpaceStatusProofs`**: `InductiveInvariant` (`Spec => []IInv`), and from it `TypeCorrect`,
`LogIsTrue`, `StatusRecordsAreOrdered` and `MovesAreLegal`. `LogMatchesStatus` alone is not
inductive: a transaction that is open may publish a record with an id that is not the
highest of its space. What excludes it is `OutcomeStillHolds`: *as long as no commit
overwrote a document the transaction writes*, its records are younger than all status
records of the space and its change of status is legal from where the space is now. `Begin`
establishes this on a fresh snapshot; every commit either leaves the document alone or puts
it into `missed`; and `Commit` needs `missed` to avoid what it writes. The rest of `IInv`
(ids come from one counter, a logging transaction logs every document it writes, an absent
space has no record) supports this. The proof has two layers: a lemma per operation of
`SpaceDocs` says its outcome is *coherent* with the snapshot it is computed from
(`NewStatusCoherent`, ...), and a lemma per kind of step says that it keeps the invariant
given a coherent outcome (`BeginKeepsCore`, `CommitKeepsCore`, `ChangeOwnerKeepsCore`,
`QuietKeepsCore`). `StepInv` puts them together, one step per action.

**`SpaceSnapshotProofs`**: the checks in snapshots, `AccountCheckHolds` and
`LimitCheckHolds`. Every step either starts a transaction of a process on one of the
operations (`Starts`, `Operation`), or ends it, or lets it go on with `missed` growing
(`Continues`); this shape is proved once and used by the next two modules as well. The
properties say of an open transaction what its operation checked, as long as `missed` is
empty or avoids what it read, and are inductive as they stand (`Fresh`).
`AccountMovesWholeHolds` has the same form: a document that an open `AccountDelete` does not
write, and that would leave its account a created space, is in `missed` (`WholeInSnapshot`),
and what it writes is never created (`AccountWrites`); the commit then gives the property.

**`SpaceLifecycleProofs`**: `RefinesLifecycle`, that `SpaceStatus` implements
`SpaceLifecycle`. Two facts beyond `IInv`: the documents a transaction writes make one and
the same move as long as they are not overwritten (`TxUniform`), and a space with records
has a last one (`HasLast`), so that what is announced is the status (`AnnouncedIsStatus`).
Then a commit is one `Move` or `Register`, a change of owner and everything else a stutter.

**`SpaceDeadlineProofs`**: `EarlyWasRestored`, `DatesAreOfLastDeletion`, `DeadlineHolds` and
`DueIsFound`. What the deleter holds in its batch, and what its transaction is about to
remove, is `Due`: its deadline has passed, or it was restored at some time. Documents that a
transaction writes have dates that are a period apart, or those the document has (`Dated`);
when they keep the status of a document that nobody overwrote they keep its dates, which is
`DeadlineHolds`. `DueIsFound` says that the filters of the two queries leave no gap: with
`DeadlineHolds` it is the safety half of `PendingIsResolved`. A pending deletion keeps its
deadline, so it comes to be due and stays so, and the next run of the deleter finds it; that
the run comes is fairness.

**`LogReaderProofs`**: `ReaderKnowsStatus`, `LastPageEndsTheLog`, `RecordsAreFiled`,
`FormerOwnersAreFirst`, `LimitCheckIsFollowed`. A page is an initial part, by id, of what is
newer than the cursor (`FirstIsInitial`), and all of it when the log says there is no more
(`ShortIsAll`); the first of these lemmas is in `StoresProofs`, whose event log is paged the
same way. ObjectIDs order the records of one space as their ids do (`ObjectIdOrder`), so
`LogMatchesStatus` of `SpaceStatusProofs` carries over: the last status record of a space,
once the reader has it, names its status, since `StatusRecordsInIdOrder` leaves no status
record of the space to come below it. `RecordsAreFiled` rests on `LogNames`: a status record
that is about to become visible names the owner, as long as the document is not overwritten.
The change of owner does overwrite it, and so makes the transaction fail.
`FormerOwnersAreFirst` adds to this (`OwnersLeft`) that once a call has drawn the id of an
ownership record, no status record under the former owner can get a higher one: the document
names another account, and stays with `NewOwners` (`PassedOn`), and an open transaction that
read the former owner is older or missed the change. `DeletionLog` starts from documents
that earlier runs left, some of them shared: `LimitCheckIsFollowed` proves what
`DeletionLog_reader` checks of the coordinator from these states, since every step of it is
one of `SpaceStatus` or leaves that alone (`CoordinatorGoesOn`).

**`AclRecordsProofs`**: `UnsharedHasNoMembers`, `OwnersComeToAgree`, `OwnershipChainHolds`,
`AclTypeCorrect` and `EventLogHolds`. The invariant says of each open call that *runs alone*
that what it read still holds (`AloneInv`: the owner, the shareable flag, the empty ACL,
that its record is the last one), of one that does not that its space is on record as
overlapped; and of each space what the properties say, with the gaps that an open call of a
certain point leaves (the owner is written, the ownership record not yet). A call that hears
of an outdated ACL is no longer one that runs alone (`MisledInv`), so that only `CheckEmpty`
has to know what a view is: one that has the head of the ACL is the ACL. `CallStep` says
once and for all that a step of a call leaves other spaces and calls alone, so that each
action is proved for its own space only. `EventLogHolds` adds an invariant of its own
(`EventInv`): the event that a call has yet to add is known from the call (`PendingEvent`),
and of a space without such a call the log is complete. `EventLogTellsAll` is stated with
the positions of events and not with a filter of the log, whose recursive definition no
prover could use.

**`StoresProofs`**: each store by itself, then the four together (`PartsKeepTheirSpecs`: a
step of one leaves the others alone, so that `StoresTypeCorrect` and `StoresAreSafe` follow
from what is proved of each). `LimitsComeToAgree`: a call that is alone and has come to the
database finds its limit at the file node (`DbStage`, `AloneIsOnly`, `EqualBefore`).
`OnlyEnabledIsUsed`, `NeverBackToOlder`: what a coordinator goes by stays in the collection,
enabled, so that the last one enabled is at least as young (`LastEnabled`, which rests on
the collection being finite). `PullIsTrue`: a write leaves the account a document of its own
data, spoilt or not, or none (`UpdateStep`, `WrittenIsOwned`), and either leaves alone
whether there is one or makes the account unsteady; a document that does not decode is never
added to an answer (`Readable`). `RepoImplementsStore`: what the documents stand for changes
at one account by `Merged` or by `Stripped` (`UpdateShows`), and the kinds among those
reached into whose data came out spoilt are the `spoilt` of the store's step (`SpoiltOf`).
`EventReadersMissNothing`, `EventsAreBacked`: a reader of the ACL event log has what is
below its cursor, late events apart, and the receipt is written before the event.

**`InboxProofs`**: `InboxInvariant`, `RegistrationsAreWaited`, `PagingIsGapFree`,
`AnnouncedIsNotLost`. `FetchIsGapFree` rests on `PageIsInitial` (a page is an initial part,
by id, of what is newer than the offset) and `NextOffset` (a page that is not empty has a
last message, and the offset becomes its id), and these on the finiteness of the inbox,
which the proof adds to the invariant. `AnnouncedIsNotLost` needs that what the listener
holds, what is being sent and what was sent are messages of the collection, addressed to the
account of the stream (`SentIsTheirs`), and that a page without more behind it is all there
is (`LastPageIsAll`): it is the safety half of `AnnouncedIsFetched`.

Only model-checked: the liveness properties (`PendingIsResolved`, `AllUseTheYoungest`,
`DeadStreamIsForgotten`, `MessageReachesSubscriber`, `AnnouncedIsFetched`), since the prover
does not reason about fairness. Every invariant and every action property that a passing run
checks, and both refinements, are theorems.

## 6. Not modelled

- Signature verification, receipts, metrics and logging; the inside of the ACL service and
  of the consensus, file and payment nodes, which are not in `src/`.
- Start-up, wiring and configuration: nothing there changes after the start. The data race
  on `err` at spacestatus.go:574 is one of start-up.
- Several coordinators that write to one database. Their ObjectIDs order by second and then
  by machine, so within a second the order of records is chance, and the properties about
  ids are claimed for one writing coordinator only. `NodeConf` has several, which read.
- Handlers that only read and hand on one answer: `SpaceStatusCheck` is the operator
  `Shown`; `AclGetRecords`, `AclUploadInvite` and `AccountLimits` change no state of the
  coordinator.
- The time at which ids are drawn: they are one counter, while ObjectIDs drawn by the driver
  in one process are ordered by second and counter, which is the same order.

## 7. Plan

Done: every component that keeps state is modelled; the safety properties of the space
documents, the deletion log, the handlers on ACLs, the ACL event log, the account limits,
the network configurations, the identity repository and the inbox are proved. What is left,
in the order in which it would add most:

1. Several coordinators with ids of one second, to say what a reader of the deletion log may
   then rely on.
2. `AclRecords` and `SpaceStatus` in one specification, so that the transactions of
   `spacestatus` are two steps there too; the refinement that is proved says that nothing
   new happens.

All twelve runs are in use; new questions that fit an existing instance are added to its run
rather than as one of their own.
