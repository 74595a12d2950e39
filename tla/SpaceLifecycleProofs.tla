------------------------- MODULE SpaceLifecycleProofs -------------------------
(****************************************************************************)
(* Proof that SpaceStatus implements SpaceLifecycle: however transactions   *)
(* overlap, fail and conflict, what happens to the documents and the log is *)
(* one move of a set of spaces at a time, announced as it happens.          *)
(****************************************************************************)
EXTENDS SpaceSnapshotProofs

\* All documents an outcome writes make the same move, and without records there is
\* only one.
Uniform(db, out) ==
    \A s, q \in WrittenBy(out.writes) :
        /\ db[s].status = db[q].status
        /\ out.writes[s].status = out.writes[q].status
        /\ out.log = {} => s = q

\* The same of the transactions, as long as their documents are not overwritten.
TxUniform ==
    \A p \in Procs : \A s, q \in WrittenBy(tx[p].writes) \ tx[p].missed :
        /\ spaces[s].status = spaces[q].status
        /\ tx[p].writes[s].status = tx[p].writes[q].status
        /\ tx[p].log = {} => s = q

\* A space with records has a last one.
HasLast == \A s \in Spaces : RecordsOf(s) # {} => \E r \in RecordsOf(s) : IsLast(r)

----------------------------------------------------------------------------
(* Outcomes.                                                                *)

LEMMA FailUniform ==
    ASSUME NEW db, NEW err
    PROVE  Uniform(db, Fail(err)) /\ Uniform(db, Nothing)
  BY NoDocType DEF Uniform, Fail, Nothing

LEMMA WriteUniform ==
    ASSUME NEW db, NEW s \in Spaces, NEW doc
    PROVE  Uniform(db, Write(s, doc))
<1>1. Write(s, doc).writes = [NoWrites EXCEPT ![s] = doc]
  BY DEF Write, Nothing, Fail
<1>2. WrittenBy(Write(s, doc).writes) \subseteq {s}
  BY <1>1 DEF WrittenBy, Has, NoWrites, NoDoc
<1>. QED
  BY <1>2 DEF Uniform

LEMMA SetStatusAllUniform ==
    ASSUME NEW db \in [Spaces -> Doc], NEW S \in SUBSET Spaces, NEW change \in Change,
           \A s, q \in S : db[s].status = db[q].status
    PROVE  Uniform(db, SetStatusAll(db, S, change))
<1> DEFINE out == SetStatusAll(db, S, change)
<1>1. /\ out.writes = [s \in Spaces |-> IF s \in S THEN Modified(db[s], change) ELSE NoDoc]
      /\ out.log = {[space |-> s, group |-> db[s].identity,
                     status |-> LogStatus(change.status)] : s \in S}
  BY DEF SetStatusAll
<1>2. \A s \in S : out.writes[s].status = change.status
  BY <1>1, ModifiedType
<1>3. WrittenBy(out.writes) \subseteq S
  BY <1>1 DEF WrittenBy, Has, NoDoc
<1>4. S # {} => out.log # {}
  <2>. SUFFICES ASSUME NEW s \in S PROVE out.log # {}
    OBVIOUS
  <2>1. [space |-> s, group |-> db[s].identity, status |-> LogStatus(change.status)] \in out.log
    BY <1>1
  <2>. QED
    BY <2>1
<1>. HIDE DEF out
<1>5. Uniform(db, out)
  BY <1>2, <1>3, <1>4 DEF Uniform
<1>. QED
  BY <1>5 DEF out

LEMMA SetStatusTxUniform ==
    ASSUME NEW db \in [Spaces -> Doc], NEW s \in Spaces, NEW who, NEW change \in Change, NEW old
    PROVE  Uniform(db, SetStatusTx(db, s, who, change, old))
<1>1. Uniform(db, SetStatusAll(db, {s}, change))
  BY SetStatusAllUniform
<1>. QED
  BY <1>1, FailUniform DEF SetStatusTx

LEMMA LimitedUniform ==
    ASSUME NEW db, NEW who, NEW out, Uniform(db, out)
    PROVE  Uniform(db, Limited(db, who, out))
  BY FailUniform DEF Limited

\* Dropping the error leaves what is written and logged.
LEMMA ErrorDropped ==
    ASSUME NEW db, NEW s, NEW who, NEW change, NEW old
    PROVE  LET out == SetStatusTx(db, s, who, change, old)
               new == [out EXCEPT !.err = "ok"]
           IN  new.writes = out.writes /\ new.log = out.log
  BY DEF SetStatusTx, SetStatusAll, Fail

LEMMA OperationUniform ==
    ASSUME IInv, NEW p, NEW op, NEW who, NEW out, Operation(p, op, who, out)
    PROVE  Uniform(spaces, out)
<1>1. /\ spaces \in [Spaces -> Doc] /\ now \in Int /\ deleter.batch \subseteq Spaces
  BY InvSplit DEF Core, CoreTypes, RestTypes
<1>2. /\ ToCreated \in Change /\ ToDeleted \in Change
      /\ \A period \in Int : ToPending(now, period) \in Change
      /\ DeletionPeriod \in Int
  BY <1>1, ChangeTypes, LimitsAssumption
<1>3. ASSUME NEW s \in Spaces, NEW force \in BOOLEAN
      PROVE  Uniform(spaces, NewStatus(spaces, s, who, force))
  <2> DEFINE changed == SetStatusTx(spaces, s, who, ToCreated, spaces[s].status)
             forced == [changed EXCEPT !.err = "ok"]
  <2>1. Uniform(spaces, changed)
    BY <1>1, <1>2, SetStatusTxUniform
  <2>2. forced.writes = changed.writes /\ forced.log = changed.log
    BY ErrorDropped
  <2>3. Uniform(spaces, forced)
    <3>. HIDE DEF changed, forced
    <3>. QED
      BY <2>1, <2>2 DEF Uniform
  <2>4. Uniform(spaces, Revived(spaces, s, who))
    <3>1. Revived(spaces, s, who) = Limited(spaces, who, forced)
      BY DEF Revived
    <3>. HIDE DEF forced
    <3>. QED
      BY <2>3, <3>1, LimitedUniform
  <2>. QED
    BY <2>4, WriteUniform, LimitedUniform, FailUniform DEF NewStatus
<1>4. ASSUME NEW s \in Spaces, NEW period \in Periods
      PROVE  Uniform(spaces, SpaceDelete(spaces, s, who, now, period))
  <2>1. Uniform(spaces, SetStatusTx(spaces, s, who, ToPending(now, period), "created"))
    BY <1>1, <1>2, PeriodsAssumption, SetStatusTxUniform
  <2>. QED
    BY <2>1, FailUniform DEF SpaceDelete
<1>5. ASSUME NEW s \in Spaces
      PROVE  /\ Uniform(spaces, ChangeStatusRestore(spaces, s, who))
             /\ Uniform(spaces, ChangeStatusDelete(spaces, s, who, now))
  <2>1. Uniform(spaces, SetStatusTx(spaces, s, who, ToCreated, "pending"))
    BY <1>1, <1>2, SetStatusTxUniform
  <2>2. Uniform(spaces, SetStatusTx(spaces, s, who, ToPending(now, DeletionPeriod), "created"))
    BY <1>1, <1>2, SetStatusTxUniform
  <2>. QED
    BY <2>1, <2>2, LimitedUniform DEF ChangeStatusRestore, ChangeStatusDelete
<1>6. ASSUME NEW s \in Spaces
      PROVE  /\ \A limit \in Nat : Uniform(spaces, MakeShareable(spaces, s, limit))
             /\ Uniform(spaces, MakeUnshareable(spaces, s))
  BY WriteUniform, FailUniform DEF MakeShareable, MakeUnshareable
<1>7. /\ Uniform(spaces, AccountDelete(spaces, who, now))
      /\ Uniform(spaces, AccountRevertDeletion(spaces, who))
  <2>1. \A phase : /\ Owned(spaces, who, phase) \in SUBSET Spaces
                   /\ \A s \in Owned(spaces, who, phase) : spaces[s].status = phase
    BY DEF Owned
  <2>2. Uniform(spaces, SetStatusAll(spaces, Owned(spaces, who, "created"),
                                     ToPending(now, DeletionPeriod)))
    BY <1>1, <1>2, <2>1, SetStatusAllUniform
  <2>3. Uniform(spaces, SetStatusAll(spaces, Owned(spaces, who, "pending"), ToCreated))
    BY <1>1, <1>2, <2>1, SetStatusAllUniform
  <2>. QED
    BY <2>2, <2>3, FailUniform DEF AccountDelete, AccountRevertDeletion
<1>8. ASSUME NEW s \in Spaces PROVE Uniform(spaces, DeleteEntry(spaces, s))
  BY <1>1, <1>2, SetStatusTxUniform DEF DeleteEntry
<1>. QED
  BY <1>1, <1>3, <1>4, <1>5, <1>6, <1>7, <1>8 DEF Operation

----------------------------------------------------------------------------
(* The invariant.                                                           *)

LifeInv == TxUniform /\ HasLast

LEMMA TxUniformStep == ASSUME IInv, TxUniform, Next PROVE TxUniform'
<1>. SUFFICES ASSUME NEW p \in Procs,
                     NEW s \in WrittenBy(tx'[p].writes) \ tx'[p].missed,
                     NEW q \in WrittenBy(tx'[p].writes) \ tx'[p].missed
              PROVE  /\ spaces'[s].status = spaces'[q].status
                     /\ tx'[p].writes[s].status = tx'[p].writes[q].status
                     /\ tx'[p].log = {} => s = q
  BY DEF TxUniform
<1>1. CASE Ends(p)
  BY <1>1, NoTxType DEF Ends
<1>2. CASE Continues(p)
  <2>1. tx'[p].writes = tx[p].writes /\ tx'[p].log = tx[p].log
    BY <1>2 DEF Continues
  <2>2. Open(p)
    BY <2>1, NoTxType, InvSplit DEF Core, IdleIsClean
  <2>3. /\ spaces'[s] = spaces[s] /\ spaces'[q] = spaces[q]
        /\ s \notin tx[p].missed /\ q \notin tx[p].missed
    BY <1>2, <2>2 DEF Continues, WrittenBy
  <2>. QED
    BY <2>1, <2>3 DEF TxUniform
<1>3. CASE Starts(p)
  <2>1. PICK op, who, out : Operation(p, op, who, out) /\ StartsWith(p, op, who, out)
    BY <1>3 DEF Starts
  <2>2. /\ tx'[p].writes = out.writes /\ spaces' = spaces
        /\ \A e \in out.log : Stamped(e, nextId) \in tx'[p].log
    BY <1>3, <2>1 DEF StartsWith, Starts
  <2>3. Uniform(spaces, out)
    BY <2>1, OperationUniform
  <2>. QED
    BY <2>2, <2>3 DEF Uniform
<1>. QED
  BY <1>1, <1>2, <1>3, StepShape

\* A step that adds records of changes of status is a commit.
LEMMA OnlyCommits ==
    ASSUME IInv, Next
    PROVE  \/ \E p \in Procs : Commit(p)
           \/ /\ statusRecords' = statusRecords
              /\ \A s \in Spaces : spaces'[s].status = spaces[s].status
<1>1. ASSUME NEW c \in transfers, ChangeOwner(c)
      PROVE  /\ statusRecords' = statusRecords
             /\ \A x \in Spaces : spaces'[x].status = spaces[x].status
  <2>1. c \in Transfer
    BY <1>1, InvSplit DEF RestTypes
  <2>. QED
    BY <1>1, <2>1, ChangeOwnerKeepsCore, InvSplit DEF ChangeOwner
<1>2. ASSUME NEW c \in transfers,
             DrawOwnershipId(c) \/ InsertOwnershipChange(c) \/ LoseTransfer(c)
      PROVE  UNCHANGED <<spaces, statusRecords>>
  BY <1>2 DEF DrawOwnershipId, InsertOwnershipChange, LoseTransfer
<1>. QED
  BY <1>1, <1>2 DEF Next, RequestNewStatus, RequestSpaceDelete, RequestAccountDelete,
     RequestAccountRevertDeletion, RequestChangeStatus, RequestMakeShareable,
     RequestMakeUnshareable, Request, RequestAclOwnerChange, Abort, LoseTx,
     DeleterQueryOld, DeleterQueryNew, DeleterProcessEntry, DeleterDone, DeleterCursorFails,
     DeleterGiveUp, Tick, Crash

\* What a commit does to a space and its records.
LEMMA CommitFacts ==
    ASSUME IInv, NEW p \in Procs, Commit(p)
    PROVE  LET W == WrittenBy(tx[p].writes)
           IN  /\ W \in SUBSET Spaces /\ W \cap tx[p].missed = {}
               /\ \A s \in W : spaces'[s] = tx[p].writes[s]
               /\ \A s \in Spaces \ W : spaces'[s] = spaces[s] /\ RecordsOf(s)' = RecordsOf(s)
               /\ tx[p].log = {} => \A s \in Spaces : RecordsOf(s)' = RecordsOf(s)
               /\ tx[p].log # {} => \A s \in W : \E r \in tx[p].log : r \in RecordsOf(s)'
               /\ \A r \in tx[p].log : r.id = tx[p].id /\ r.id \in Nat
               /\ \A s \in W : \A r \in tx[p].log : \A q \in RecordsOf(s) : q.id < r.id /\ q.id \in Nat
               /\ \A s \in Spaces : RecordsOf(s)' \subseteq RecordsOf(s) \cup tx[p].log
<1> DEFINE W == WrittenBy(tx[p].writes)
<1>1. /\ spaces' = Overlay(spaces, tx[p].writes)
      /\ statusRecords' = statusRecords \cup tx[p].log
      /\ W \cap tx[p].missed = {}
  BY DEF Commit, Conflict
<1>2. /\ spaces \in [Spaces -> Doc] /\ tx[p] \in Tx /\ Covers(tx[p]) /\ Core
      /\ statusRecords \in SUBSET Record
  BY InvSplit, CoversAll DEF Core, CoreTypes
<1>3. W \in SUBSET Spaces
  BY DEF WrittenBy
<1>4. /\ \A s \in W : spaces'[s] = tx[p].writes[s]
      /\ \A s \in Spaces \ W : spaces'[s] = spaces[s]
  BY <1>1 DEF Overlay, WrittenBy
<1>5. /\ \A s \in Spaces : RecordsOf(s)' = RecordsOf(s) \cup {r \in tx[p].log : r.space = s}
      /\ \A r \in tx[p].log : r.space \in W
  BY <1>1, <1>2 DEF RecordsOf, Covers
<1>6. tx[p].log # {} => \A s \in W : \E r \in tx[p].log : r \in RecordsOf(s)'
  <2>. SUFFICES ASSUME tx[p].log # {}, NEW s \in W
                PROVE  \E r \in tx[p].log : r \in RecordsOf(s)'
    OBVIOUS
  <2>1. PICK r \in tx[p].log : r.space = s
    BY <1>2 DEF Covers
  <2>. QED
    BY <1>3, <1>5, <2>1
<1>7. /\ \A r \in tx[p].log : r.id = tx[p].id /\ r.id \in Nat
      /\ \A s \in W : \A r \in tx[p].log : \A q \in RecordsOf(s) : q.id < r.id /\ q.id \in Nat
  <2>1. tx[p].log \subseteq Record /\ \A s \in W : RecordsOf(s) \subseteq Record
    BY <1>2 DEF Tx, RecordsOf
  <2>2. \A r \in tx[p].log : r.id = tx[p].id
    BY <1>2 DEF Core, IdsAreDrawn
  <2>3. \A s \in W : \A q \in RecordsOf(s) : \A r \in tx[p].log : q.id < r.id
    BY <1>1, <1>2 DEF Core, OutcomeStillHolds
  <2>4. \A r \in Record : r.id \in Nat
    BY DEF Record
  <2>. QED
    BY <2>1, <2>2, <2>3, <2>4
<1>8. tx[p].log = {} => \A s \in Spaces : RecordsOf(s)' = RecordsOf(s)
  BY <1>5
<1>9. \A s \in Spaces \ W : RecordsOf(s)' = RecordsOf(s)
  BY <1>5
<1>10. \A s \in Spaces : RecordsOf(s)' \subseteq RecordsOf(s) \cup tx[p].log
  BY <1>5
<1>. QED
  BY <1>1, <1>3, <1>4, <1>6, <1>7, <1>8, <1>9, <1>10

LEMMA HasLastStep == ASSUME IInv, HasLast, Next PROVE HasLast'
<1>1. CASE statusRecords' = statusRecords
  BY <1>1 DEF HasLast, RecordsOf, IsLast
<1>2. ASSUME NEW p \in Procs, Commit(p) PROVE HasLast'
  <2>. SUFFICES ASSUME NEW s \in Spaces, RecordsOf(s)' # {}
                PROVE  \E r \in RecordsOf(s)' : IsLast(r)'
    BY DEF HasLast
  <2> DEFINE W == WrittenBy(tx[p].writes)
  <2>1. CASE RecordsOf(s)' = RecordsOf(s)
    <3>1. PICK r \in RecordsOf(s) : IsLast(r)
      BY <2>1 DEF HasLast
    <3>2. r.space = s
      BY <3>1 DEF RecordsOf
    <3>. QED
      BY <2>1, <3>1, <3>2 DEF IsLast
  <2>2. CASE s \in W /\ tx[p].log # {}
    <3>1. PICK r \in tx[p].log : r \in RecordsOf(s)'
      BY <1>2, <2>2, CommitFacts
    <3>2. r.space = s
      BY <3>1 DEF RecordsOf
    <3>3. \A q \in RecordsOf(s)' : q.id <= r.id
      BY <1>2, <2>2, <3>1, CommitFacts
    <3>. QED
      BY <3>1, <3>2, <3>3 DEF IsLast
  <2>3. RecordsOf(s)' = RecordsOf(s) \/ (s \in W /\ tx[p].log # {})
    BY <1>2, CommitFacts
  <2>. QED
    BY <2>1, <2>2, <2>3
<1>. QED
  BY <1>1, <1>2, OnlyCommits

LEMMA LifeInit == Init => LifeInv
  BY NoTxType DEF Init, Quiet, LifeInv, TxUniform, HasLast, RecordsOf

LEMMA LifeStep == IInv /\ LifeInv /\ [Next]_vars => LifeInv'
<1>1. ASSUME LifeInv, UNCHANGED vars PROVE LifeInv'
  BY <1>1 DEF vars, LifeInv, TxUniform, HasLast, RecordsOf, IsLast
<1>. QED
  BY <1>1, TxUniformStep, HasLastStep DEF LifeInv

----------------------------------------------------------------------------
(* The refinement.                                                          *)

LEMMA PhaseOfStatus ==
    ASSUME NEW status \in {"created", "pending", "deleted"}
    PROVE  (CHOOSE phase \in Phases \ {"absent"} : LogStatus(phase) = LogStatus(status)) = status
<1>1. /\ status \in Phases \ {"absent"}
      /\ \A phase \in Phases \ {"absent"} : LogStatus(phase) = LogStatus(status) => phase = status
  BY DEF Phases, LogStatus
<1>. QED
  BY <1>1

\* What a reader of the log was told last of a space is the status of its document.
LEMMA AnnouncedStatus ==
    ASSUME IInv, HasLast, NEW s \in Spaces
    PROVE  Announced(s) = IF RecordsOf(s) = {} THEN "silent" ELSE spaces[s].status
<1>. SUFFICES ASSUME RecordsOf(s) # {} PROVE Announced(s) = spaces[s].status
  BY DEF Announced
<1> DEFINE last == CHOOSE r \in RecordsOf(s) : IsLast(r)
<1>1. last \in RecordsOf(s) /\ IsLast(last)
  BY DEF HasLast
<1>2. last.status = LogStatus(spaces[s].status)
  BY <1>1 DEF IInv, LogMatchesStatus
<1>3. spaces[s].status \in {"created", "pending", "deleted"}
  BY InvSplit DEF Core, CoreTypes, AbsentIsSilent, Has, Doc, Phases
<1>4. Announced(s) = CHOOSE phase \in Phases \ {"absent"} : LogStatus(phase) = last.status
  BY DEF Announced
<1>. QED
  BY <1>2, <1>3, <1>4, PhaseOfStatus

AnnouncedIsStatus ==
    \A s \in Spaces : Announced(s) = IF RecordsOf(s) = {} THEN "silent" ELSE spaces[s].status

LEMMA AnnouncedAll == IInv /\ HasLast => AnnouncedIsStatus
  BY AnnouncedStatus DEF AnnouncedIsStatus

\* Initial states are initial states.
LEMMA RefinesInit == Init => Lifecycle!Init
<1>. SUFFICES ASSUME Init PROVE Lifecycle!Init
  OBVIOUS
<1>1. \A s \in Spaces : Announced(s) = "silent"
  BY DEF Init, Quiet, Announced, RecordsOf
<1>2. ASSUME NEW s \in Spaces
      PROVE  /\ spaces[s].status \in {"absent", "created", "pending"}
             /\ spaces[s].status # "absent" => s \in LegacySpaces
  <2>1. spaces[s] \in {NoDoc} \cup (IF s \in LegacySpaces THEN LegacyDocs(s) ELSE {})
    BY DEF Init
  <2>2. \A doc \in LegacyDocs(s) : doc.status \in {"created", "pending"}
    BY DEF LegacyDocs, NoDoc
  <2>. QED
    BY <2>1, <2>2 DEF NoDoc
<1>. QED
  BY <1>1, <1>2 DEF Lifecycle!Init

\* A step that leaves the status of all documents and the log alone is a stutter.
LEMMA RefinesStutter ==
    ASSUME statusRecords' = statusRecords, \A s \in Spaces : spaces'[s].status = spaces[s].status
    PROVE  UNCHANGED <<[s \in Spaces |-> spaces[s].status], [s \in Spaces |-> Announced(s)]>>
<1>1. \A s \in Spaces : Announced(s)' = Announced(s)
  BY DEF Announced, RecordsOf, IsLast
<1>. QED
  BY <1>1

\* A commit without records registers a space, or is a stutter.
LEMMA RefinesRegister ==
    ASSUME IInv, LifeInv, IInv', LifeInv', NEW p \in Procs, Commit(p), tx[p].log = {}
    PROVE  \/ \E s \in Spaces : Lifecycle!Register(s)
           \/ UNCHANGED <<[s \in Spaces |-> spaces[s].status], [s \in Spaces |-> Announced(s)]>>
<1> DEFINE W == WrittenBy(tx[p].writes)
<1>1. /\ W \in SUBSET Spaces /\ W \cap tx[p].missed = {}
      /\ \A s \in W : spaces'[s] = tx[p].writes[s]
      /\ \A s \in Spaces \ W : spaces'[s] = spaces[s]
      /\ \A s \in Spaces : RecordsOf(s)' = RecordsOf(s)
  BY CommitFacts
<1>2. \A s \in W : \/ spaces'[s].status = spaces[s].status
                   \/ spaces[s].status = "absent" /\ spaces'[s].status = "created"
  <2>1. OutcomeStillHolds
    BY DEF IInv
  <2>. QED
    BY <1>1, <2>1 DEF OutcomeStillHolds
<1>3. \A s, q \in W : s = q
  BY <1>1 DEF LifeInv, TxUniform
<1>4. statusRecords' = statusRecords
  BY DEF Commit
<1>. HIDE DEF W
<1>5. CASE \A s \in Spaces : spaces'[s].status = spaces[s].status
  BY <1>4, <1>5, RefinesStutter
<1>6. ASSUME NEW s \in Spaces, spaces'[s].status # spaces[s].status
      PROVE  Lifecycle!Register(s)
  <2>1. s \in W /\ spaces[s].status = "absent" /\ spaces'[s].status = "created"
    BY <1>1, <1>2, <1>6
  <2>2. \A q \in Spaces \ {s} : spaces'[q].status = spaces[q].status
    BY <1>1, <1>3, <2>1
  <2>3. RecordsOf(s) = {}
    BY <2>1, InvSplit DEF Core, AbsentIsSilent, Has
  <2>4. \A q \in Spaces : Announced(q)' = Announced(q)
    BY <1>4 DEF Announced, RecordsOf, IsLast
  <2>. QED
    BY <2>1, <2>2, <2>4 DEF Lifecycle!Register
<1>. QED
  BY <1>5, <1>6

\* A commit with records moves the spaces it writes.
LEMMA RefinesMove ==
    ASSUME IInv, LifeInv, IInv', LifeInv', NEW p \in Procs, Commit(p), tx[p].log # {}
    PROVE  \E S \in SUBSET Spaces, from, to \in Lifecycle!Moved : Lifecycle!Move(S, from, to)
<1> DEFINE W == WrittenBy(tx[p].writes)
<1>1. /\ W \in SUBSET Spaces /\ W \cap tx[p].missed = {}
      /\ \A s \in W : spaces'[s] = tx[p].writes[s]
      /\ \A s \in Spaces \ W : spaces'[s] = spaces[s] /\ RecordsOf(s)' = RecordsOf(s)
      /\ \A s \in W : \E r \in tx[p].log : r \in RecordsOf(s)'
  BY CommitFacts
<1>2. \A s \in W : <<spaces[s].status, spaces'[s].status>> \in LoggedMoves
  BY <1>1 DEF IInv, OutcomeStillHolds
<1>3. \A s, q \in W : spaces[s].status = spaces[q].status /\ spaces'[s].status = spaces'[q].status
  BY <1>1 DEF LifeInv, TxUniform
<1>4. PICK x \in W : TRUE
  <2>1. Covers(tx[p])
    BY CoversAll, InvSplit DEF Core
  <2>. QED
    BY <2>1 DEF Covers
<1>. HIDE DEF W
<1> DEFINE old == spaces[x].status
           new == spaces'[x].status
<1>5. <<old, new>> \in Lifecycle!Moves /\ old \in Lifecycle!Moved /\ new \in Lifecycle!Moved
  BY <1>2, <1>4 DEF LoggedMoves, Lifecycle!Moves, Lifecycle!Moved
<1>6. \A s \in Spaces : Announced(s) = IF RecordsOf(s) = {} THEN "silent" ELSE spaces[s].status
  BY AnnouncedAll DEF LifeInv, AnnouncedIsStatus
<1>7. \A s \in Spaces :
         Announced(s)' = IF RecordsOf(s)' = {} THEN "silent" ELSE spaces'[s].status
  <2>1. AnnouncedIsStatus'
    BY AnnouncedAll, PTL DEF LifeInv
  <2>. QED
    BY <2>1 DEF AnnouncedIsStatus
<1>. HIDE DEF old, new
<1>8. PICK S \in SUBSET Spaces, from \in Lifecycle!Moved, to \in Lifecycle!Moved :
         S = W /\ from = old /\ to = new
  BY <1>1, <1>5
<1>9. Lifecycle!Move(S, from, to)
  <2>1. \A s \in W : spaces[s].status = old /\ spaces'[s].status = new
    BY <1>3, <1>4 DEF old, new
  <2>2. \A s \in W : RecordsOf(s)' # {} /\ Announced(s)' = new
    BY <1>1, <1>7, <2>1
  <2>3. \A s \in Spaces \ W : /\ spaces'[s].status = spaces[s].status
                              /\ Announced(s)' = Announced(s)
    BY <1>1, <1>6, <1>7
  <2>4. <<old, new>> \in Lifecycle!Moves
    BY <1>5
  <2>. QED
    BY <1>1, <1>8, <2>1, <2>2, <2>3, <2>4 DEF Lifecycle!Move
<1>. QED
  BY <1>9

\* Handlers, deleter, failures and restarts together implement SpaceLifecycle: what a
\* reader of the deletion log is told follows the documents move by move, an account's
\* spaces together, and every other step is a stutter.
THEOREM RefinesLifecycle == Spec => ImplementsLifecycle
<1>1. IInv /\ LifeInv /\ IInv' /\ LifeInv' /\ [Next]_vars
        => [Lifecycle!Next]_<<[s \in Spaces |-> spaces[s].status],
                              [s \in Spaces |-> Announced(s)]>>
  <2>. SUFFICES ASSUME IInv, LifeInv, IInv', LifeInv', [Next]_vars
                PROVE  [Lifecycle!Next]_<<[s \in Spaces |-> spaces[s].status],
                                          [s \in Spaces |-> Announced(s)]>>
    OBVIOUS
  <2>1. CASE UNCHANGED vars
    BY <2>1, RefinesStutter DEF vars
  <2>2. ASSUME NEW p \in Procs, Commit(p)
        PROVE  [Lifecycle!Next]_<<[s \in Spaces |-> spaces[s].status],
                                  [s \in Spaces |-> Announced(s)]>>
    BY <2>2, RefinesRegister, RefinesMove DEF Lifecycle!Next
  <2>3. CASE Next
    BY <2>2, <2>3, OnlyCommits, RefinesStutter
  <2>. QED
    BY <2>1, <2>3
<1>. QED
  BY <1>1, RefinesInit, LifeInit, LifeStep, InductiveInvariant, PTL
  DEF Spec, ImplementsLifecycle, Lifecycle!Spec

=============================================================================
