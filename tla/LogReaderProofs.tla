---------------------------- MODULE LogReaderProofs ----------------------------
(****************************************************************************)
(* Theorems about the nodes that follow the deletion log (DeletionLog) while *)
(* it is being written.  For any page sizes, any number of writers and any  *)
(* finite set of spaces.  The lemmas about pages are those of StoresProofs. *)
(****************************************************************************)
EXTENDS DeletionLog, StoresProofs, SpaceLifecycleProofs, WellFoundedInduction

----------------------------------------------------------------------------
(* The deletion log: what its records say.                                  *)

\* Each entry of an outcome names a space and the owner it has in the snapshot, and the
\* documents it writes keep their owner.
NamesOwners(db, out) ==
    /\ \A e \in out.log : e.group = db[e.space].identity
    /\ \A s \in WrittenBy(out.writes) :
          db[s].status = "absent" \/ out.writes[s].identity = db[s].identity

LEMMA FailNames ==
    ASSUME NEW db, NEW err PROVE NamesOwners(db, Fail(err)) /\ NamesOwners(db, Nothing)
  BY NoDocType DEF NamesOwners, Fail, Nothing

LEMMA SetStatusAllNames ==
    ASSUME NEW db \in [Spaces -> Doc], NEW S, NEW change
    PROVE  NamesOwners(db, SetStatusAll(db, S, change))
<1> DEFINE out == SetStatusAll(db, S, change)
<1>1. \A e \in out.log : e.group = db[e.space].identity
  BY DEF SetStatusAll
<1>2. out.writes = [s \in Spaces |-> IF s \in S THEN Modified(db[s], change) ELSE NoDoc]
  BY DEF SetStatusAll
<1>3. ASSUME NEW s \in WrittenBy(out.writes) PROVE out.writes[s].identity = db[s].identity
  <2>1. s \in Spaces /\ out.writes[s] = Modified(db[s], change)
    BY <1>2, <1>3 DEF WrittenBy, Has, NoDoc
  <2>2. db[s] \in Doc
    BY <2>1
  <2>3. Modified(db[s], change).identity = db[s].identity
    BY <2>2 DEF Modified, Doc
  <2>. QED
    BY <2>1, <2>3
<1>. HIDE DEF out
<1>4. NamesOwners(db, out)
  BY <1>1, <1>3 DEF NamesOwners
<1>. QED
  BY <1>4 DEF out

LEMMA SetStatusTxNames ==
    ASSUME NEW db \in [Spaces -> Doc], NEW s, NEW who, NEW change, NEW old
    PROVE  NamesOwners(db, SetStatusTx(db, s, who, change, old))
  BY SetStatusAllNames, FailNames DEF SetStatusTx

LEMMA LimitedNames ==
    ASSUME NEW db, NEW who, NEW out, NamesOwners(db, out)
    PROVE  NamesOwners(db, Limited(db, who, out))
  BY FailNames DEF Limited

LEMMA WriteNames ==
    ASSUME NEW db, NEW s \in Spaces, NEW doc,
           db[s].status = "absent" \/ doc.identity = db[s].identity
    PROVE  NamesOwners(db, Write(s, doc))
<1>1. /\ Write(s, doc).writes = [NoWrites EXCEPT ![s] = doc]
      /\ Write(s, doc).log = {}
  BY DEF Write, Nothing, Fail
<1>2. /\ WrittenBy(Write(s, doc).writes) \subseteq {s}
      /\ Write(s, doc).writes[s] = doc
  BY <1>1 DEF WrittenBy, Has, NoWrites, NoDoc
<1>. QED
  BY <1>1, <1>2 DEF NamesOwners

LEMMA OperationNames ==
    ASSUME spaces \in [Spaces -> Doc], NEW p, NEW op, NEW who, NEW out,
           Operation(p, op, who, out)
    PROVE  NamesOwners(spaces, out)
<1>1. ASSUME NEW s \in Spaces, NEW force \in BOOLEAN
      PROVE  NamesOwners(spaces, NewStatus(spaces, s, who, force))
  <2> DEFINE changed == SetStatusTx(spaces, s, who, ToCreated, spaces[s].status)
             forced == [changed EXCEPT !.err = "ok"]
  <2>1. NamesOwners(spaces, changed) /\ forced.log = changed.log /\ forced.writes = changed.writes
    BY SetStatusTxNames, ErrorDropped
  <2>2. Revived(spaces, s, who) = Limited(spaces, who, forced)
    BY DEF Revived
  <2>. HIDE DEF changed, forced
  <2>3. NamesOwners(spaces, Revived(spaces, s, who))
    BY <2>1, <2>2, LimitedNames DEF NamesOwners
  <2>4. spaces[s].status = "absent" => NamesOwners(spaces, Write(s, NewDoc(s, who)))
    BY WriteNames
  <2>. QED
    BY <2>3, <2>4, LimitedNames, FailNames DEF NewStatus, Has
<1>2. ASSUME NEW s \in Spaces, NEW period
      PROVE  NamesOwners(spaces, SpaceDelete(spaces, s, who, now, period))
  BY SetStatusTxNames, FailNames DEF SpaceDelete
<1>3. ASSUME NEW s \in Spaces
      PROVE  /\ NamesOwners(spaces, ChangeStatusRestore(spaces, s, who))
             /\ NamesOwners(spaces, ChangeStatusDelete(spaces, s, who, now))
  BY SetStatusTxNames, LimitedNames DEF ChangeStatusRestore, ChangeStatusDelete
<1>4. ASSUME NEW s \in Spaces
      PROVE  /\ \A limit : NamesOwners(spaces, MakeShareable(spaces, s, limit))
             /\ NamesOwners(spaces, MakeUnshareable(spaces, s))
  <2>1. ASSUME NEW shared
        PROVE  NamesOwners(spaces, Write(s, [spaces[s] EXCEPT !.shareable = shared]))
    <3>1. [spaces[s] EXCEPT !.shareable = shared].identity = spaces[s].identity
      BY DEF Doc
    <3>. QED
      BY <3>1, WriteNames
  <2>. QED
    BY <2>1, FailNames DEF MakeShareable, MakeUnshareable
<1>5. /\ NamesOwners(spaces, AccountDelete(spaces, who, now))
      /\ NamesOwners(spaces, AccountRevertDeletion(spaces, who))
  BY SetStatusAllNames, FailNames DEF AccountDelete, AccountRevertDeletion
<1>6. ASSUME NEW s PROVE NamesOwners(spaces, DeleteEntry(spaces, s))
  BY SetStatusTxNames DEF DeleteEntry
<1>. QED
  BY <1>1, <1>2, <1>3, <1>4, <1>5, <1>6 DEF Operation

\* The records of an open transaction: one of a space, under the owner the space has
\* as long as nobody overwrote its document; nor does the transaction change the owner.
LogNames ==
    \A p \in Procs :
        /\ \A r, q \in tx[p].log : r.space = q.space => r = q
        /\ \A r \in tx[p].log :
              r.space \notin tx[p].missed => r.group = spaces[r.space].identity
        /\ \A s \in WrittenBy(tx[p].writes) \ tx[p].missed :
              spaces[s].status = "absent" \/ tx[p].writes[s].identity = spaces[s].identity

LEMMA LogNamesStep == ASSUME IInv, LogNames, Next PROVE LogNames'
<1>. SUFFICES ASSUME NEW p \in Procs
              PROVE  /\ \A r, q \in tx'[p].log : r.space = q.space => r = q
                     /\ \A r \in tx'[p].log : r.space \notin tx'[p].missed =>
                            r.group = spaces'[r.space].identity
                     /\ \A s \in WrittenBy(tx'[p].writes) \ tx'[p].missed :
                            \/ spaces'[s].status = "absent"
                            \/ tx'[p].writes[s].identity = spaces'[s].identity
  BY DEF LogNames
<1>1. CASE Ends(p)
  BY <1>1, NoTxType DEF Ends
<1>2. CASE Continues(p)
  <2>1. tx'[p].log = tx[p].log /\ tx[p].missed \subseteq tx'[p].missed
    BY <1>2 DEF Continues
  <2>2. ASSUME NEW r \in tx[p].log, r.space \notin tx'[p].missed
        PROVE  r.group = spaces'[r.space].identity
    <3>1. Open(p) /\ r.space \in Spaces
      <4>1. Open(p)
        BY NoTxType, InvSplit DEF Core, IdleIsClean
      <4>2. r \in Record
        BY InvSplit DEF Core, CoreTypes, Tx
      <4>. QED
        BY <4>1, <4>2 DEF Record
    <3>2. spaces'[r.space] = spaces[r.space]
      BY <1>2, <2>2, <3>1 DEF Continues
    <3>. QED
      BY <2>1, <2>2, <3>2 DEF LogNames
  <2>3. tx'[p].writes = tx[p].writes /\ (WrittenBy(tx[p].writes) # {} => Open(p))
    BY <1>2, NoTxType, InvSplit DEF Continues, Core, IdleIsClean
  <2>4. ASSUME NEW s \in WrittenBy(tx[p].writes) \ tx'[p].missed
        PROVE  spaces'[s] = spaces[s] /\ s \notin tx[p].missed
    BY <1>2, <2>3 DEF Continues, WrittenBy
  <2>. QED
    BY <2>1, <2>2, <2>3, <2>4 DEF LogNames
<1>3. CASE Starts(p)
  <2>1. PICK op, who, out : Operation(p, op, who, out) /\ StartsWith(p, op, who, out)
    BY <1>3 DEF Starts
  <2>2. /\ tx'[p].log = {Stamped(e, nextId) : e \in out.log} /\ spaces' = spaces
        /\ tx'[p].writes = out.writes
    BY <1>3, <2>1 DEF StartsWith, Starts
  <2>3. NamesOwners(spaces, out)
    BY <2>1, OperationNames, InvSplit DEF Core, CoreTypes
  <2>4. \A r \in tx'[p].log : /\ r.group = spaces[r.space].identity
                             /\ r.id = nextId
    BY <2>2, <2>3 DEF NamesOwners, Stamped
  <2>5. \A r \in tx'[p].log : r.status = LogStatus(tx'[p].writes[r.space].status)
    BY StepInv, InvSplit, CoversAllNext DEF Core, Covers
  <2>6. \A r \in tx'[p].log :
            r = [id |-> nextId, space |-> r.space, group |-> spaces[r.space].identity,
                 status |-> LogStatus(tx'[p].writes[r.space].status)]
    BY <2>2, <2>4, <2>5 DEF Stamped
  <2>7. \A s \in WrittenBy(tx'[p].writes) :
            spaces[s].status = "absent" \/ tx'[p].writes[s].identity = spaces[s].identity
    BY <2>2, <2>3 DEF NamesOwners
  <2>. QED
    BY <2>2, <2>4, <2>6, <2>7
<1>. QED
  BY <1>1, <1>2, <1>3, StepShape

\* Records appear when a transaction commits, all of it, or one of a change of owner.
LEMMA LogGrows ==
    ASSUME IInv, Next
    PROVE  \/ UNCHANGED <<statusRecords, ownershipRecords>>
           \/ /\ ownershipRecords' = ownershipRecords
              /\ \E p \in Procs : Commit(p) /\ statusRecords' = statusRecords \cup tx[p].log
           \/ /\ statusRecords' = statusRecords
              /\ \E c \in transfers : InsertOwnershipChange(c)
<1>1. ASSUME NEW p \in Procs, Commit(p)
      PROVE  statusRecords' = statusRecords \cup tx[p].log /\ ownershipRecords' = ownershipRecords
  BY <1>1 DEF Commit
<1>2. ASSUME NEW c \in transfers, InsertOwnershipChange(c) PROVE statusRecords' = statusRecords
  BY <1>2 DEF InsertOwnershipChange
<1>. QED
  BY <1>1, <1>2
     DEF Next, RequestNewStatus, RequestSpaceDelete, RequestAccountDelete,
     RequestAccountRevertDeletion, RequestChangeStatus, RequestMakeShareable,
     RequestMakeUnshareable, Request, RequestAclOwnerChange, ChangeOwner, DrawOwnershipId,
     LoseTransfer, Abort, LoseTx, DeleterQueryOld, DeleterQueryNew, DeleterProcessEntry,
     DeleterDone, DeleterCursorFails, DeleterGiveUp, Tick, Crash

AnyRecord == Record \cup OwnershipRecord

LEMMA RecordTypes ==
    ASSUME IInv
    PROVE  /\ deletionLog \subseteq AnyRecord
           /\ \A r \in deletionLog : r \in statusRecords <=> r.status \in LogStatuses
<1>1. statusRecords \subseteq Record /\ ownershipRecords \subseteq OwnershipRecord
  BY InvSplit DEF Core, CoreTypes, RestTypes
<1>. QED
  BY <1>1 DEF deletionLog, AnyRecord, Record, OwnershipRecord, LogStatuses

LEMMA LogIsFinite ==
    ASSUME IsFiniteSet(Spaces), IInv, LogNames, Next, IsFiniteSet(deletionLog)
    PROVE  IsFiniteSet(deletionLog')
<1>1. CASE UNCHANGED <<statusRecords, ownershipRecords>>
  BY <1>1 DEF deletionLog
<1>2. ASSUME NEW p \in Procs, ownershipRecords' = ownershipRecords,
             statusRecords' = statusRecords \cup tx[p].log
      PROVE  IsFiniteSet(deletionLog')
  <2>1. deletionLog' = deletionLog \cup tx[p].log
    BY <1>2 DEF deletionLog
  <2> DEFINE f == [s \in Spaces |-> CHOOSE r \in tx[p].log : r.space = s]
             image == {f[s] : s \in Spaces}
  <2>2. tx[p].log \subseteq image
    <3>. SUFFICES ASSUME NEW r \in tx[p].log PROVE r \in image
      OBVIOUS
    <3>1. r.space \in Spaces
      BY InvSplit DEF Core, CoreTypes, Tx, Record
    <3>2. f[r.space] = r
      BY <3>1 DEF LogNames
    <3>. QED
      BY <3>1, <3>2
  <2>3. IsFiniteSet(image)
    <3>1. f \in [Spaces -> image]
      OBVIOUS
    <3>. HIDE DEF f
    <3>2. f \in Surjection(Spaces, image)
      BY <3>1 DEF Surjection
    <3>. QED
      BY <3>2, FS_Surjection
  <2>4. IsFiniteSet(tx[p].log)
    <3>. HIDE DEF image
    <3>. QED
      BY <2>2, <2>3, FS_Subset
  <2>. QED
    BY <2>1, <2>4, FS_Union
<1>3. ASSUME NEW c \in transfers, InsertOwnershipChange(c), statusRecords' = statusRecords
      PROVE  IsFiniteSet(deletionLog')
  <2>1. \E q : deletionLog' = deletionLog \cup {q}
    BY <1>3 DEF InsertOwnershipChange, deletionLog
  <2>. QED
    BY <2>1, FS_AddElement
<1>. QED
  BY <1>1, <1>2, <1>3, LogGrows

----------------------------------------------------------------------------
(* The deletion log: its reader.                                            *)

\* Of one space, ObjectIDs are ordered as the ids of the records.
LEMMA ObjectIdOrder ==
    ASSUME IsFiniteSet(Spaces), NEW r \in AnyRecord, NEW q \in AnyRecord
    PROVE  /\ ObjectId(r) \in Nat
           /\ r.space = q.space => (ObjectId(q) <= ObjectId(r) <=> q.id <= r.id)
<1> DEFINE N == Cardinality(Spaces)
<1>1. N \in Nat /\ r.space \in Spaces /\ r.id \in Nat /\ q.id \in Nat
  BY FS_CardinalityType DEF AnyRecord, Record, OwnershipRecord
<1>2. Rank[r.space] \in Nat /\ Rank[r.space] < N
  BY <1>1, RankAssumption
<1>. HIDE DEF N
<1>3. ASSUME NEW i \in Nat, NEW j \in Nat PROVE i <= j => i * N <= j * N
  BY <1>1, <1>3
<1>4. ASSUME NEW i \in Nat, NEW j \in Nat, i < j PROVE i * N < j * N
  <2>1. (i + 1) * N <= j * N
    BY <1>3, <1>4
  <2>2. (i + 1) * N = i * N + N
    BY <1>1
  <2>3. i * N \in Nat /\ j * N \in Nat /\ N > 0
    BY <1>1, <1>2
  <2>. QED
    BY <1>1, <2>1, <2>2, <2>3
<1>5. r.id * N \in Nat /\ q.id * N \in Nat
  BY <1>1
<1>6. ObjectId(r) = r.id * N + Rank[r.space] /\ ObjectId(q) = q.id * N + Rank[q.space]
  BY DEF ObjectId, N
<1>7. q.id <= r.id <=> q.id * N <= r.id * N
  BY <1>1, <1>3, <1>4, <1>5
<1>. QED
  BY <1>2, <1>5, <1>6, <1>7

\* What the reader rests on, besides IInv and LogNames.
ReaderInv ==
    /\ cursor \in Nat
    /\ told \in [Spaces -> LogStatuses \cup {"silent"}]
    /\ IsFiniteSet(deletionLog)
    /\ ReaderIsRight

LEMMA ReaderInitInv ==
    ASSUME ReaderInit PROVE IInv /\ LogNames /\ ReaderInv
<1>1. \A s \in Spaces : \A d \in EstablishedDocs(s) : d \in Doc /\ d.status = "created"
  <2>. SUFFICES ASSUME NEW s \in Spaces, NEW d \in EstablishedDocs(s)
                PROVE  d \in Doc /\ d.status = "created"
    OBVIOUS
  <2>1. PICK i \in Signers[s] :
            d = [NoDoc EXCEPT !.identity = i, !.status = "created", !.type = TypeOf[s],
                              !.shareable = s \in SharedAtStart]
    BY DEF EstablishedDocs
  <2>2. i \in Identities /\ TypeOf[s] \in Types /\ (s \in SharedAtStart) \in BOOLEAN
    BY HeaderAssumption DEF Types
  <2>3. d = [identity |-> i, status |-> "created", type |-> TypeOf[s],
             shareable |-> s \in SharedAtStart, deletionTimestamp |-> 0,
             toBeDeletedTimestamp |-> -1]
    BY <2>1 DEF NoDoc, Missing
  <2>. QED
    BY <2>2, <2>3 DEF Doc, Phases
<1>2. \A s \in Spaces : spaces[s] \in Doc /\ spaces[s].status = "created"
  BY <1>1 DEF ReaderInit
<1>3. spaces \in [Spaces -> Doc]
  BY <1>2 DEF ReaderInit
<1>4. CoreTypes
  BY <1>3, NoTxType DEF ReaderInit, Quiet, CoreTypes
<1>5. RestTypes
  BY BoundsAssumption DEF ReaderInit, Quiet, RestTypes, NoRun
<1>6. (\A s \in Spaces : RecordsOf(s) = {}) /\ \A p \in Procs : tx[p] = NoTx
  BY DEF ReaderInit, Quiet, RecordsOf
<1>7. IdleIsClean /\ IdsAreDrawn /\ AbsentIsSilent /\ OutcomeStillHolds /\ LogNames
  BY <1>6, NoTxType
     DEF ReaderInit, Quiet, IdleIsClean, IdsAreDrawn, AbsentIsSilent, OutcomeStillHolds, LogNames
<1>8. LogCoversWrites
  BY <1>6, NoTxCovers, CoversAll
<1>9. LogMatchesStatus
  BY <1>2, <1>6 DEF LogMatchesStatus
<1>10. ReaderInv
  <2>1. ReaderIsRight
    BY <1>6 DEF ReaderIsRight
  <2>2. IsFiniteSet(deletionLog)
    BY FS_EmptySet DEF ReaderInit, Quiet, deletionLog
  <2>. QED
    BY <2>1, <2>2 DEF ReaderInit, ReaderInv
<1>. QED
  BY <1>4, <1>5, <1>7, <1>8, <1>9, <1>10, InvSplit DEF Core

\* Whatever the coordinator does, a new last record is ahead of the reader, or late.
LEMMA ReaderRightStep ==
    ASSUME IsFiniteSet(Spaces), IInv, LogNames, ReaderInv, CoordinatorStep
    PROVE  ReaderInv'
<1>1. /\ Next /\ UNCHANGED <<cursor, told>>
      /\ late' = late \cup {r \in deletionLog' \ deletionLog : ObjectId(r) <= cursor}
  BY DEF CoordinatorStep
<1>2. /\ LogMatchesStatus /\ LogMatchesStatus'
      /\ \A r \in statusRecords' \ statusRecords : \A q \in RecordsOf(r.space) : q.id < r.id
      /\ statusRecords \subseteq statusRecords'
      /\ \A r \in statusRecords' : r \in statusRecords \/ r \notin deletionLog
  <2>1. IInv' /\ StepFacts
    BY <1>1, StepInv
  <2>2. statusRecords \subseteq statusRecords'
    BY <1>1, LogGrows
  <2>3. \A r \in statusRecords' : r.status \in LogStatuses
    BY <2>1, InvSplit DEF Core, CoreTypes, Record
  <2>. QED
    BY <2>1, <2>2, <2>3, RecordTypes DEF IInv, StepFacts
<1>3. ASSUME NEW s \in Spaces, NEW r \in RecordsOf(s)', IsLast(r)', ObjectId(r) <= cursor,
             r \notin late'
      PROVE  told[s] = LogStatus(spaces'[s].status)
  <2>1. r \in statusRecords /\ r.space = s
    BY <1>1, <1>2, <1>3 DEF RecordsOf, deletionLog
  <2>2. r \in RecordsOf(s) /\ IsLast(r) /\ r \notin late
    BY <1>1, <1>2, <1>3, <2>1 DEF RecordsOf, IsLast
  <2>3. told[s] = LogStatus(spaces[s].status)
    BY <1>3, <2>2 DEF ReaderInv, ReaderIsRight
  <2>4. r.status = LogStatus(spaces[s].status) /\ r.status = LogStatus(spaces'[s].status)
    BY <1>2, <1>3, <2>2 DEF LogMatchesStatus
  <2>. QED
    BY <2>3, <2>4
<1>4. ReaderIsRight'
  BY <1>1, <1>3 DEF ReaderIsRight, ObjectId
<1>. QED
  BY <1>1, <1>4, LogIsFinite DEF ReaderInv

\* A record as the reader is given it.
Given(r) == [r EXCEPT !.id = ObjectId(r)]

LEMMA VisibleFacts ==
    ASSUME IsFiniteSet(Spaces), IInv, IsFiniteSet(deletionLog)
    PROVE  /\ IsFiniteSet(Visible)
           /\ \A v \in Visible : v.id \in Nat /\ \E r \in deletionLog : v = Given(r)
           /\ \A r \in deletionLog : /\ Given(r) \in Visible /\ Given(r).id = ObjectId(r)
                                    /\ Given(r).space = r.space /\ Given(r).status = r.status
                                    /\ r \in AnyRecord /\ ObjectId(r) \in Nat
<1> DEFINE f == [r \in deletionLog |-> Given(r)]
<1>1. deletionLog \subseteq AnyRecord
  BY RecordTypes
<1>2. Visible = {Given(r) : r \in deletionLog}
  BY DEF Visible, Given
<1>3. IsFiniteSet(Visible)
  <2>1. f \in [deletionLog -> Visible] /\ \A v \in Visible : \E r \in deletionLog : f[r] = v
    <3>. HIDE DEF Given
    <3>. QED
      BY <1>2
  <2>. HIDE DEF f
  <2>2. f \in Surjection(deletionLog, Visible)
    BY <2>1 DEF Surjection
  <2>. QED
    BY <2>2, FS_Surjection
<1>4. \A r \in deletionLog : /\ Given(r) \in Visible /\ Given(r).id = ObjectId(r)
                            /\ Given(r).space = r.space /\ Given(r).status = r.status
  BY <1>1, <1>2 DEF Given, AnyRecord, Record, OwnershipRecord
<1>5. \A r \in deletionLog : ObjectId(r) \in Nat
  BY <1>1, ObjectIdOrder
<1>. QED
  BY <1>1, <1>2, <1>3, <1>4, <1>5

\* A record of a change of status of the space.
Tells(v, s) == v.space = s /\ v.status \in LogStatuses

\* What a page does to the reader.
LEMMA PageFacts ==
    ASSUME IsFiniteSet(Spaces), IInv, ReaderInv, NEW limit \in Limits,
           ReadPage(GetAfter(Visible, cursor, limit))
    PROVE  LET page == GetAfter(Visible, cursor, limit).page
           IN  /\ cursor' \in Nat /\ cursor < cursor'
               /\ \A v \in page : v \in Visible /\ v.id > cursor /\ v.id <= cursor'
               /\ \A v \in Visible : v.id > cursor /\ v.id <= cursor' => v \in page
               /\ told' \in [Spaces -> LogStatuses \cup {"silent"}]
               /\ \A s \in Spaces :
                     \/ (\A v \in page : ~Tells(v, s)) /\ told'[s] = told[s]
                     \/ \E z \in page : /\ Tells(z, s) /\ told'[s] = z.status
                                       /\ \A v \in page : Tells(v, s) => v.id <= z.id
<1> DEFINE page == GetAfter(Visible, cursor, limit).page
           of(s) == StatusRecordsOf(page, s)
<1>1. /\ page # {} /\ cursor' = Youngest(page).id
      /\ told' = [s \in Spaces |-> IF of(s) = {} THEN told[s] ELSE Youngest(of(s)).status]
  BY DEF ReadPage
<1>2. IsFiniteSet(Visible) /\ \A v \in Visible : v.id \in Nat
  BY VisibleFacts DEF ReaderInv
<1>3. page \subseteq {v \in Visible : v.id > cursor}
  BY PageIsNewer
<1>4. \A r \in page : \A q \in Visible : q.id > cursor /\ q.id <= r.id => q \in page
  <2>1. limit \in Nat /\ cursor \in Nat
    BY LimitsOfReaderAssumption DEF ReaderInv
  <2>. QED
    BY <1>2, <2>1, PageIsInitial
<1>. HIDE DEF page
<1>5. ASSUME NEW P \in SUBSET page, P # {}
      PROVE  Youngest(P) \in P /\ \A q \in P : q.id <= Youngest(P).id
  <2>1. P \subseteq Visible
    BY <1>3
  <2>2. IsFiniteSet(P)
    BY <1>2, <2>1, FS_Subset
  <2>3. \E r \in P : \A q \in P : q.id <= r.id
    BY <1>2, <1>5, <2>1, <2>2, SetHasLast
  <2>. QED
    BY <2>3 DEF Youngest
<1>6. Youngest(page) \in page /\ \A q \in page : q.id <= cursor'
  BY <1>1, <1>5
<1>7. cursor' \in Nat /\ cursor < cursor'
  BY <1>1, <1>2, <1>3, <1>6 DEF ReaderInv
<1>8. ASSUME NEW s \in Spaces
      PROVE  \/ (\A v \in page : ~Tells(v, s)) /\ told'[s] = told[s]
             \/ \E z \in page : /\ Tells(z, s) /\ told'[s] = z.status
                               /\ \A v \in page : Tells(v, s) => v.id <= z.id
  <2>0. of(s) = {v \in page : Tells(v, s)}
    BY DEF StatusRecordsOf, Tells
  <2>1. CASE of(s) = {}
    BY <1>1, <2>0, <2>1
  <2>2. CASE of(s) # {}
    <3>1. Youngest(of(s)) \in of(s) /\ \A v \in of(s) : v.id <= Youngest(of(s)).id
      <4>1. of(s) \in SUBSET page
        BY <2>0
      <4>. HIDE DEF of
      <4>. QED
        BY <1>5, <2>2, <4>1
    <3>2. told'[s] = Youngest(of(s)).status
      BY <1>1, <2>2
    <3>. HIDE DEF of
    <3>. QED
      BY <2>0, <3>1, <3>2
  <2>. QED
    BY <2>1, <2>2
<1>9. told' \in [Spaces -> LogStatuses \cup {"silent"}]
  <2>2. \A s \in Spaces : told'[s] \in LogStatuses \cup {"silent"}
    BY <1>8 DEF ReaderInv, Tells
  <2>. HIDE DEF of
  <2>. QED
    BY <1>1, <2>2
<1>. QED
  BY <1>3, <1>4, <1>6, <1>7, <1>8, <1>9, <1>1 DEF page

LEMMA ReadRightStep ==
    ASSUME IsFiniteSet(Spaces), IInv, ReaderInv, DeletionLogRequest
    PROVE  ReaderInv'
<1>1. PICK limit \in Limits : ReadPage(GetAfter(Visible, cursor, limit))
  BY DEF DeletionLogRequest
<1> DEFINE page == GetAfter(Visible, cursor, limit).page
<1>2. /\ cursor' \in Nat /\ cursor < cursor'
      /\ \A v \in page : v \in Visible /\ v.id > cursor
      /\ \A v \in Visible : v.id > cursor /\ v.id <= cursor' => v \in page
      /\ told' \in [Spaces -> LogStatuses \cup {"silent"}]
      /\ \A s \in Spaces :
            \/ (\A v \in page : ~Tells(v, s)) /\ told'[s] = told[s]
            \/ \E z \in page : /\ Tells(z, s) /\ told'[s] = z.status
                              /\ \A v \in page : Tells(v, s) => v.id <= z.id
  BY <1>1, PageFacts
<1>3. UNCHANGED <<spaces, statusRecords, deletionLog, late>>
  BY <1>1 DEF ReadPage, vars, deletionLog
<1>. HIDE DEF page
<1>4. ASSUME NEW s \in Spaces, NEW r \in RecordsOf(s), IsLast(r), ObjectId(r) <= cursor',
             r \notin late
      PROVE  told'[s] = LogStatus(spaces[s].status)
  <2>1. /\ r \in deletionLog /\ r \in AnyRecord /\ r.space = s /\ ObjectId(r) \in Nat
        /\ Given(r) \in Visible /\ Given(r).id = ObjectId(r) /\ Tells(Given(r), s)
    <3>1. r \in statusRecords /\ r \in deletionLog /\ r.space = s
      BY DEF RecordsOf, deletionLog
    <3>. QED
      BY <3>1, VisibleFacts, RecordTypes DEF ReaderInv, Tells
  <2>2. ASSUME NEW v \in page, Tells(v, s)
        PROVE  \E q \in RecordsOf(s) : /\ v.status = q.status /\ v.id = ObjectId(q)
                                       /\ ObjectId(q) <= ObjectId(r)
                                       /\ (ObjectId(r) <= ObjectId(q) => IsLast(q))
    <3>1. PICK q \in deletionLog : v = Given(q)
      BY <1>2, VisibleFacts DEF ReaderInv
    <3>2. /\ q \in RecordsOf(s) /\ q.space = s /\ v.status = q.status /\ v.id = ObjectId(q)
          /\ q \in AnyRecord
      <4>1. /\ v.space = q.space /\ v.status = q.status /\ v.id = ObjectId(q)
            /\ q \in AnyRecord
        BY <3>1, VisibleFacts DEF ReaderInv
      <4>. QED
        BY <2>2, <3>1, <4>1, RecordTypes DEF RecordsOf, Tells
    <3>3. q.id <= r.id
      BY <1>4, <2>1, <3>2 DEF IsLast
    <3>4. /\ ObjectId(q) <= ObjectId(r)
          /\ ObjectId(r) <= ObjectId(q) => r.id <= q.id
      BY <2>1, <3>2, <3>3, ObjectIdOrder
    <3>5. r.id <= q.id => IsLast(q)
      <4>1. \A x \in RecordsOf(s) : x.id \in Nat /\ x.id <= r.id
        <5>1. statusRecords \subseteq Record
          BY InvSplit DEF Core, CoreTypes
        <5>. QED
          BY <1>4, <2>1, <5>1 DEF IsLast, RecordsOf, Record
      <4>2. q.id \in Nat /\ r.id \in Nat
        BY <2>1, <3>2 DEF AnyRecord, Record, OwnershipRecord
      <4>. QED
        BY <3>2, <4>1, <4>2 DEF IsLast
    <3>. QED
      BY <3>2, <3>4, <3>5
  <2>3. CASE ObjectId(r) <= cursor
    <3>1. \A v \in page : ~Tells(v, s)
      <4>. SUFFICES ASSUME NEW v \in page, Tells(v, s) PROVE FALSE
        OBVIOUS
      <4>1. v.id > cursor /\ v.id <= ObjectId(r) /\ v.id \in Nat
        BY <1>2, <2>2, VisibleFacts DEF ReaderInv
      <4>. QED
        BY <2>1, <2>3, <4>1 DEF ReaderInv
    <3>2. told'[s] = told[s]
      BY <1>2, <3>1
    <3>. QED
      BY <1>4, <2>3, <3>2 DEF ReaderInv, ReaderIsRight
  <2>4. CASE ~(ObjectId(r) <= cursor)
    <3>1. Given(r) \in page
      BY <1>2, <1>4, <2>1, <2>4 DEF ReaderInv
    <3>2. PICK z \in page : /\ Tells(z, s) /\ told'[s] = z.status
                           /\ \A v \in page : Tells(v, s) => v.id <= z.id
      BY <1>2, <2>1, <3>1
    <3>3. PICK q \in RecordsOf(s) : /\ z.status = q.status /\ z.id = ObjectId(q)
                                    /\ ObjectId(r) <= ObjectId(q) => IsLast(q)
      BY <2>2, <3>2
    <3>4. ObjectId(r) <= ObjectId(q)
      BY <2>1, <3>1, <3>2, <3>3
    <3>. QED
      BY <3>2, <3>3, <3>4 DEF IInv, LogMatchesStatus
  <2>. QED
    BY <2>3, <2>4
<1>5. ReaderIsRight'
  BY <1>3, <1>4 DEF ReaderIsRight, RecordsOf, IsLast, ObjectId
<1>. QED
  BY <1>2, <1>3, <1>5 DEF ReaderInv

\* A query that returns less than its limit returns all there is.
LEMMA ShortIsAll ==
    ASSUME NEW records, IsFiniteSet(records), \A x \in records : x.id \in Nat,
           \A x, y \in records : x.id = y.id => x = y, NEW after \in Nat, NEW n \in Nat,
           Cardinality(FirstAfter(records, after, n)) # n
    PROVE  \A r \in records : r.id > after => r \in FirstAfter(records, after, n)
<1> DEFINE rest == {x \in records : x.id > after}
           Upto(x) == {y \in rest : y.id <= x.id}
           first == FirstAfter(records, after, n)
<1>1. first = {r \in rest : Cardinality(Upto(r)) <= n}
  BY DEF FirstAfter
<1>2. /\ IsFiniteSet(rest) /\ IsFiniteSet(first) /\ \A x \in rest : IsFiniteSet(Upto(x))
      /\ Cardinality(first) \in Nat /\ \A x \in rest : Cardinality(Upto(x)) \in Nat
  <2>1. rest \subseteq records /\ first \subseteq rest /\ \A x \in rest : Upto(x) \subseteq rest
    BY <1>1
  <2>. HIDE DEF rest, first, Upto
  <2>2. IsFiniteSet(rest)
    BY <2>1, FS_Subset
  <2>3. IsFiniteSet(first) /\ \A x \in rest : IsFiniteSet(Upto(x))
    BY <2>1, <2>2, FS_Subset
  <2>. QED
    BY <2>2, <2>3, FS_CardinalityType
<1>3. Cardinality(first) <= n
  <2>1. CASE first = {}
    BY <2>1, FS_EmptySet
  <2>2. CASE first # {}
    <3>1. first \subseteq rest /\ \A m \in first : m.id \in Nat
      BY <1>1
    <3>. HIDE DEF first
    <3>2. PICK m \in first : \A x \in first : x.id <= m.id
      BY <1>2, <2>2, <3>1, SetHasLast
    <3>3. first \subseteq Upto(m) /\ m \in rest /\ Cardinality(Upto(m)) <= n
      BY <1>1, <3>1, <3>2
    <3>. HIDE DEF Upto, rest
    <3>4. Cardinality(first) <= Cardinality(Upto(m))
      BY <1>2, <3>3, FS_Subset
    <3>. QED
      BY <1>2, <3>3, <3>4
  <2>. QED
    BY <2>1, <2>2
<1>4. ASSUME rest \ first # {} PROVE FALSE
  <2>1. PICK q \in rest \ first : \A x \in rest \ first : q.id <= x.id
    <3>1. (\A x \in rest \ first : x.id \in Nat) /\ rest \ first \subseteq rest
      OBVIOUS
    <3>. HIDE DEF rest, first
    <3>2. IsFiniteSet(rest \ first)
      BY <1>2, <3>1, FS_Subset
    <3>. QED
      BY <1>4, <3>1, <3>2, SetHasFirst
  <2>2. Upto(q) \subseteq first \cup {q}
    <3>. SUFFICES ASSUME NEW y \in Upto(q), y # q PROVE y \in first
      OBVIOUS
    <3>1. y \in rest /\ y.id <= q.id /\ y.id # q.id /\ y.id \in Nat /\ q.id \in Nat
      BY <2>1
    <3>. HIDE DEF rest, first, Upto
    <3>. QED
      BY <2>1, <3>1
  <2>3. ~(Cardinality(Upto(q)) <= n) /\ q \in rest /\ q \notin first
    BY <1>1, <2>1
  <2>. HIDE DEF rest, first, Upto
  <2>4. /\ IsFiniteSet(first \cup {q})
        /\ Cardinality(first \cup {q}) = Cardinality(first) + 1
    BY <1>2, <2>3, FS_AddElement
  <2>5. Cardinality(Upto(q)) <= Cardinality(first \cup {q})
    BY <2>2, <2>4, FS_Subset
  <2>6. Cardinality(first) = n
    BY <1>2, <1>3, <2>3, <2>4, <2>5
  <2>. QED
    BY <2>6 DEF first
<1>. QED
  BY <1>4

----------------------------------------------------------------------------
(* The deletion log: records of changes of owner.                           *)

\* Owner changes whose record has its id and is not visible yet.
Drawn == {c \in transfers : c.at = "insert"}

\* What a step does to AclAddRecord calls that change an owner.
LEMMA TransferShape ==
    ASSUME IInv, Next
    PROVE  \/ transfers' \subseteq transfers /\ ownershipRecords' = ownershipRecords
           \/ /\ \E c \in Transfer : /\ c.at = "change"
                                     /\ spaces[c.space].status # "absent"
                                     /\ transfers' = transfers \cup {c}
              /\ UNCHANGED <<spaces, statusRecords, ownershipRecords, nextId, tx>>
           \/ \E c \in transfers : ChangeOwner(c)
           \/ \E c \in transfers : DrawOwnershipId(c)
           \/ \E c \in transfers : InsertOwnershipChange(c)
<1>1. CASE RequestAclOwnerChange
  <2>1. PICK s \in Spaces, who \in NewOwners :
            /\ requests' = requests + 1
            /\ spaces[s].status = "created"
            /\ transfers' = transfers \cup
                    {[call |-> requests', space |-> s, identity |-> spaces[s].identity,
                      owner |-> who, at |-> "change", id |-> 0]}
            /\ UNCHANGED <<spaces, statusRecords, ownershipRecords, nextId, tx>>
    BY <1>1 DEF RequestAclOwnerChange
  <2> DEFINE c == [call |-> requests', space |-> s, identity |-> spaces[s].identity,
                   owner |-> who, at |-> "change", id |-> 0]
  <2>2. c \in Transfer
    <3>1. requests \in Nat /\ spaces[s] \in Doc
      BY InvSplit, BoundsAssumption DEF Core, CoreTypes, RestTypes
    <3>2. requests' \in Nat /\ spaces[s].identity \in Identities \cup {Nobody}
      BY <2>1, <3>1 DEF Doc
    <3>. QED
      BY <3>2 DEF Transfer
  <2>3. c.at = "change" /\ spaces[c.space].status # "absent"
    BY <2>1
  <2>. QED
    BY <2>1, <2>2, <2>3
<1>2. ASSUME NEW c \in transfers, LoseTransfer(c)
      PROVE  transfers' \subseteq transfers /\ ownershipRecords' = ownershipRecords
  BY <1>2 DEF LoseTransfer
<1>3. CASE UNCHANGED <<transfers, ownershipRecords>>
  BY <1>3
<1>. QED
  BY <1>1, <1>2, <1>3
     DEF Next, RequestNewStatus, RequestSpaceDelete, RequestAccountDelete,
     RequestAccountRevertDeletion, RequestChangeStatus, RequestMakeShareable,
     RequestMakeUnshareable, Request, Commit, Abort, LoseTx, DeleterQueryOld,
     DeleterQueryNew, DeleterProcessEntry, DeleterDone, DeleterCursorFails, DeleterGiveUp,
     Tick, Crash

\* The space was given to one of the new owners, and stays theirs.
PassedOn(s) == spaces[s].status # "absent" /\ spaces[s].identity \in NewOwners

\* The status records that name the former owner are below the bound.
FormerBelow(s, former, bound) ==
    former \notin NewOwners => \A r \in RecordsOf(s) : r.group = former => r.id < bound

\* Ids of ownership records are drawn from the counter, and are ids of nothing else.
OwnIds ==
    /\ \A q \in Drawn \cup ownershipRecords :
          /\ q.id < nextId
          /\ \A r \in statusRecords : r.id # q.id
          /\ \A p \in Procs : \A r \in tx[p].log : r.id # q.id
    /\ \A c, d \in Drawn : c.id = d.id => c = d
    /\ \A q, r \in ownershipRecords : q.id = r.id => q = r
    /\ \A c \in Drawn : \A q \in ownershipRecords : c.id # q.id

OwnersLeft ==
    /\ \A c \in transfers : /\ spaces[c.space].status # "absent"
                            /\ c.at # "change" => PassedOn(c.space)
    /\ \A c \in Drawn : FormerBelow(c.space, c.identity, c.id)
    /\ \A q \in ownershipRecords : PassedOn(q.space) /\ FormerBelow(q.space, q.group, q.id)

\* Transactions draw ids that no ownership record has.
LEMMA LogIdsDiffer ==
    ASSUME IInv, OwnIds, Next, NEW q \in Drawn \cup ownershipRecords
    PROVE  /\ q.id < nextId'
           /\ \A r \in statusRecords' : r.id # q.id
           /\ \A p \in Procs : \A r \in tx'[p].log : r.id # q.id
<1>1. nextId \in Nat /\ nextId' \in Nat /\ nextId <= nextId' /\ q.id < nextId /\ q.id \in Nat
  <2>1. nextId \in Nat /\ nextId' \in {nextId, nextId + 1}
    <3>1. ASSUME NEW p, NEW op, NEW who, NEW target, NEW out, Begin(p, op, who, target, out)
          PROVE  nextId' \in {nextId, nextId + 1}
      BY <3>1 DEF Begin
    <3>2. ASSUME NEW c \in transfers,
                 \/ ChangeOwner(c) \/ DrawOwnershipId(c)
                 \/ InsertOwnershipChange(c) \/ LoseTransfer(c)
          PROVE  nextId' \in {nextId, nextId + 1}
      BY <3>2 DEF ChangeOwner, DrawOwnershipId, InsertOwnershipChange, LoseTransfer
    <3>3. ASSUME NEW s \in Spaces, DeleterProcessEntry(s)
          PROVE  nextId' \in {nextId, nextId + 1}
      BY <3>1, <3>3 DEF DeleterProcessEntry
    <3>4. ASSUME NEW w \in Workers, NEW op, NEW who, NEW target, NEW out,
                 Request(w, op, who, target, out)
          PROVE  nextId' \in {nextId, nextId + 1}
      BY <3>1, <3>4 DEF Request
    <3>5. nextId' \in {nextId, nextId + 1}
      BY <3>2, <3>3, <3>4
         DEF Next, RequestNewStatus, RequestSpaceDelete, RequestAccountDelete,
         RequestAccountRevertDeletion, RequestChangeStatus, RequestMakeShareable,
         RequestMakeUnshareable, RequestAclOwnerChange, Commit, Abort, LoseTx,
         DeleterQueryOld, DeleterQueryNew, DeleterDone, DeleterCursorFails, DeleterGiveUp,
         Tick, Crash
    <3>. QED
      BY <3>5, InvSplit DEF Core, CoreTypes
  <2>2. q.id \in Nat
    BY InvSplit DEF RestTypes, Drawn, Transfer, OwnershipRecord
  <2>. QED
    BY <2>1, <2>2 DEF OwnIds
<1>2. \A r \in statusRecords' : r.id # q.id
  BY LogGrows DEF OwnIds
<1>3. ASSUME NEW p \in Procs, NEW r \in tx'[p].log PROVE r.id # q.id
  <2>1. CASE Ends(p)
    BY <1>3, <2>1, NoTxType DEF Ends
  <2>2. CASE Continues(p)
    BY <1>3, <2>2 DEF Continues, OwnIds
  <2>3. CASE Starts(p)
    <3>1. PICK op, who, out : StartsWith(p, op, who, out)
      BY <2>3 DEF Starts
    <3>2. r.id = nextId
      BY <1>3, <3>1 DEF StartsWith, Stamped
    <3>. QED
      BY <1>1, <3>2
  <2>. QED
    BY <2>1, <2>2, <2>3, StepShape
<1>. QED
  BY <1>1, <1>2, <1>3

LEMMA OwnIdsStep == ASSUME IInv, OwnIds, Next PROVE OwnIds'
<1>1. CASE Drawn' \subseteq Drawn /\ ownershipRecords' = ownershipRecords
  BY <1>1, LogIdsDiffer DEF OwnIds
<1>2. ASSUME NEW c \in transfers, DrawOwnershipId(c) PROVE OwnIds'
  <2> DEFINE d == [c EXCEPT !.at = "insert", !.id = nextId]
  <2>1. /\ d.id = nextId /\ d.at = "insert" /\ nextId \in Nat /\ nextId' = nextId + 1
        /\ UNCHANGED <<statusRecords, ownershipRecords, tx>>
        /\ transfers' = (transfers \ {c}) \cup {d}
    <3>1. c \in Transfer /\ nextId \in Nat
      BY InvSplit DEF RestTypes, Core, CoreTypes
    <3>2. d.id = nextId /\ d.at = "insert"
      BY <3>1 DEF Transfer
    <3>. QED
      BY <1>2, <3>1, <3>2 DEF DrawOwnershipId, Advance
  <2>. HIDE DEF d
  <2>2. Drawn' \subseteq Drawn \cup {d}
    BY <2>1 DEF Drawn
  <2>3. \A r \in statusRecords : r.id # nextId
    BY <2>1, InvSplit DEF Core, IdsAreDrawn, CoreTypes, Record
  <2>4. \A p \in Procs : \A r \in tx[p].log : r.id # nextId
    BY <2>1, InvSplit DEF Core, IdsAreDrawn
  <2>5. \A q \in Drawn \cup ownershipRecords : q.id # nextId
    BY <2>1 DEF OwnIds
  <2>6. nextId < nextId'
    BY <2>1
  <2>7. \A q \in Drawn \cup ownershipRecords :
            /\ q.id < nextId'
            /\ \A r \in statusRecords' : r.id # q.id
            /\ \A p \in Procs : \A r \in tx'[p].log : r.id # q.id
    BY LogIdsDiffer
  <2>. QED
    BY <2>1, <2>2, <2>3, <2>4, <2>5, <2>6, <2>7 DEF OwnIds
<1>3. ASSUME NEW c \in transfers, InsertOwnershipChange(c) PROVE OwnIds'
  <2> DEFINE q == [id |-> c.id, space |-> c.space, group |-> c.identity,
                   status |-> "OwnershipChange"]
  <2>1. /\ q.id = c.id /\ c \in Drawn /\ transfers' = transfers \ {c}
        /\ ownershipRecords' = ownershipRecords \cup {q}
        /\ UNCHANGED <<statusRecords, nextId, tx>>
    BY <1>3 DEF InsertOwnershipChange, Drawn
  <2>. HIDE DEF q
  <2>2. Drawn' \subseteq Drawn \ {c}
    BY <2>1 DEF Drawn
  <2>. QED
    BY <2>1, <2>2 DEF OwnIds
<1>4. ASSUME NEW c \in transfers, ChangeOwner(c)
      PROVE  Drawn' \subseteq Drawn /\ ownershipRecords' = ownershipRecords
  <2>1. c \in Transfer
    BY InvSplit DEF RestTypes
  <2>2. [c EXCEPT !.at = "draw", !.id = 0].at = "draw"
    BY <2>1 DEF Transfer
  <2>. QED
    BY <1>4, <2>2 DEF ChangeOwner, Advance, Drawn
<1>. QED
  BY <1>1, <1>2, <1>3, <1>4, TransferShape DEF Drawn

\* A document does not disappear, another owner of it is one of the new ones, and records
\* of its space name the owner it has.
LEMMA OwnerStays ==
    ASSUME IInv, LogNames, Next, NEW s \in Spaces, spaces[s].status # "absent"
    PROVE  /\ spaces'[s].status # "absent"
           /\ spaces'[s].identity \in NewOwners \cup {spaces[s].identity}
           /\ \A r \in RecordsOf(s)' \ RecordsOf(s) : r.group = spaces[s].identity
<1>1. spaces \in [Spaces -> Doc]
  BY InvSplit DEF Core, CoreTypes
<1>2. ASSUME NEW p \in Procs, Commit(p)
      PROVE  /\ spaces'[s].status # "absent"
             /\ spaces'[s].identity = spaces[s].identity
             /\ \A r \in RecordsOf(s)' \ RecordsOf(s) : r.group = spaces[s].identity
  <2> DEFINE W == WrittenBy(tx[p].writes)
  <2>1. /\ W \cap tx[p].missed = {}
        /\ s \in W => spaces'[s] = tx[p].writes[s]
        /\ s \notin W => spaces'[s] = spaces[s] /\ RecordsOf(s)' = RecordsOf(s)
        /\ RecordsOf(s)' \subseteq RecordsOf(s) \cup tx[p].log
    BY <1>2, CommitFacts
  <2>2. CASE s \notin W
    BY <2>1, <2>2
  <2>3. CASE s \in W
    <3>1. s \notin tx[p].missed
      BY <2>1, <2>3
    <3>2. tx[p].writes[s].identity = spaces[s].identity
      BY <2>3, <3>1 DEF LogNames
    <3>3. tx[p].writes[s].status # "absent"
      BY <2>3 DEF WrittenBy, Has
    <3>4. \A r \in RecordsOf(s)' \ RecordsOf(s) : r.group = spaces[s].identity
      BY <2>1, <3>1 DEF RecordsOf, LogNames
    <3>. QED
      BY <2>1, <2>3, <3>2, <3>3, <3>4
  <2>. QED
    BY <2>2, <2>3
<1>3. ASSUME NEW c \in transfers, ChangeOwner(c)
      PROVE  /\ spaces'[s].status = spaces[s].status
             /\ spaces'[s].identity \in NewOwners \cup {spaces[s].identity}
             /\ RecordsOf(s)' = RecordsOf(s)
  <2>1. c \in Transfer
    BY InvSplit DEF RestTypes
  <2>2. c.owner \in NewOwners
    BY <2>1 DEF Transfer
  <2>. QED
    BY <1>1, <1>3, <2>2 DEF ChangeOwner, RecordsOf, Doc
<1>4. CASE UNCHANGED <<spaces, statusRecords>>
  BY <1>4 DEF RecordsOf
<1>5. \/ UNCHANGED <<spaces, statusRecords>>
      \/ \E p \in Procs : Commit(p)
      \/ \E c \in transfers : ChangeOwner(c)
  <2>1. ASSUME NEW c \in transfers,
               DrawOwnershipId(c) \/ InsertOwnershipChange(c) \/ LoseTransfer(c)
        PROVE  UNCHANGED <<spaces, statusRecords>>
    BY <2>1 DEF DrawOwnershipId, InsertOwnershipChange, LoseTransfer
  <2>. QED
    BY <2>1 DEF Next, RequestNewStatus, RequestSpaceDelete, RequestAccountDelete,
       RequestAccountRevertDeletion, RequestChangeStatus, RequestMakeShareable,
       RequestMakeUnshareable, Request, RequestAclOwnerChange, Abort, LoseTx,
       DeleterQueryOld, DeleterQueryNew, DeleterProcessEntry, DeleterDone,
       DeleterCursorFails, DeleterGiveUp, Tick, Crash
<1>. QED
  BY <1>1, <1>2, <1>3, <1>4, <1>5

LEMMA PassedOnStays ==
    ASSUME IInv, LogNames, Next, NEW s \in Spaces, PassedOn(s)
    PROVE  PassedOn(s)' /\ \A former, bound : FormerBelow(s, former, bound) =>
                                              FormerBelow(s, former, bound)'
  BY OwnerStays DEF PassedOn, FormerBelow

LEMMA OwnersLeftStep == ASSUME IInv, LogNames, OwnersLeft, Next PROVE OwnersLeft'
<1>1. /\ spaces \in [Spaces -> Doc] /\ nextId \in Nat
      /\ \A c \in Transfer : c.space \in Spaces
      /\ transfers \subseteq Transfer
      /\ \A q \in ownershipRecords : q.space \in Spaces
      /\ \A s \in Spaces : \A r \in RecordsOf(s) : r.id < nextId
  BY InvSplit DEF RestTypes, Core, CoreTypes, IdsAreDrawn, Transfer, OwnershipRecord,
     RecordsOf
<1>2. \A c \in transfers : /\ spaces'[c.space].status # "absent"
                           /\ c.at # "change" => PassedOn(c.space)'
                           /\ c \in Drawn => FormerBelow(c.space, c.identity, c.id)'
  <2>. SUFFICES ASSUME NEW c \in transfers
                PROVE  /\ spaces'[c.space].status # "absent"
                       /\ c.at # "change" => PassedOn(c.space)'
                       /\ c \in Drawn => FormerBelow(c.space, c.identity, c.id)'
    OBVIOUS
  <2>1. /\ c.space \in Spaces /\ spaces[c.space].status # "absent"
        /\ c.at # "change" => PassedOn(c.space)
        /\ c \in Drawn => FormerBelow(c.space, c.identity, c.id) /\ c.at = "insert"
    BY <1>1 DEF OwnersLeft, Drawn
  <2>. QED
    BY <2>1, OwnerStays, PassedOnStays
<1>3. \A q \in ownershipRecords : PassedOn(q.space)' /\ FormerBelow(q.space, q.group, q.id)'
  BY <1>1, PassedOnStays DEF OwnersLeft
<1>4. CASE transfers' \subseteq transfers /\ ownershipRecords' = ownershipRecords
  BY <1>2, <1>3, <1>4 DEF OwnersLeft, Drawn
<1>5. ASSUME NEW c \in Transfer, c.at = "change", spaces[c.space].status # "absent",
             transfers' = transfers \cup {c},
             UNCHANGED <<spaces, ownershipRecords>>
      PROVE  OwnersLeft'
  BY <1>2, <1>3, <1>5 DEF OwnersLeft, Drawn
<1>6. ASSUME NEW c \in transfers, ChangeOwner(c) PROVE OwnersLeft'
  <2> DEFINE d == [c EXCEPT !.at = "draw", !.id = 0]
  <2>1. c \in Transfer
    BY <1>1
  <2>2. d.at = "draw" /\ d.space = c.space
    BY <2>1 DEF Transfer
  <2>3. transfers' = (transfers \ {c}) \cup {d} /\ ownershipRecords' = ownershipRecords
    BY <1>6 DEF ChangeOwner, Advance
  <2>. HIDE DEF d
  <2>4. PassedOn(c.space)'
    <3>1. c.space \in Spaces /\ c.owner \in NewOwners
      BY <2>1 DEF Transfer
    <3>2. spaces'[c.space].identity = c.owner
      BY <1>1, <1>6, <3>1 DEF ChangeOwner, Doc
    <3>. QED
      BY <1>2, <3>1, <3>2 DEF PassedOn
  <2>5. Drawn' \subseteq Drawn /\ Drawn \subseteq transfers
    BY <2>2, <2>3 DEF Drawn
  <2>6. ASSUME NEW e \in transfers'
        PROVE  spaces'[e.space].status # "absent" /\ (e.at # "change" => PassedOn(e.space)')
    <3>1. CASE e = d
      <4>1. e.space = c.space
        BY <2>2, <3>1
      <4>. QED
        BY <2>4, <4>1 DEF PassedOn
    <3>2. CASE e \in transfers
      BY <1>2, <3>2
    <3>. QED
      BY <2>3, <3>1, <3>2
  <2>7. \A e \in Drawn' : FormerBelow(e.space, e.identity, e.id)'
    BY <1>2, <2>5
  <2>8. \A q \in ownershipRecords' :
            PassedOn(q.space)' /\ FormerBelow(q.space, q.group, q.id)'
    BY <1>3, <2>3
  <2>. QED
    BY <2>6, <2>7, <2>8 DEF OwnersLeft
<1>7. ASSUME NEW c \in transfers, DrawOwnershipId(c) PROVE OwnersLeft'
  <2>0. PICK d : d = [c EXCEPT !.at = "insert", !.id = nextId]
    OBVIOUS
  <2>1. c \in Transfer
    BY <1>1
  <2>2. d.at = "insert" /\ d.space = c.space /\ d.identity = c.identity /\ d.id = nextId
    BY <2>0, <2>1 DEF Transfer
  <2>3. /\ transfers' = (transfers \ {c}) \cup {d} /\ c.at = "draw"
        /\ UNCHANGED <<spaces, statusRecords, ownershipRecords>>
    BY <1>7, <2>0 DEF DrawOwnershipId, Advance
  <2>4. PassedOn(c.space)' /\ c.space \in Spaces
    <3>1. c.at # "change"
      BY <2>3
    <3>. QED
      BY <1>1, <1>2, <2>1, <3>1
  <2>5. FormerBelow(d.space, d.identity, d.id)'
    BY <1>1, <2>2, <2>3, <2>4 DEF FormerBelow, RecordsOf
  <2>6. Drawn' \subseteq Drawn \cup {d}
    BY <2>3 DEF Drawn
  <2>7. Drawn \subseteq transfers
    BY DEF Drawn
  <2>8. ASSUME NEW e \in transfers'
        PROVE  spaces'[e.space].status # "absent" /\ (e.at # "change" => PassedOn(e.space)')
    <3>1. CASE e = d
      <4>1. e.space = c.space
        BY <2>2, <3>1
      <4>. QED
        BY <2>4, <4>1 DEF PassedOn
    <3>2. CASE e \in transfers
      BY <1>2, <3>2
    <3>. QED
      BY <2>3, <3>1, <3>2
  <2>9. \A e \in Drawn' : FormerBelow(e.space, e.identity, e.id)'
    BY <1>2, <2>5, <2>6, <2>7
  <2>10. \A q \in ownershipRecords' :
             PassedOn(q.space)' /\ FormerBelow(q.space, q.group, q.id)'
    BY <1>3, <2>3
  <2>. QED
    BY <2>8, <2>9, <2>10 DEF OwnersLeft
<1>8. ASSUME NEW c \in transfers, InsertOwnershipChange(c) PROVE OwnersLeft'
  <2> DEFINE q == [id |-> c.id, space |-> c.space, group |-> c.identity,
                   status |-> "OwnershipChange"]
  <2>1. /\ q.id = c.id /\ q.space = c.space /\ q.group = c.identity
        /\ c \in Drawn /\ c.at = "insert" /\ transfers' = transfers \ {c}
        /\ ownershipRecords' = ownershipRecords \cup {q}
    BY <1>8 DEF InsertOwnershipChange, Drawn
  <2>. HIDE DEF q
  <2>2. Drawn' \subseteq Drawn /\ Drawn \subseteq transfers
    BY <2>1 DEF Drawn
  <2>3. PassedOn(q.space)' /\ FormerBelow(q.space, q.group, q.id)'
    BY <1>2, <2>1
  <2>. QED
    BY <1>2, <1>3, <2>1, <2>2, <2>3 DEF OwnersLeft
<1>. QED
  BY <1>4, <1>5, <1>6, <1>7, <1>8, TransferShape

\* Ids of records are distinct: of one space by the order of commits, of one transaction
\* by Rank, and those of changes of owner as they are drawn.
UniqueRecords ==
    \A r, q \in statusRecords : r.space = q.space /\ r.id = q.id => r = q

LEMMA UniqueStep == ASSUME IInv, LogNames, UniqueRecords, Next PROVE UniqueRecords'
<1>1. CASE statusRecords' = statusRecords
  BY <1>1 DEF UniqueRecords
<1>2. CASE statusRecords' # statusRecords
  <2>1. PICK p \in Procs : statusRecords' = statusRecords \cup tx[p].log
    BY <1>2, LogGrows
  <2>2. \A r \in statusRecords' \ statusRecords : \A q \in RecordsOf(r.space) : q.id < r.id
    BY StepInv DEF StepFacts
  <2>3. \A r \in statusRecords' : r.id \in Nat
    BY StepInv, InvSplit DEF Core, CoreTypes, Record
  <2>4. \A r, q \in tx[p].log : r.space = q.space => r = q
    BY DEF LogNames
  <2>5. ASSUME NEW r \in statusRecords' \ statusRecords, NEW q \in statusRecords,
               r.space = q.space
        PROVE  r.id # q.id
    BY <2>1, <2>2, <2>3, <2>5 DEF RecordsOf
  <2>. QED
    BY <2>1, <2>4, <2>5 DEF UniqueRecords
<1>. QED
  BY <1>1, <1>2

LEMMA LogIsUnique ==
    ASSUME UniqueRecords, OwnIds,
           NEW r \in deletionLog, NEW q \in deletionLog, r.space = q.space, r.id = q.id
    PROVE  r = q
  BY DEF UniqueRecords, OwnIds, deletionLog

LEMMA ObjectIdDiffers ==
    ASSUME IsFiniteSet(Spaces), NEW r \in AnyRecord, NEW q \in AnyRecord,
           ObjectId(r) = ObjectId(q)
    PROVE  r.space = q.space /\ r.id = q.id
<1> DEFINE N == Cardinality(Spaces)
<1>1. /\ N \in Nat /\ r.id \in Nat /\ q.id \in Nat
      /\ r.space \in Spaces /\ q.space \in Spaces
  BY FS_CardinalityType DEF AnyRecord, Record, OwnershipRecord
<1>2. /\ Rank[r.space] \in Nat /\ Rank[r.space] < N
      /\ Rank[q.space] \in Nat /\ Rank[q.space] < N
      /\ Rank[r.space] = Rank[q.space] => r.space = q.space
  BY <1>1, RankAssumption
<1>3. r.id * N + Rank[r.space] = q.id * N + Rank[q.space]
  BY DEF ObjectId
<1>. HIDE DEF N
<1>4. ASSUME NEW i \in Nat, NEW j \in Nat, i < j PROVE i * N + N <= j * N
  <2>1. (i + 1) * N <= j * N
    BY <1>1, <1>4
  <2>2. (i + 1) * N = i * N + N
    BY <1>1
  <2>. QED
    BY <2>1, <2>2
<1>5. r.id * N \in Nat /\ q.id * N \in Nat
  BY <1>1
<1>6. ~(r.id < q.id) /\ ~(q.id < r.id)
  BY <1>1, <1>2, <1>3, <1>4, <1>5
<1>7. r.id = q.id
  BY <1>1, <1>6
<1>. QED
  BY <1>2, <1>3, <1>5, <1>7

LEMMA LastPageStep ==
    ASSUME IsFiniteSet(Spaces), IInv, ReaderInv, UniqueRecords, OwnIds, NEW limit \in Limits,
           ReadPage(GetAfter(Visible, cursor, limit)),
           ~GetAfter(Visible, cursor, limit).more
    PROVE  \A r \in deletionLog : ObjectId(r) <= cursor'
<1> DEFINE fetched == Fetched(Visible, cursor, limit)
           answer == GetAfter(Visible, cursor, limit)
           n == PageSize(limit) + 1
<1>1. fetched = FirstAfter(Visible, cursor, n) /\ n \in Nat /\ cursor \in Nat
  BY LimitsOfReaderAssumption, PageSizeType DEF Fetched, ReaderInv
<1>2. Cardinality(fetched) # n /\ answer.page = fetched
  BY DEF GetAfter
<1>3. \A v, w \in Visible : v.id = w.id => v = w
  <2>. SUFFICES ASSUME NEW v \in Visible, NEW w \in Visible, v.id = w.id PROVE v = w
    OBVIOUS
  <2>1. PICK r \in deletionLog, q \in deletionLog : v = Given(r) /\ w = Given(q)
    BY VisibleFacts DEF ReaderInv
  <2>2. ObjectId(r) = ObjectId(q) /\ r \in AnyRecord /\ q \in AnyRecord
    BY <2>1, VisibleFacts DEF ReaderInv
  <2>3. r = q
    BY <2>2, ObjectIdDiffers, LogIsUnique
  <2>. QED
    BY <2>1, <2>3
<1>. HIDE DEF n
<1>4. \A v \in Visible : v.id > cursor => v \in answer.page
  <2>1. IsFiniteSet(Visible) /\ \A v \in Visible : v.id \in Nat
    BY VisibleFacts DEF ReaderInv
  <2>2. \A v \in Visible : v.id > cursor => v \in FirstAfter(Visible, cursor, n)
    BY <1>1, <1>2, <1>3, <2>1, ShortIsAll
  <2>. QED
    BY <1>1, <1>2, <2>2
<1>5. /\ cursor' \in Nat /\ cursor < cursor'
      /\ \A v \in answer.page : v.id <= cursor'
  BY PageFacts
<1>. HIDE DEF answer, fetched
<1>6. ASSUME NEW r \in deletionLog PROVE ObjectId(r) <= cursor'
  <2>1. Given(r) \in Visible /\ Given(r).id = ObjectId(r) /\ ObjectId(r) \in Nat
    BY VisibleFacts DEF ReaderInv
  <2>2. CASE ObjectId(r) > cursor
    BY <1>4, <1>5, <2>1, <2>2
  <2>3. CASE ~(ObjectId(r) > cursor)
    BY <1>1, <1>5, <2>1, <2>3
  <2>. QED
    BY <2>2, <2>3
<1>. QED
  BY <1>6

----------------------------------------------------------------------------
(* Theorems about the deletion log.                                         *)

FollowInv ==
    IInv /\ LogNames /\ UniqueRecords /\ OwnIds /\ OwnersLeft /\ ReaderInv

LEMMA FollowInit == ReaderInit => FollowInv
  BY ReaderInitInv DEF FollowInv, UniqueRecords, OwnIds, OwnersLeft, Drawn, ReaderInit, Quiet

LEMMA FollowStutter ==
    ASSUME IInv, LogNames, UniqueRecords, OwnIds, OwnersLeft, UNCHANGED vars
    PROVE  IInv' /\ LogNames' /\ UniqueRecords' /\ OwnIds' /\ OwnersLeft'
<1>1. IInv' /\ LogNames' /\ UniqueRecords'
  BY StutterInv DEF LogNames, UniqueRecords, vars
<1>2. OwnIds'
  BY DEF OwnIds, Drawn, vars
<1>3. OwnersLeft'
  BY DEF OwnersLeft, PassedOn, FormerBelow, RecordsOf, Drawn, vars
<1>. QED
  BY <1>1, <1>2, <1>3

LEMMA FollowStep ==
    ASSUME IsFiniteSet(Spaces), FollowInv, [LogNext]_logVars
    PROVE  FollowInv'
<1>1. CASE CoordinatorStep
  <2>1. Next
    BY <1>1 DEF CoordinatorStep
  <2>. QED
    BY <1>1, <2>1, StepInv, LogNamesStep, UniqueStep, OwnIdsStep, OwnersLeftStep,
       ReaderRightStep
       DEF FollowInv
<1>2. CASE DeletionLogRequest
  <2>1. UNCHANGED vars
    BY <1>2 DEF DeletionLogRequest, ReadPage
  <2>2. IInv' /\ LogNames' /\ UniqueRecords' /\ OwnIds' /\ OwnersLeft'
    BY <2>1, FollowStutter DEF FollowInv
  <2>. QED
    BY <1>2, <2>2, ReadRightStep DEF FollowInv
<1>3. CASE UNCHANGED logVars
  <2>1. UNCHANGED vars /\ UNCHANGED <<cursor, told, late>>
    BY <1>3 DEF logVars, readerVars
  <2>2. IInv' /\ LogNames' /\ UniqueRecords' /\ OwnIds' /\ OwnersLeft'
    BY <2>1, FollowStutter DEF FollowInv
  <2>3. ReaderInv'
    BY <2>1 DEF FollowInv, ReaderInv, ReaderIsRight, RecordsOf, IsLast, ObjectId, vars,
       deletionLog
  <2>. QED
    BY <2>2, <2>3 DEF FollowInv
<1>. QED
  BY <1>1, <1>2, <1>3 DEF LogNext

LEMMA FollowAlways == ASSUME IsFiniteSet(Spaces) PROVE LogSpec => []FollowInv
<1>1. FollowInv /\ [LogNext]_logVars => FollowInv'
  BY FollowStep
<1>. QED
  BY <1>1, FollowInit, PTL DEF LogSpec

\* For any page sizes, handlers and spaces: a reader that has the last record of a space
\* knows the status of its document.
THEOREM ReaderKnowsStatus == ASSUME IsFiniteSet(Spaces) PROVE LogSpec => []ReaderIsRight
<1>1. FollowInv => ReaderIsRight
  BY DEF FollowInv, ReaderInv
<1>. QED
  BY <1>1, FollowAlways, PTL

\* A page that the log calls the last leaves nothing visible ahead of the reader.
THEOREM LastPageEndsTheLog == ASSUME IsFiniteSet(Spaces) PROVE LogSpec => LastPageIsLast
<1> DEFINE A == \A limit \in Limits :
                  LET answer == GetAfter(Visible, cursor, limit)
                  IN  ReadPage(answer) /\ ~answer.more =>
                        \A r \in deletionLog : ObjectId(r) <= cursor'
<1>1. FollowInv => [A]_logVars
  BY LastPageStep DEF FollowInv
<1>. QED
  BY <1>1, FollowAlways, PTL DEF LastPageIsLast

\* Every record of a change of status is filed under the account that owns the space when
\* it becomes visible.
THEOREM RecordsAreFiled == ASSUME IsFiniteSet(Spaces) PROVE LogSpec => RecordsNameTheOwner
<1> DEFINE A == \A r \in statusRecords' \ statusRecords : r.group = spaces[r.space].identity
<1>1. ASSUME FollowInv, LogNext PROVE A
  <2>. SUFFICES ASSUME NEW r \in statusRecords' \ statusRecords
                PROVE  r.group = spaces[r.space].identity
    OBVIOUS
  <2>1. Next
    BY <1>1 DEF LogNext, CoordinatorStep, DeletionLogRequest, ReadPage, vars
  <2>2. PICK p \in Procs : Commit(p) /\ statusRecords' = statusRecords \cup tx[p].log
    BY <1>1, <2>1, LogGrows DEF FollowInv
  <2>3. r \in tx[p].log /\ r.space \in WrittenBy(tx[p].writes)
    BY <1>1, <2>2 DEF FollowInv, IInv, LogCoversWrites
  <2>4. r.space \notin tx[p].missed
    BY <2>2, <2>3 DEF Commit, Conflict
  <2>. QED
    BY <1>1, <2>3, <2>4 DEF FollowInv, LogNames
<1>2. FollowInv /\ [LogNext]_logVars => [A]_logVars
  BY <1>1
<1>. QED
  BY <1>2, FollowAlways, PTL DEF LogSpec, RecordsNameTheOwner

\* The records filed under a former owner are all below the record of the change of owner,
\* although the owner and that record are written in no transaction.
THEOREM FormerOwnersAreFirst ==
    ASSUME IsFiniteSet(Spaces) PROVE LogSpec => []FormerOwnerComesFirst
<1>1. FollowInv => FormerOwnerComesFirst
  BY DEF FollowInv, OwnersLeft, FormerBelow, FormerOwnerComesFirst
<1>. QED
  BY <1>1, FollowAlways, PTL

----------------------------------------------------------------------------
(* The coordinator while it is followed: what holds of SpaceStatus from its  *)
(* own initial states holds from those of DeletionLog.                       *)

LEMMA CoordinatorGoesOn == ASSUME [LogNext]_logVars PROVE [Next]_vars
  BY DEF LogNext, CoordinatorStep, DeletionLogRequest, ReadPage, logVars

LEMMA FollowedFresh == ASSUME IsFiniteSet(Spaces) PROVE LogSpec => []Fresh
<1>1. ReaderInit => Fresh
  <2>. SUFFICES ASSUME ReaderInit PROVE Fresh
    OBVIOUS
  <2>1. \A w \in Workers : tx[w] = NoTx
    BY DEF ReaderInit, Quiet, Procs
  <2>. QED
    BY <2>1 DEF Fresh, AccountCheckIsFresh, LimitCheckIsFresh, NoTx
<1>2. FollowInv /\ Fresh /\ [LogNext]_logVars => Fresh'
  BY CoordinatorGoesOn, FreshStep, FreshStutter DEF FollowInv
<1>. QED
  BY <1>1, <1>2, FollowAlways, PTL DEF LogSpec

\* The limit of spaces is exceeded by overlapping requests only, starting from documents
\* that earlier runs left, some of them shared.
THEOREM LimitCheckIsFollowed == ASSUME IsFiniteSet(Spaces) PROVE LogSpec => []LimitCheckIsFresh
<1>1. Fresh => LimitCheckIsFresh
  BY DEF Fresh
<1>. QED
  BY <1>1, FollowedFresh, PTL

=============================================================================
