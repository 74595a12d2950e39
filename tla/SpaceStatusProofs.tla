-------------------------- MODULE SpaceStatusProofs --------------------------
(****************************************************************************)
(* Theorems about SpaceStatus, for every set of spaces, accounts and        *)
(* handlers, every limit and period, and every value of the bounds.         *)
(*                                                                          *)
(* The lemmas of the first part say of each operation that its outcome is   *)
(* coherent with the snapshot it is computed from; the second part carries  *)
(* that through snapshots and commits.                                      *)
(****************************************************************************)
EXTENDS SpaceStatus, TLAPS

Change == [status : {"created", "pending", "deleted"}, at : Int, due : Int]

\* What OutcomeStillHolds and LogCoversWrites ask of an outcome computed on db.
Coherent(db, out) ==
    /\ out \in Outcome
    /\ \A e \in out.log :
          /\ e.space \in WrittenBy(out.writes)
          /\ e.status = LogStatus(out.writes[e.space].status)
    /\ out.log # {} => \A s \in WrittenBy(out.writes) : \E e \in out.log : e.space = s
    /\ \A s \in WrittenBy(out.writes) :
          IF out.log # {}
          THEN <<db[s].status, out.writes[s].status>> \in LoggedMoves
          ELSE \/ out.writes[s].status = db[s].status
               \/ db[s].status = "absent" /\ out.writes[s].status = "created"

----------------------------------------------------------------------------
(* Outcomes.                                                                *)

\* The record that stands for no document has the type of a document.
LEMMA NoDocType == NoDoc \in Doc /\ NoWrites \in [Spaces -> Doc] /\ WrittenBy(NoWrites) = {}
  BY DEF NoDoc, Doc, NoWrites, WrittenBy, Has, Phases, Types, HeaderTypes, Missing

\* A refused operation writes and logs nothing.
LEMMA FailCoherent ==
    ASSUME NEW db, NEW err \in Errors
    PROVE  Coherent(db, Fail(err))
  BY NoDocType DEF Coherent, Fail, Outcome, WrittenBy

LEMMA NothingCoherent == ASSUME NEW db PROVE Coherent(db, Nothing)
  BY FailCoherent DEF Nothing, Errors

\* A write without a record: a new document, or one that keeps its status.
LEMMA WriteCoherent ==
    ASSUME NEW db \in [Spaces -> Doc], NEW s \in Spaces, NEW doc \in Doc,
           \/ doc.status = db[s].status
           \/ db[s].status = "absent" /\ doc.status = "created"
    PROVE  Coherent(db, Write(s, doc))
<1> DEFINE out == Write(s, doc)
<1>1. out = [err |-> "ok", writes |-> [NoWrites EXCEPT ![s] = doc], log |-> {}]
  BY DEF Write, Nothing, Fail
<1>2. out.writes \in [Spaces -> Doc]
  BY <1>1, NoDocType
<1>3. out \in Outcome
  BY <1>1, <1>2 DEF Outcome, Errors
<1>4. WrittenBy(out.writes) \subseteq {s}
  BY <1>1 DEF WrittenBy, Has, NoWrites, NoDoc
<1>5. out.writes[s] = doc
  BY <1>1, NoDocType
<1>6. out.log = {}
  BY <1>1
<1>7. \A x \in WrittenBy(out.writes) :
         \/ out.writes[x].status = db[x].status
         \/ db[x].status = "absent" /\ out.writes[x].status = "created"
  BY <1>4, <1>5
<1>. HIDE DEF out
<1>8. Coherent(db, out)
  BY <1>3, <1>6, <1>7 DEF Coherent
<1>. QED
  BY <1>8 DEF out

\* setStatusTx, for one space or a set of them.
LEMMA ModifiedType ==
    ASSUME NEW doc \in Doc, NEW change \in Change
    PROVE  /\ Modified(doc, change) \in Doc
           /\ Modified(doc, change).status = change.status
  BY DEF Modified, Doc, Change, Phases

LEMMA SetStatusAllCoherent ==
    ASSUME NEW db \in [Spaces -> Doc], NEW S \in SUBSET Spaces, NEW change \in Change,
           \A s \in S : <<db[s].status, change.status>> \in LoggedMoves
    PROVE  Coherent(db, SetStatusAll(db, S, change))
<1> DEFINE out == SetStatusAll(db, S, change)
<1>1. /\ out.err = "ok"
      /\ out.writes = [s \in Spaces |-> IF s \in S THEN Modified(db[s], change) ELSE NoDoc]
      /\ out.log = {[space |-> s, group |-> db[s].identity,
                     status |-> LogStatus(change.status)] : s \in S}
  BY DEF SetStatusAll
<1>2. \A s \in S : out.writes[s] \in Doc /\ out.writes[s].status = change.status
  BY <1>1, ModifiedType
<1>3. out.writes \in [Spaces -> Doc]
  BY <1>1, <1>2, NoDocType
<1>4. WrittenBy(out.writes) = S
  <2>1. \A s \in S : out.writes[s].status # "absent"
    BY <1>2 DEF Change
  <2>2. \A s \in Spaces \ S : out.writes[s].status = "absent"
    BY <1>1 DEF NoDoc
  <2>. QED
    BY <2>1, <2>2 DEF WrittenBy, Has
<1>5. LogStatus(change.status) \in LogStatuses
  BY DEF LogStatus, LogStatuses, Change
<1>6. out.log \in SUBSET Entry
  BY <1>1, <1>5 DEF Entry, Doc
<1>7. out \in Outcome
  <2>1. out = [err |-> out.err, writes |-> out.writes, log |-> out.log]
    BY DEF SetStatusAll
  <2>. QED
    BY <2>1, <1>1, <1>3, <1>6 DEF Outcome, Errors
<1>8. \A e \in out.log : e.space \in S /\ e.status = LogStatus(change.status)
  BY <1>1
<1>9. \A s \in S : \E e \in out.log : e.space = s
  <2>. SUFFICES ASSUME NEW s \in S PROVE \E e \in out.log : e.space = s
    OBVIOUS
  <2>. DEFINE e == [space |-> s, group |-> db[s].identity,
                    status |-> LogStatus(change.status)]
  <2>1. e \in out.log
    BY <1>1
  <2>2. e.space = s
    OBVIOUS
  <2>. QED
    BY <2>1, <2>2
<1>10. out.log = {} => S = {}
  BY <1>9
<1>. QED
  BY <1>2, <1>4, <1>7, <1>8, <1>9, <1>10 DEF Coherent

LEMMA IncorrectStatusType == ASSUME NEW doc PROVE IncorrectStatus(doc) \in Errors
  BY DEF IncorrectStatus, Errors

LEMMA SetStatusTxCoherent ==
    ASSUME NEW db \in [Spaces -> Doc], NEW s \in Spaces, NEW who, NEW change \in Change,
           NEW old, <<old, change.status>> \in LoggedMoves
    PROVE  Coherent(db, SetStatusTx(db, s, who, change, old))
<1>1. CASE db[s].status = old /\ who \in {Nobody, db[s].identity}
  BY <1>1, SetStatusAllCoherent, {s} \in SUBSET Spaces DEF SetStatusTx
<1>2. CASE ~(db[s].status = old /\ who \in {Nobody, db[s].identity})
  BY <1>2, FailCoherent, IncorrectStatusType DEF SetStatusTx
<1>. QED
  BY <1>1, <1>2

----------------------------------------------------------------------------
(* Operations.                                                              *)

LEMMA ChangeTypes ==
    /\ ToCreated \in Change
    /\ ToDeleted \in Change
    /\ \A at, period \in Int : ToPending(at, period) \in Change
    /\ ToCreated.status = "created"
    /\ ToDeleted.status = "deleted"
    /\ \A at, period \in Int : ToPending(at, period).status = "pending"
  BY DEF ToCreated, ToDeleted, ToPending, Change

\* Dropping the error of an outcome, or the whole outcome, leaves a coherent one.
LEMMA ErrorDroppedCoherent ==
    ASSUME NEW db, NEW out, Coherent(db, out)
    PROVE  Coherent(db, [out EXCEPT !.err = "ok"])
<1> DEFINE new == [out EXCEPT !.err = "ok"]
<1>1. new.writes = out.writes /\ new.log = out.log /\ new \in Outcome
  BY DEF Coherent, Outcome, Errors
<1>. HIDE DEF new
<1>2. Coherent(db, new)
  BY <1>1 DEF Coherent
<1>. QED
  BY <1>2 DEF new

LEMMA LimitedCoherent ==
    ASSUME NEW db, NEW who, NEW out, Coherent(db, out)
    PROVE  Coherent(db, Limited(db, who, out))
  BY FailCoherent DEF Limited, Errors

LEMMA NewStatusCoherent ==
    ASSUME NEW db \in [Spaces -> Doc], NEW s \in Spaces, NEW who \in Identities,
           NEW force \in BOOLEAN
    PROVE  Coherent(db, NewStatus(db, s, who, force))
<1>1. CASE ~Has(db, s)
  <2>1. /\ NewDoc(s, who) \in Doc
        /\ NewDoc(s, who).status = "created"
    BY HeaderAssumption, NoDocType DEF NewDoc, NoDoc, Doc, Phases, Types
  <2>2. Coherent(db, Write(s, NewDoc(s, who)))
    BY <1>1, <2>1, WriteCoherent DEF Has
  <2>. QED
    BY <1>1, <2>2, LimitedCoherent, FailCoherent, NothingCoherent DEF NewStatus, Has, Errors
<1>2. CASE Has(db, s) /\ db[s].status # "created"
  <2>1. db[s].status \in {"pending", "deleted"}
    BY <1>2 DEF Has, Doc, Phases
  <2>2. <<db[s].status, ToCreated.status>> \in LoggedMoves
    BY <2>1, ChangeTypes DEF LoggedMoves
  <2>3. Coherent(db, SetStatusTx(db, s, who, ToCreated, db[s].status))
    BY <2>2, ChangeTypes, SetStatusTxCoherent
  <2>4. Coherent(db, Revived(db, s, who))
    BY <2>3, ErrorDroppedCoherent, LimitedCoherent DEF Revived
  <2>. QED
    BY <1>2, <2>4, FailCoherent DEF NewStatus, Errors
<1>3. CASE db[s].status = "created"
  BY <1>3, NothingCoherent, FailCoherent DEF NewStatus, Errors
<1>. QED
  BY <1>1, <1>2, <1>3

LEMMA SpaceDeleteCoherent ==
    ASSUME NEW db \in [Spaces -> Doc], NEW s \in Spaces, NEW who \in Identities,
           NEW at \in Int, NEW period \in Int
    PROVE  Coherent(db, SpaceDelete(db, s, who, at, period))
<1>1. ToPending(at, period) \in Change /\ <<"created", ToPending(at, period).status>> \in LoggedMoves
  BY ChangeTypes DEF LoggedMoves
<1>2. Coherent(db, SetStatusTx(db, s, who, ToPending(at, period), "created"))
  BY <1>1, SetStatusTxCoherent
<1>. QED
  BY <1>2, FailCoherent DEF SpaceDelete, Errors

LEMMA AccountDeleteCoherent ==
    ASSUME NEW db \in [Spaces -> Doc], NEW who \in Identities, NEW at \in Int
    PROVE  Coherent(db, AccountDelete(db, who, at))
<1> DEFINE change == ToPending(at, DeletionPeriod)
           S == Owned(db, who, "created")
<1>1. change \in Change /\ <<"created", change.status>> \in LoggedMoves
  BY ChangeTypes, LimitsAssumption DEF LoggedMoves
<1>2. S \in SUBSET Spaces /\ \A s \in S : db[s].status = "created"
  BY DEF Owned
<1>. HIDE DEF change, S
<1>3. Coherent(db, SetStatusAll(db, S, change))
  BY <1>1, <1>2, SetStatusAllCoherent
<1>. QED
  BY <1>3, FailCoherent DEF AccountDelete, Errors, change, S

LEMMA AccountRevertDeletionCoherent ==
    ASSUME NEW db \in [Spaces -> Doc], NEW who \in Identities
    PROVE  Coherent(db, AccountRevertDeletion(db, who))
<1> DEFINE S == Owned(db, who, "pending")
<1>1. <<"pending", ToCreated.status>> \in LoggedMoves
  BY ChangeTypes DEF LoggedMoves
<1>2. S \in SUBSET Spaces /\ \A s \in S : db[s].status = "pending"
  BY DEF Owned
<1>. HIDE DEF S
<1>3. Coherent(db, SetStatusAll(db, S, ToCreated))
  BY <1>1, <1>2, ChangeTypes, SetStatusAllCoherent
<1>. QED
  BY <1>3, FailCoherent DEF AccountRevertDeletion, Errors, S

LEMMA ChangeStatusCoherent ==
    ASSUME NEW db \in [Spaces -> Doc], NEW s \in Spaces, NEW who \in Identities,
           NEW at \in Int
    PROVE  /\ Coherent(db, ChangeStatusRestore(db, s, who))
           /\ Coherent(db, ChangeStatusDelete(db, s, who, at))
<1> DEFINE change == ToPending(at, DeletionPeriod)
<1>1. /\ change \in Change /\ <<"created", change.status>> \in LoggedMoves
      /\ <<"pending", ToCreated.status>> \in LoggedMoves
  BY ChangeTypes, LimitsAssumption DEF LoggedMoves
<1>. HIDE DEF change
<1>2. Coherent(db, SetStatusTx(db, s, who, change, "created"))
  BY <1>1, SetStatusTxCoherent
<1>3. Coherent(db, SetStatusTx(db, s, who, ToCreated, "pending"))
  BY <1>1, ChangeTypes, SetStatusTxCoherent
<1>. QED
  BY <1>2, <1>3, LimitedCoherent DEF ChangeStatusRestore, ChangeStatusDelete, change

LEMMA ShareCoherent ==
    ASSUME NEW db \in [Spaces -> Doc], NEW s \in Spaces, NEW limit
    PROVE  Coherent(db, MakeShareable(db, s, limit)) /\ Coherent(db, MakeUnshareable(db, s))
<1>1. ASSUME NEW shared \in BOOLEAN
      PROVE  Coherent(db, Write(s, [db[s] EXCEPT !.shareable = shared]))
  <2> DEFINE doc == [db[s] EXCEPT !.shareable = shared]
  <2>1. doc \in Doc /\ doc.status = db[s].status
    BY DEF Doc
  <2>. HIDE DEF doc
  <2>2. Coherent(db, Write(s, doc))
    BY <2>1, WriteCoherent
  <2>. QED
    BY <2>2 DEF doc
<1>2. Coherent(db, Nothing)
  BY NothingCoherent
<1>3. Coherent(db, Fail("ErrSpaceNotExists")) /\ Coherent(db, Fail("ErrSpaceLimitReached"))
  BY FailCoherent DEF Errors
<1>. QED
  BY <1>1, <1>2, <1>3 DEF MakeShareable, MakeUnshareable

LEMMA DeleteEntryCoherent ==
    ASSUME NEW db \in [Spaces -> Doc], NEW s \in Spaces
    PROVE  Coherent(db, DeleteEntry(db, s))
<1>1. <<"pending", ToDeleted.status>> \in LoggedMoves
  BY ChangeTypes DEF LoggedMoves
<1>. QED
  BY <1>1, ChangeTypes, SetStatusTxCoherent DEF DeleteEntry

----------------------------------------------------------------------------
(* Steps.                                                                   *)

\* The conjuncts of TypeOK that the core of the invariant needs.
CoreTypes ==
    /\ spaces \in [Spaces -> Doc]
    /\ statusRecords \in SUBSET Record
    /\ nextId \in Nat
    /\ tx \in [Procs -> Tx]

Core ==
    /\ CoreTypes
    /\ IdleIsClean
    /\ IdsAreDrawn
    /\ LogCoversWrites
    /\ AbsentIsSilent
    /\ OutcomeStillHolds
    /\ LogMatchesStatus

LEMMA NoTxType == NoTx \in Tx /\ NoTx.op = "none" /\ WrittenBy(NoTx.writes) = {} /\ NoTx.log = {}
  BY NoDocType DEF NoTx, Tx, Ops, Errors

\* LogCoversWrites and OutcomeStillHolds of one transaction.
Covers(t) ==
    /\ \A r \in t.log : /\ r.space \in WrittenBy(t.writes)
                        /\ r.status = LogStatus(t.writes[r.space].status)
    /\ t.log # {} => \A s \in WrittenBy(t.writes) : \E r \in t.log : r.space = s

LEMMA CoversAll == LogCoversWrites <=> \A p \in Procs : Covers(tx[p])
  BY DEF LogCoversWrites, Covers

LEMMA CoversAllNext == LogCoversWrites' <=> \A p \in Procs : Covers(tx'[p])
  BY DEF LogCoversWrites, Covers

LEMMA NoTxCovers == Covers(NoTx)
  BY NoTxType DEF Covers

\* A step that only ends transactions: Abort, LoseTx, DeleterGiveUp, Crash, and
\* every step that leaves the transactions alone.
LEMMA EndingKeepsCore ==
    ASSUME Core, UNCHANGED <<spaces, statusRecords>>, nextId' \in {nextId, nextId + 1},
           tx' \in [Procs -> Tx],
           \A p \in Procs : tx'[p] \in {tx[p], NoTx}
    PROVE  Core'
<1>1. CoreTypes'
  BY DEF Core, CoreTypes
<1>2. IdleIsClean'
  BY NoTxType DEF Core, IdleIsClean, Open
<1>3. IdsAreDrawn'
  <2>1. \A n \in Nat : n < nextId => n < nextId'
    BY DEF Core, CoreTypes
  <2>2. \A q \in statusRecords : q.id \in Nat
    BY DEF Core, CoreTypes, Record
  <2>3. \A p \in Procs : \A q \in tx[p].log : q.id \in Nat
    BY DEF Core, CoreTypes, Tx, Record
  <2>4. \A q \in statusRecords' : q.id < nextId'
    BY <2>1, <2>2 DEF Core, IdsAreDrawn
  <2>5. ASSUME NEW p \in Procs, NEW q \in tx'[p].log
        PROVE  q.id = tx'[p].id /\ q.id < nextId'
    <3>1. tx'[p] = tx[p]
      BY <2>5, NoTxType
    <3>. QED
      BY <2>1, <2>3, <2>5, <3>1 DEF Core, IdsAreDrawn
  <2>. QED
    BY <2>4, <2>5 DEF IdsAreDrawn
<1>4. LogCoversWrites'
  BY NoTxCovers, CoversAll, CoversAllNext DEF Core
<1>5. AbsentIsSilent'
  BY DEF Core, AbsentIsSilent, RecordsOf, Has
<1>6. OutcomeStillHolds'
  BY NoTxType DEF Core, OutcomeStillHolds, RecordsOf
<1>7. LogMatchesStatus'
  BY DEF Core, LogMatchesStatus, RecordsOf, IsLast
<1>. QED
  BY <1>1, <1>2, <1>3, <1>4, <1>5, <1>6, <1>7 DEF Core

\* A transaction starts, on the documents as they are, with an outcome coherent with
\* them and an id no record has.
LEMMA BeginKeepsCore ==
    ASSUME Core, UNCHANGED <<spaces, statusRecords>>,
           NEW p \in Procs, NEW op \in Ops \ {"none"}, NEW who \in Identities \cup {Nobody},
           NEW target \in SUBSET Spaces, NEW outcome, Coherent(spaces, outcome),
           Begin(p, op, who, target, outcome)
    PROVE  Core'
<1> DEFINE t == [op |-> op, who |-> who, target |-> target, err |-> outcome.err,
                 id |-> nextId, writes |-> outcome.writes,
                 log |-> {Stamped(e, nextId) : e \in outcome.log}, missed |-> {}]
<1>1. /\ outcome.err \in Errors
      /\ outcome.writes \in [Spaces -> Doc]
      /\ outcome.log \in SUBSET Entry
  BY DEF Coherent, Outcome
<1>2. \A r \in t.log : \E e \in outcome.log :
          /\ r.id = nextId /\ r.space = e.space /\ r.status = e.status
          /\ r \in Record
  BY <1>1 DEF Stamped, Entry, Record, Core, CoreTypes
<1>3. \A e \in outcome.log : \E r \in t.log : r.space = e.space
  <2>. SUFFICES ASSUME NEW e \in outcome.log PROVE \E r \in t.log : r.space = e.space
    OBVIOUS
  <2>1. Stamped(e, nextId) \in t.log /\ Stamped(e, nextId).space = e.space
    BY DEF Stamped
  <2>. QED
    BY <2>1
<1>4. t.log = {} <=> outcome.log = {}
  BY <1>2, <1>3
<1>5. /\ t.op # "none" /\ t.id = nextId /\ t.missed = {}
      /\ t.writes = outcome.writes
  OBVIOUS
<1>6. t \in Tx
  BY <1>1, <1>2 DEF Tx, Core, CoreTypes
<1>7. /\ tx' = [tx EXCEPT ![p] = t]
      /\ nextId' = IF outcome.log = {} THEN nextId ELSE nextId + 1
  BY DEF Begin
<1>. HIDE DEF t
<1>8. /\ tx'[p] = t
      /\ \A q \in Procs \ {p} : tx'[q] = tx[q]
      /\ tx' \in [Procs -> Tx]
  BY <1>6, <1>7 DEF Core, CoreTypes
<1>9. nextId' \in Nat /\ nextId' >= nextId /\ (t.log # {} => nextId' > nextId)
  BY <1>4, <1>7 DEF Core, CoreTypes
<1>10. CoreTypes'
  BY <1>8, <1>9 DEF Core, CoreTypes
<1>11. IdleIsClean'
  BY <1>5, <1>8 DEF Core, IdleIsClean, Open
<1>12. IdsAreDrawn'
  <2>1. \A r \in statusRecords : r.id \in Nat
    BY DEF Core, CoreTypes, Record
  <2>2. \A q \in Procs : \A r \in tx[q].log : r.id \in Nat
    BY DEF Core, CoreTypes, Record, Tx
  <2>3. \A r \in statusRecords' : r.id < nextId'
    BY <1>9, <2>1 DEF Core, IdsAreDrawn, CoreTypes
  <2>4. \A q \in Procs \ {p} : \A r \in tx'[q].log : r.id = tx'[q].id /\ r.id < nextId'
    BY <1>8, <1>9, <2>2 DEF Core, IdsAreDrawn, CoreTypes
  <2>5. \A r \in tx'[p].log : r.id = tx'[p].id /\ r.id < nextId'
    BY <1>2, <1>5, <1>8, <1>9 DEF Core, CoreTypes
  <2>. QED
    BY <2>3, <2>4, <2>5 DEF IdsAreDrawn
<1>13. LogCoversWrites'
  <2>1. \A r \in t.log : /\ r.space \in WrittenBy(t.writes)
                         /\ r.status = LogStatus(t.writes[r.space].status)
    BY <1>2, <1>5 DEF Coherent
  <2>2. t.log # {} => \A s \in WrittenBy(t.writes) : \E r \in t.log : r.space = s
    BY <1>3, <1>4, <1>5 DEF Coherent
  <2>3. Covers(t)
    BY <2>1, <2>2 DEF Covers
  <2>. QED
    BY <2>3, <1>8, CoversAll, CoversAllNext DEF Core
<1>14. AbsentIsSilent'
  BY DEF Core, AbsentIsSilent, RecordsOf, Has
<1>15. OutcomeStillHolds'
  <2>1. \A s \in Spaces : RecordsOf(s)' = RecordsOf(s)
    BY DEF RecordsOf
  <2>2. \A s \in WrittenBy(t.writes) :
           /\ \A q \in RecordsOf(s) : \A r \in t.log : q.id < r.id
           /\ IF t.log # {}
              THEN <<spaces[s].status, t.writes[s].status>> \in LoggedMoves
              ELSE \/ t.writes[s].status = spaces[s].status
                   \/ spaces[s].status = "absent" /\ t.writes[s].status = "created"
    <3>1. \A s \in Spaces : \A q \in RecordsOf(s) : q.id < nextId
      BY DEF Core, IdsAreDrawn, RecordsOf
    <3>2. \A s \in WrittenBy(t.writes) :
             IF t.log # {}
             THEN <<spaces[s].status, t.writes[s].status>> \in LoggedMoves
             ELSE \/ t.writes[s].status = spaces[s].status
                  \/ spaces[s].status = "absent" /\ t.writes[s].status = "created"
      BY <1>4, <1>5 DEF Coherent
    <3>3. \A s \in WrittenBy(t.writes) : \A q \in RecordsOf(s) : \A r \in t.log : q.id < r.id
      BY <3>1, <1>2 DEF WrittenBy
    <3>. QED
      BY <3>2, <3>3
  <2>. QED
    BY <2>1, <2>2, <1>8 DEF Core, OutcomeStillHolds, WrittenBy
<1>16. LogMatchesStatus'
  BY DEF Core, LogMatchesStatus, RecordsOf, IsLast
<1>. QED
  BY <1>10, <1>11, <1>12, <1>13, <1>14, <1>15, <1>16 DEF Core

\* Documents change under open transactions: each keeps what it has, and remembers
\* what it no longer sees.
LEMMA OverwriteFacts ==
    ASSUME Core, NEW written \in SUBSET Spaces
    PROVE  /\ Overwrite(written) \in [Procs -> Tx]
           /\ \A p \in Procs : LET new == Overwrite(written)[p]
                               IN  /\ new.op = tx[p].op
                                   /\ new.writes = tx[p].writes
                                   /\ new.log = tx[p].log
                                   /\ new.id = tx[p].id
                                   /\ new = tx[p] \/ Open(p)
                                   /\ tx[p].missed \subseteq new.missed
                                   /\ Open(p) => written \subseteq new.missed
<1>. SUFFICES ASSUME NEW p \in Procs
              PROVE  LET new == Overwrite(written)[p]
                     IN  /\ new \in Tx
                         /\ new.op = tx[p].op
                         /\ new.writes = tx[p].writes
                         /\ new.log = tx[p].log
                         /\ new.id = tx[p].id
                         /\ new = tx[p] \/ Open(p)
                         /\ tx[p].missed \subseteq new.missed
                         /\ Open(p) => written \subseteq new.missed
  BY DEF Overwrite
<1>1. tx[p] \in Tx
  BY DEF Core, CoreTypes
<1>2. CASE Open(p)
  <2>1. Overwrite(written)[p] = [tx[p] EXCEPT !.missed = @ \cup written]
    BY <1>2 DEF Overwrite
  <2>. QED
    BY <1>1, <1>2, <2>1 DEF Tx
<1>3. CASE ~Open(p)
  <2>1. Overwrite(written)[p] = tx[p]
    BY <1>3 DEF Overwrite
  <2>. QED
    BY <1>1, <1>3, <2>1
<1>. QED
  BY <1>2, <1>3

\* A transaction commits: its write set misses everything that was overwritten since
\* its snapshot, so OutcomeStillHolds says what its documents become.
LEMMA CommitKeepsCore ==
    ASSUME Core, NEW p \in Procs, Commit(p)
    PROVE  /\ Core'
           /\ \A s \in Spaces : spaces[s].status # spaces'[s].status =>
                  <<spaces[s].status, spaces'[s].status>> \in LegalMoves
           /\ \A r \in statusRecords' \ statusRecords : \A q \in RecordsOf(r.space) : q.id < r.id
<1> DEFINE t == tx[p]
           W == WrittenBy(t.writes)
<1>1. /\ spaces' = Overlay(spaces, t.writes)
      /\ statusRecords' = statusRecords \cup t.log
      /\ tx' = [Overwrite(W) EXCEPT ![p] = NoTx]
      /\ nextId' = nextId
      /\ W \cap t.missed = {}
      /\ Open(p)
  BY DEF Commit, Conflict
<1>2. t \in Tx /\ W \in SUBSET Spaces
  BY DEF Core, CoreTypes, WrittenBy
<1>3. t.writes \in [Spaces -> Doc] /\ t.log \in SUBSET Record
  BY <1>2 DEF Tx
<1>4. /\ \A s \in W : spaces'[s] = t.writes[s] /\ t.writes[s].status # "absent"
      /\ \A s \in Spaces \ W : spaces'[s] = spaces[s]
      /\ spaces' \in [Spaces -> Doc]
  BY <1>1, <1>3 DEF Overlay, WrittenBy, Has, Core, CoreTypes
<1>5. Covers(t)
  BY CoversAll DEF Core
<1>6. /\ \A s \in Spaces \ W : RecordsOf(s)' = RecordsOf(s)
      /\ \A s \in Spaces : RecordsOf(s)' = RecordsOf(s) \cup {r \in t.log : r.space = s}
  BY <1>1, <1>5 DEF RecordsOf, Covers
<1>7. \A s \in W : /\ \A q \in RecordsOf(s) : \A r \in t.log : q.id < r.id
                   /\ IF t.log # {}
                      THEN <<spaces[s].status, t.writes[s].status>> \in LoggedMoves
                      ELSE \/ t.writes[s].status = spaces[s].status
                           \/ spaces[s].status = "absent" /\ t.writes[s].status = "created"
  BY <1>1 DEF Core, OutcomeStillHolds
<1>8. \A q \in Procs \ {p} :
         /\ tx'[q].op = tx[q].op
         /\ tx'[q].writes = tx[q].writes
         /\ tx'[q].log = tx[q].log
         /\ tx'[q].id = tx[q].id
         /\ tx'[q] = tx[q] \/ Open(q)
         /\ tx[q].missed \subseteq tx'[q].missed
         /\ Open(q) => W \subseteq tx'[q].missed
  BY <1>1, <1>2, OverwriteFacts
<1>9. tx' \in [Procs -> Tx] /\ tx'[p] = NoTx
  BY <1>1, <1>2, OverwriteFacts, NoTxType
<1>. HIDE DEF t, W
<1>10. CoreTypes'
  BY <1>1, <1>3, <1>4, <1>9 DEF Core, CoreTypes
<1>11. IdleIsClean'
  BY <1>8, <1>9 DEF Core, IdleIsClean, Open
<1>12. IdsAreDrawn'
  <2>1. \A r \in statusRecords' : r.id < nextId'
    BY <1>1 DEF Core, IdsAreDrawn, t
  <2>2. \A q \in Procs : \A r \in tx'[q].log : r.id = tx'[q].id /\ r.id < nextId'
    BY <1>1, <1>8, <1>9, NoTxType DEF Core, IdsAreDrawn
  <2>. QED
    BY <2>1, <2>2 DEF IdsAreDrawn
<1>13. LogCoversWrites'
  <2>1. \A q \in Procs \ {p} : Covers(tx'[q])
    BY <1>8, CoversAll DEF Core, Covers
  <2>. QED
    BY <2>1, <1>9, NoTxCovers, CoversAllNext
<1>14. AbsentIsSilent'
  BY <1>4, <1>6 DEF Core, AbsentIsSilent, Has
<1>15. OutcomeStillHolds'
  <2>. SUFFICES ASSUME NEW q \in Procs, NEW s \in WrittenBy(tx'[q].writes) \ tx'[q].missed
                PROVE  /\ \A o \in RecordsOf(s)' : \A r \in tx'[q].log : o.id < r.id
                       /\ IF tx'[q].log # {}
                          THEN <<spaces'[s].status, tx'[q].writes[s].status>> \in LoggedMoves
                          ELSE \/ tx'[q].writes[s].status = spaces'[s].status
                               \/ /\ spaces'[s].status = "absent"
                                  /\ tx'[q].writes[s].status = "created"
    BY DEF OutcomeStillHolds
  <2>1. q # p
    BY <1>9, NoTxType
  <2>2. Open(q)
    BY <2>1, <1>8, NoTxType DEF Core, IdleIsClean
  <2>3. s \in Spaces \ W /\ s \in WrittenBy(tx[q].writes) \ tx[q].missed
    BY <2>1, <2>2, <1>8 DEF WrittenBy
  <2>4. RecordsOf(s)' = RecordsOf(s) /\ spaces'[s] = spaces[s]
    BY <2>3, <1>4, <1>6
  <2>5. tx'[q].log = tx[q].log /\ tx'[q].writes = tx[q].writes
    BY <2>1, <1>8
  <2>. QED
    BY <2>3, <2>4, <2>5 DEF Core, OutcomeStillHolds
<1>16. LogMatchesStatus'
  <2>. SUFFICES ASSUME NEW s \in Spaces
                PROVE  /\ \A r \in RecordsOf(s)' :
                              IsLast(r)' => r.status = LogStatus(spaces'[s].status)
                       /\ RecordsOf(s)' = {} =>
                              \/ spaces'[s].status \in {"absent", "created"}
                              \/ spaces'[s].status = "pending" /\ s \in LegacySpaces
    BY DEF LogMatchesStatus
  <2>1. CASE s \notin W
    <3>1. RecordsOf(s)' = RecordsOf(s) /\ spaces'[s] = spaces[s]
      BY <2>1, <1>4, <1>6
    <3>2. \A r \in RecordsOf(s) : IsLast(r)' <=> IsLast(r)
      BY <3>1 DEF IsLast, RecordsOf
    <3>. QED
      BY <3>1, <3>2 DEF Core, LogMatchesStatus
  <2>2. CASE s \in W /\ t.log = {}
    <3>1. RecordsOf(s)' = RecordsOf(s)
      BY <2>2, <1>6
    <3>2. \A r \in RecordsOf(s) : IsLast(r)' <=> IsLast(r)
      BY <3>1 DEF IsLast, RecordsOf
    <3>3. CASE t.writes[s].status = spaces[s].status
      BY <3>1, <3>2, <3>3, <2>2, <1>4 DEF Core, LogMatchesStatus
    <3>4. CASE spaces[s].status = "absent" /\ t.writes[s].status = "created"
      <4>1. RecordsOf(s) = {}
        BY <3>4 DEF Core, AbsentIsSilent, Has
      <4>. QED
        BY <4>1, <3>1, <3>4, <2>2, <1>4
    <3>. QED
      BY <3>3, <3>4, <2>2, <1>7
  <2>3. CASE s \in W /\ t.log # {}
    <3>1. PICK new \in t.log : new.space = s
      BY <2>3, <1>5 DEF Covers, W
    <3>2. new \in RecordsOf(s)'
      BY <3>1, <1>6
    <3>3. ASSUME NEW r \in RecordsOf(s)', IsLast(r)'
          PROVE  r.status = LogStatus(spaces'[s].status)
      <4>1. r.space = s
        BY <3>3 DEF RecordsOf
      <4>2. new.id <= r.id
        BY <3>2, <3>3, <4>1 DEF IsLast
      <4>3. r \notin RecordsOf(s)
        <5>1. SUFFICES ASSUME r \in RecordsOf(s) PROVE FALSE
          OBVIOUS
        <5>2. r.id < new.id
          BY <5>1, <3>1, <2>3, <1>7
        <5>3. r.id \in Nat /\ new.id \in Nat
          BY <5>1, <3>1, <1>3 DEF Core, CoreTypes, RecordsOf, Record
        <5>. QED
          BY <5>2, <5>3, <4>2
      <4>4. r \in t.log
        BY <4>3, <3>3, <1>6
      <4>. QED
        BY <4>1, <4>4, <2>3, <1>4, <1>5 DEF Covers
    <3>. QED
      BY <3>2, <3>3
  <2>. QED
    BY <2>1, <2>2, <2>3
<1>17. ASSUME NEW s \in Spaces, spaces[s].status # spaces'[s].status
       PROVE  <<spaces[s].status, spaces'[s].status>> \in LegalMoves
  BY <1>4, <1>7, <1>17 DEF LegalMoves
<1>18. ASSUME NEW r \in statusRecords' \ statusRecords, NEW q \in RecordsOf(r.space)
       PROVE  q.id < r.id
  <2>1. r \in t.log
    BY <1>1
  <2>2. r.space \in W
    BY <2>1, <1>5 DEF Covers, W
  <2>. QED
    BY <2>1, <2>2, <1>7
<1>19. Core'
  BY <1>10, <1>11, <1>12, <1>13, <1>14, <1>15, <1>16 DEF Core
<1>. QED
  BY <1>17, <1>18, <1>19

\* ChangeOwner writes no status and logs nothing.
LEMMA ChangeOwnerKeepsCore ==
    ASSUME Core, NEW c \in Transfer, ChangeOwner(c)
    PROVE  /\ Core'
           /\ \A x \in Spaces : spaces'[x].status = spaces[x].status
<1> DEFINE s == c.space
           who == c.owner
           W == IF spaces[s].identity = who THEN {} ELSE {s}
<1>0. s \in Spaces /\ who \in Identities
  BY NewOwnersAssumption DEF Transfer
<1>1. /\ spaces' = [spaces EXCEPT ![s].identity = who]
      /\ tx' = Overwrite(W)
      /\ UNCHANGED <<statusRecords, nextId>>
      /\ W \in SUBSET Spaces
  BY <1>0 DEF ChangeOwner
<1>. HIDE DEF s, who
<1>2. /\ \A x \in Spaces : spaces'[x].status = spaces[x].status
      /\ spaces' \in [Spaces -> Doc]
  BY <1>0, <1>1 DEF Core, CoreTypes, Doc
<1>. HIDE DEF W
<1>3. /\ tx' \in [Procs -> Tx]
      /\ \A p \in Procs : /\ tx'[p].op = tx[p].op
                          /\ tx'[p].writes = tx[p].writes
                          /\ tx'[p].log = tx[p].log
                          /\ tx'[p].id = tx[p].id
                          /\ tx'[p] = tx[p] \/ Open(p)
                          /\ tx[p].missed \subseteq tx'[p].missed
  BY <1>1, OverwriteFacts
<1>4. CoreTypes'
  BY <1>1, <1>2, <1>3 DEF Core, CoreTypes
<1>5. IdleIsClean'
  BY <1>3 DEF Core, IdleIsClean, Open
<1>6. IdsAreDrawn'
  BY <1>1, <1>3 DEF Core, IdsAreDrawn
<1>7. LogCoversWrites'
  <2>1. ASSUME NEW p \in Procs PROVE Covers(tx'[p])
    <3>1. tx'[p].log = tx[p].log /\ tx'[p].writes = tx[p].writes
      BY <1>3
    <3>2. Covers(tx[p])
      BY CoversAll DEF Core
    <3>. QED
      BY <3>1, <3>2 DEF Covers
  <2>. QED
    BY <2>1, CoversAllNext
<1>8. \A x \in Spaces : RecordsOf(x)' = RecordsOf(x)
  BY <1>1 DEF RecordsOf
<1>9. AbsentIsSilent'
  BY <1>2, <1>8 DEF Core, AbsentIsSilent, Has
<1>10. OutcomeStillHolds'
  <2>. SUFFICES ASSUME NEW q \in Procs, NEW x \in WrittenBy(tx'[q].writes) \ tx'[q].missed
                PROVE  /\ \A o \in RecordsOf(x)' : \A r \in tx'[q].log : o.id < r.id
                       /\ IF tx'[q].log # {}
                          THEN <<spaces'[x].status, tx'[q].writes[x].status>> \in LoggedMoves
                          ELSE \/ tx'[q].writes[x].status = spaces'[x].status
                               \/ /\ spaces'[x].status = "absent"
                                  /\ tx'[q].writes[x].status = "created"
    BY DEF OutcomeStillHolds
  <2>1. x \in Spaces /\ x \in WrittenBy(tx[q].writes) \ tx[q].missed
    BY <1>3 DEF WrittenBy
  <2>2. RecordsOf(x)' = RecordsOf(x) /\ spaces'[x].status = spaces[x].status
    BY <2>1, <1>2, <1>8
  <2>3. tx'[q].log = tx[q].log /\ tx'[q].writes = tx[q].writes
    BY <1>3
  <2>. QED
    BY <2>1, <2>2, <2>3 DEF Core, OutcomeStillHolds
<1>11. LogMatchesStatus'
  BY <1>1, <1>2, <1>8 DEF Core, LogMatchesStatus, IsLast, RecordsOf
<1>. QED
  BY <1>2, <1>4, <1>5, <1>6, <1>7, <1>9, <1>10, <1>11 DEF Core

----------------------------------------------------------------------------
(* The invariant.                                                           *)

\* The conjuncts of TypeOK that Core leaves out.
RestTypes ==
    /\ ownershipRecords \in SUBSET OwnershipRecord
    /\ transfers \in SUBSET Transfer
    /\ deleter \in [query : {"idle", "old", "new"}, at : Nat, batch : SUBSET Spaces]
    /\ now \in Nat
    /\ requests \in 0 .. MaxRequests
    /\ faults \in 0 .. MaxFaults

LEMMA InvSplit == (IInv <=> (Core /\ RestTypes)) /\ (IInv' <=> (Core' /\ RestTypes'))
  BY DEF IInv, Core, CoreTypes, RestTypes, TypeOK

LEMMA InitInv == Init => IInv
<1>. SUFFICES ASSUME Init PROVE IInv
  OBVIOUS
<1>1. \A s \in Spaces : \A d \in LegacyDocs(s) : d \in Doc /\ d.status \in {"created", "pending"}
  <2>. SUFFICES ASSUME NEW s \in Spaces, NEW d \in LegacyDocs(s)
                PROVE  d \in Doc /\ d.status \in {"created", "pending"}
    OBVIOUS
  <2>1. PICK i \in Signers[s] :
            \/ d = [NoDoc EXCEPT !.identity = i, !.status = "created"]
            \/ d = [NoDoc EXCEPT !.identity = i, !.status = "pending", !.deletionTimestamp = 1]
    BY DEF LegacyDocs
  <2>2. i \in Identities
    BY HeaderAssumption
  <2>3. \/ d = [identity |-> i, status |-> "created", type |-> "missing", shareable |-> FALSE,
                deletionTimestamp |-> 0, toBeDeletedTimestamp |-> -1]
        \/ d = [identity |-> i, status |-> "pending", type |-> "missing", shareable |-> FALSE,
                deletionTimestamp |-> 1, toBeDeletedTimestamp |-> -1]
    BY <2>1 DEF NoDoc, Missing
  <2>4. {"created", "pending"} \subseteq Phases /\ "missing" \in Types
    BY DEF Phases, Types
  <2>5. i \in Identities \cup {Nobody} /\ -1 \in Int /\ 0 \in Int /\ 1 \in Int
    BY <2>2
  <2>6. d.status \in {"created", "pending"}
    BY <2>3
  <2>7. ASSUME NEW x \in Phases, NEW at \in Int, NEW due \in Int
        PROVE  [identity |-> i, status |-> x, type |-> "missing", shareable |-> FALSE,
                deletionTimestamp |-> at, toBeDeletedTimestamp |-> due] \in Doc
    BY <2>4, <2>5 DEF Doc
  <2>8. d \in Doc
    BY <2>3, <2>4, <2>5, <2>7
  <2>. QED
    BY <2>6, <2>8
<1>2. \A s \in Spaces : /\ spaces[s] \in Doc
                        /\ spaces[s] # NoDoc => s \in LegacySpaces
                        /\ spaces[s].status \in {"absent", "created", "pending"}
  <2>1. \A s \in Spaces :
            spaces[s] \in {NoDoc} \cup (IF s \in LegacySpaces THEN LegacyDocs(s) ELSE {})
    BY DEF Init
  <2>2. NoDoc.status = "absent"
    BY DEF NoDoc
  <2>. QED
    BY <1>1, <2>1, <2>2, NoDocType
<1>3. spaces \in [Spaces -> Doc]
  BY <1>2 DEF Init
<1>4. CoreTypes
  BY <1>3, NoTxType DEF Init, Quiet, CoreTypes
<1>5. RestTypes
  BY BoundsAssumption DEF Init, Quiet, RestTypes, NoRun
<1>6. \A s \in Spaces : RecordsOf(s) = {}
  BY DEF Init, Quiet, RecordsOf
<1>7. \A p \in Procs : tx[p] = NoTx
  BY DEF Init, Quiet
<1>8. IdleIsClean /\ IdsAreDrawn /\ AbsentIsSilent /\ OutcomeStillHolds
  BY <1>6, <1>7, NoTxType DEF Init, Quiet, IdleIsClean, IdsAreDrawn, AbsentIsSilent, OutcomeStillHolds
<1>9. LogCoversWrites
  BY <1>7, NoTxCovers, CoversAll
<1>10. LogMatchesStatus
  BY <1>2, <1>6 DEF LogMatchesStatus, NoDoc
<1>. QED
  BY <1>4, <1>5, <1>8, <1>9, <1>10, InvSplit DEF Core

\* What every step does to the documents and the log, beside keeping Core.
StepFacts ==
    /\ \A s \in Spaces : spaces[s].status # spaces'[s].status =>
            <<spaces[s].status, spaces'[s].status>> \in LegalMoves
    /\ \A r \in statusRecords' \ statusRecords : \A q \in RecordsOf(r.space) : q.id < r.id

LEMMA RequestKeepsCore ==
    ASSUME IInv, NEW w \in Workers, NEW op \in Ops \ {"none"},
           NEW who \in Identities \cup {Nobody}, NEW target \in SUBSET Spaces,
           NEW outcome, Coherent(spaces, outcome), Request(w, op, who, target, outcome)
    PROVE  Core' /\ RestTypes' /\ StepFacts
<1>1. w \in Procs
  BY DEF Procs
<1>2. Core'
  BY <1>1, BeginKeepsCore, InvSplit DEF Request
<1>3. RestTypes'
  BY InvSplit, BoundsAssumption DEF Request, RestTypes
<1>4. StepFacts
  BY DEF Request, StepFacts
<1>. QED
  BY <1>2, <1>3, <1>4

\* A step that leaves documents and status records alone, draws at most an id and at
\* most ends transactions.
LEMMA QuietKeepsCore ==
    ASSUME IInv, UNCHANGED <<spaces, statusRecords>>, nextId' \in {nextId, nextId + 1},
           \/ tx' = tx
           \/ \E p \in Procs : tx' = [tx EXCEPT ![p] = NoTx]
           \/ tx' = [p \in Procs |-> NoTx]
    PROVE  Core' /\ StepFacts
<1>1. tx' \in [Procs -> Tx] /\ \A p \in Procs : tx'[p] \in {tx[p], NoTx}
  BY InvSplit, NoTxType DEF Core, CoreTypes
<1>2. Core'
  BY <1>1, EndingKeepsCore, InvSplit
<1>. QED
  BY <1>2 DEF StepFacts

LEMMA StepInv == ASSUME IInv, Next PROVE IInv' /\ StepFacts
<1>. USE DEF Ops
<1>1. spaces \in [Spaces -> Doc] /\ now \in Int
  BY InvSplit DEF Core, CoreTypes, RestTypes
<1>2. ASSUME NEW w \in Workers, RequestNewStatus(w) PROVE Core' /\ RestTypes' /\ StepFacts
  <2>1. PICK s \in Spaces, force \in BOOLEAN :
            \E who \in Signers[s] :
                Request(w, "NewStatus", who, {s}, NewStatus(spaces, s, who, force))
    BY <1>2 DEF RequestNewStatus
  <2>2. PICK who \in Signers[s] :
            Request(w, "NewStatus", who, {s}, NewStatus(spaces, s, who, force))
    BY <2>1
  <2>3. who \in Identities
    BY HeaderAssumption
  <2>. QED
    BY <1>1, <2>2, <2>3, NewStatusCoherent, RequestKeepsCore
<1>3. ASSUME NEW w \in Workers, RequestSpaceDelete(w) PROVE Core' /\ RestTypes' /\ StepFacts
  <2>1. PICK s \in Spaces, who \in Identities, period \in Periods :
            Request(w, "SpaceDelete", who, {s}, SpaceDelete(spaces, s, who, now, period))
    BY <1>3 DEF RequestSpaceDelete
  <2>2. period \in Int
    BY PeriodsAssumption
  <2>. QED
    BY <1>1, <2>1, <2>2, SpaceDeleteCoherent, RequestKeepsCore
<1>4. ASSUME NEW w \in Workers, RequestAccountDelete(w) PROVE Core' /\ RestTypes' /\ StepFacts
  BY <1>1, <1>4, AccountDeleteCoherent, RequestKeepsCore DEF RequestAccountDelete
<1>5. ASSUME NEW w \in Workers, RequestAccountRevertDeletion(w)
      PROVE  Core' /\ RestTypes' /\ StepFacts
  BY <1>1, <1>5, AccountRevertDeletionCoherent, RequestKeepsCore
     DEF RequestAccountRevertDeletion
<1>6. ASSUME NEW w \in Workers, RequestChangeStatus(w) PROVE Core' /\ RestTypes' /\ StepFacts
  BY <1>1, <1>6, ChangeStatusCoherent, RequestKeepsCore DEF RequestChangeStatus
<1>7. ASSUME NEW w \in Workers, RequestMakeShareable(w) PROVE Core' /\ RestTypes' /\ StepFacts
  BY <1>1, <1>7, ShareCoherent, RequestKeepsCore DEF RequestMakeShareable
<1>8. ASSUME NEW w \in Workers, RequestMakeUnshareable(w) PROVE Core' /\ RestTypes' /\ StepFacts
  BY <1>1, <1>8, ShareCoherent, RequestKeepsCore DEF RequestMakeUnshareable
<1>9. CASE RequestAclOwnerChange
  <2>1. PICK s \in Spaces, who \in NewOwners :
            /\ requests < MaxRequests /\ requests' = requests + 1
            /\ transfers' = transfers \cup
                  {[call |-> requests', space |-> s, identity |-> spaces[s].identity,
                    owner |-> who, at |-> "change", id |-> 0]}
            /\ UNCHANGED <<spaces, statusRecords, ownershipRecords, nextId, tx, deleter, now,
                           faults>>
    BY <1>9 DEF RequestAclOwnerChange
  <2>2. spaces[s].identity \in Identities \cup {Nobody} /\ requests' \in 0 .. MaxRequests
    <3>1. spaces[s].identity \in Identities \cup {Nobody}
      BY <1>1 DEF Doc
    <3>2. requests' \in 0 .. MaxRequests
      BY <2>1, InvSplit, BoundsAssumption DEF RestTypes
    <3>. QED
      BY <3>1, <3>2
  <2>3. [call |-> requests', space |-> s, identity |-> spaces[s].identity,
         owner |-> who, at |-> "change", id |-> 0] \in Transfer
    <3>1. requests' \in Nat
      BY <2>2, BoundsAssumption
    <3>. QED
      BY <2>2, <3>1 DEF Transfer
  <2>4. RestTypes'
    BY <2>1, <2>2, <2>3, InvSplit DEF RestTypes
  <2>5. UNCHANGED <<spaces, statusRecords>> /\ nextId' = nextId /\ tx' = tx
    BY <1>9 DEF RequestAclOwnerChange
  <2>. QED
    BY <2>4, <2>5, QuietKeepsCore, InvSplit
<1>10. ASSUME NEW c \in transfers, ChangeOwner(c)
       PROVE  Core' /\ RestTypes' /\ StepFacts
  <2>1. c \in Transfer
    BY InvSplit DEF RestTypes
  <2>2. [c EXCEPT !.at = "draw", !.id = 0] \in Transfer
    BY <2>1 DEF Transfer
  <2>3. RestTypes'
    BY <1>10, <2>2, InvSplit DEF ChangeOwner, Advance, RestTypes
  <2>4. StepFacts
    BY <1>10, <2>1, ChangeOwnerKeepsCore, InvSplit DEF StepFacts, ChangeOwner
  <2>. QED
    BY <1>10, <2>1, <2>3, <2>4, ChangeOwnerKeepsCore, InvSplit
<1>11. ASSUME NEW c \in transfers,
              DrawOwnershipId(c) \/ InsertOwnershipChange(c) \/ LoseTransfer(c)
       PROVE  Core' /\ RestTypes' /\ StepFacts
  <2>1. c \in Transfer /\ nextId \in Nat
    BY InvSplit DEF RestTypes, Core, CoreTypes
  <2>2. [c EXCEPT !.at = "insert", !.id = nextId] \in Transfer
    BY <2>1 DEF Transfer
  <2>3. [id |-> c.id, space |-> c.space, group |-> c.identity, status |-> "OwnershipChange"]
            \in OwnershipRecord
    BY <2>1 DEF Transfer, OwnershipRecord
  <2>4. RestTypes'
    BY <1>11, <2>2, <2>3, InvSplit, BoundsAssumption
       DEF DrawOwnershipId, InsertOwnershipChange, LoseTransfer, Advance, RestTypes
  <2>. QED
    BY <1>11, <2>4, QuietKeepsCore DEF DrawOwnershipId, InsertOwnershipChange, LoseTransfer
<1>12. ASSUME NEW p \in Procs, Commit(p) PROVE Core' /\ RestTypes' /\ StepFacts
  <2>1. RestTypes'
    BY <1>12, InvSplit DEF Commit, RestTypes
  <2>. QED
    BY <1>12, <2>1, CommitKeepsCore, InvSplit DEF StepFacts
<1>13. ASSUME NEW p \in Procs, Abort(p) \/ LoseTx(p) PROVE Core' /\ RestTypes' /\ StepFacts
  <2>1. RestTypes'
    BY <1>13, InvSplit, BoundsAssumption DEF Abort, LoseTx, RestTypes
  <2>. QED
    BY <1>13, <2>1, QuietKeepsCore DEF Abort, LoseTx
<1>14. CASE DeleterQueryOld \/ DeleterQueryNew \/ DeleterDone
  <2>1. /\ OldPending(spaces, now) \subseteq Spaces
        /\ NewPending(spaces, deleter.at) \subseteq Spaces
    BY DEF OldPending, NewPending
  <2>2. deleter \in [query : {"idle", "old", "new"}, at : Nat, batch : SUBSET Spaces]
        /\ now \in Nat
    BY InvSplit DEF RestTypes
  <2>3. \/ deleter' = [query |-> "old", at |-> now, batch |-> OldPending(spaces, now)]
        \/ deleter' = [deleter EXCEPT !.query = "new",
                                      !.batch = NewPending(spaces, deleter.at)]
        \/ deleter' = [query |-> "idle", at |-> 0, batch |-> {}]
    BY <1>14 DEF DeleterQueryOld, DeleterQueryNew, DeleterDone, NoRun
  <2>4. deleter' \in [query : {"idle", "old", "new"}, at : Nat, batch : SUBSET Spaces]
    <3>1. CASE deleter' = [query |-> "old", at |-> now, batch |-> OldPending(spaces, now)]
      BY <2>1, <2>2, <3>1
    <3>2. CASE deleter' = [deleter EXCEPT !.query = "new",
                                         !.batch = NewPending(spaces, deleter.at)]
      BY <2>1, <2>2, <3>2
    <3>3. CASE deleter' = [query |-> "idle", at |-> 0, batch |-> {}]
      BY <3>3
    <3>. QED
      BY <2>3, <3>1, <3>2, <3>3
  <2>5. RestTypes'
    BY <1>14, <2>4, InvSplit DEF DeleterQueryOld, DeleterQueryNew, DeleterDone, RestTypes
  <2>. QED
    BY <1>14, <2>5, QuietKeepsCore, InvSplit DEF DeleterQueryOld, DeleterQueryNew, DeleterDone
<1>15. ASSUME NEW s \in Spaces, DeleterProcessEntry(s) PROVE Core' /\ RestTypes' /\ StepFacts
  <2>1. RestTypes'
    BY <1>15, InvSplit DEF DeleterProcessEntry, RestTypes
  <2>2. Deleter \in Procs
    BY DEF Procs
  <2>3. Core'
    BY <1>1, <1>15, <2>2, DeleteEntryCoherent, BeginKeepsCore, InvSplit DEF DeleterProcessEntry
  <2>4. StepFacts
    BY <1>15 DEF DeleterProcessEntry, StepFacts
  <2>. QED
    BY <2>1, <2>3, <2>4
<1>16. CASE DeleterCursorFails \/ DeleterGiveUp \/ Crash
  <2>1. RestTypes'
    BY <1>16, InvSplit, BoundsAssumption
       DEF DeleterCursorFails, DeleterGiveUp, Crash, NoRun, RestTypes
  <2>2. Deleter \in Procs
    BY DEF Procs
  <2>. QED
    BY <1>16, <2>1, <2>2, QuietKeepsCore, InvSplit
       DEF DeleterCursorFails, DeleterGiveUp, Crash
<1>17. CASE Tick
  <2>1. RestTypes'
    BY <1>17, InvSplit DEF Tick, RestTypes
  <2>. QED
    BY <1>17, <2>1, QuietKeepsCore, InvSplit DEF Tick
<1>. QED
  BY <1>2, <1>3, <1>4, <1>5, <1>6, <1>7, <1>8, <1>9, <1>10, <1>11, <1>12, <1>13, <1>14, <1>15,
     <1>16, <1>17, InvSplit DEF Next

LEMMA StutterInv == ASSUME IInv, UNCHANGED vars PROVE IInv'
<1>1. RestTypes'
  BY InvSplit DEF vars, RestTypes
<1>. QED
  BY <1>1, QuietKeepsCore, InvSplit DEF vars

\* The inductive invariant holds in every state the coordinator reaches.
THEOREM InductiveInvariant == Spec => []IInv
<1>1. IInv /\ [Next]_vars => IInv'
  BY StepInv, StutterInv
<1>. QED
  BY <1>1, InitInv, PTL DEF Spec

\* Type correctness.
THEOREM TypeCorrect == Spec => []TypeOK
<1>1. IInv => TypeOK
  BY DEF IInv
<1>. QED
  BY <1>1, InductiveInvariant, PTL

\* At every moment, with any number of handlers, deleter runs, conflicts, lost
\* transactions and crashes behind it, the last status record of every space in the
\* deletion log names the status of its document.
THEOREM LogIsTrue == Spec => []LogMatchesStatus
<1>1. IInv => LogMatchesStatus
  BY DEF IInv
<1>. QED
  BY <1>1, InductiveInvariant, PTL

\* The status records of one space become visible in the order of their ids.
THEOREM StatusRecordsAreOrdered == Spec => StatusRecordsInIdOrder
<1>1. IInv /\ [Next]_vars =>
        [\A r \in statusRecords' \ statusRecords : \A q \in RecordsOf(r.space) : q.id < r.id]_vars
  BY StepInv DEF StepFacts
<1>. QED
  BY <1>1, InductiveInvariant, PTL DEF Spec, StatusRecordsInIdOrder

\* A space changes status only along LegalMoves, whatever interleaves.
THEOREM MovesAreLegal == Spec => StatusMovesLegally
<1>1. IInv /\ [Next]_vars =>
        [\A s \in Spaces : spaces[s].status # spaces'[s].status =>
            <<spaces[s].status, spaces'[s].status>> \in LegalMoves]_vars
  BY StepInv DEF StepFacts
<1>. QED
  BY <1>1, InductiveInvariant, PTL DEF Spec, StatusMovesLegally

=============================================================================
