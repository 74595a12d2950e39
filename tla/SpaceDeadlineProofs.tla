-------------------------- MODULE SpaceDeadlineProofs --------------------------
(****************************************************************************)
(* Theorems about deletion dates in SpaceStatus: what the deleter removes   *)
(* before its deadline had been restored, and the date a client is shown is *)
(* that of the deletion that is pending.  For every set of spaces, handlers *)
(* and periods.                                                             *)
(****************************************************************************)
EXTENDS SpaceLifecycleProofs

SameDates(doc, old) ==
    /\ doc.deletionTimestamp = old.deletionTimestamp
    /\ doc.toBeDeletedTimestamp = old.toBeDeletedTimestamp

\* A pending deletion has the time it was asked for, and ShownIsOfLastDeletion holds.
DatesAgree(doc) ==
    doc.status = "pending" =>
        /\ doc.deletionTimestamp > 0
        /\ Deadline(doc) - Shown(doc) \in {0} \cup {p - DeletionPeriod : p \in Periods}

Restored(s) == \E r \in RecordsOf(s) : r.status = "Ok"

\* The deleter may remove the space.
Due(s) == Restored(s) \/ (spaces[s].status \in {"pending", "deleted"} /\ DeadlinePassed(s))

\* What an operation does to the dates of the documents it writes: only a change of
\* status sets them, and what is removed was in the deleter's batch.
Dated(db, out) ==
    \A s \in WrittenBy(out.writes) :
        /\ out.writes[s].status \in {db[s].status, "deleted"} => SameDates(out.writes[s], db[s])
        /\ out.writes[s].status = "deleted" => db[s].status = "deleted" \/ s \in deleter.batch
        /\ \/ DatesAgree(out.writes[s])
           \/ out.writes[s].status = db[s].status /\ SameDates(out.writes[s], db[s])

\* A change of status that SetStatusAll may be asked for.
Sets(db, S, change) ==
    /\ change \in Change
    /\ S \in SUBSET Spaces
    /\ \A s \in S : db[s].status # change.status
    /\ change.status = "deleted" => S \subseteq deleter.batch
    /\ change.status = "pending" =>
          change.at > 0 /\ change.due - change.at \in {DeletionPeriod} \cup Periods

----------------------------------------------------------------------------
(* Outcomes.                                                                *)

LEMMA FailDated == ASSUME NEW db, NEW err PROVE Dated(db, Fail(err)) /\ Dated(db, Nothing)
  BY NoDocType DEF Dated, Fail, Nothing

LEMMA WriteDated ==
    ASSUME NEW db, NEW s \in Spaces, NEW doc,
           \/ doc.status = "created" /\ db[s].status # "created"
           \/ doc.status = db[s].status /\ SameDates(doc, db[s])
    PROVE  Dated(db, Write(s, doc))
<1>1. Write(s, doc).writes = [NoWrites EXCEPT ![s] = doc]
  BY DEF Write, Nothing, Fail
<1>2. /\ WrittenBy(Write(s, doc).writes) \subseteq {s}
      /\ Write(s, doc).writes[s] = doc
  BY <1>1 DEF WrittenBy, Has, NoWrites, NoDoc
<1>. QED
  BY <1>2 DEF Dated, DatesAgree

\* A document that becomes pending gets dates that are its period apart.
LEMMA ModifiedDates ==
    ASSUME NEW doc \in Doc, NEW change \in Change,
           change.status = "pending" =>
               change.at > 0 /\ change.due - change.at \in {DeletionPeriod} \cup Periods
    PROVE  /\ change.status = "deleted" => SameDates(Modified(doc, change), doc)
           /\ DatesAgree(Modified(doc, change))
<1> DEFINE new == Modified(doc, change)
<1>1. new.status = change.status
  BY ModifiedType
<1>2. CASE change.status = "deleted"
  BY <1>1, <1>2 DEF Modified, Doc, SameDates, DatesAgree
<1>3. CASE change.status = "created"
  BY <1>1, <1>3 DEF DatesAgree
<1>4. CASE change.status = "pending"
  <2>1. new.deletionTimestamp = change.at /\ new.toBeDeletedTimestamp = change.due
    BY <1>4 DEF Modified, Doc
  <2>2. change.at \in Int /\ change.due \in Int /\ DeletionPeriod \in Int /\ Periods \subseteq Int
    BY LimitsAssumption, PeriodsAssumption DEF Change
  <2>3. Shown(new) = change.at + DeletionPeriod
    BY <1>1, <1>4, <2>1 DEF Shown
  <2>4. Deadline(new) = IF change.due = Missing THEN change.at + DeletionPeriod ELSE change.due
    BY <2>1 DEF Deadline
  <2>. HIDE DEF new
  <2>5. Deadline(new) - Shown(new) \in {0, (change.due - change.at) - DeletionPeriod}
    BY <2>2, <2>3, <2>4
  <2> DEFINE period == change.due - change.at
  <2>6. period = DeletionPeriod => period - DeletionPeriod = 0
    BY <2>2
  <2>7. period \in {DeletionPeriod} \cup Periods
    BY <1>4
  <2>. HIDE DEF period
  <2>8. period - DeletionPeriod \in {0} \cup {p - DeletionPeriod : p \in Periods}
    BY <2>6, <2>7
  <2>9. Deadline(new) - Shown(new) \in {0} \cup {p - DeletionPeriod : p \in Periods}
    BY <2>5, <2>8 DEF period
  <2>. QED
    BY <1>4, <2>1, <2>9 DEF new, DatesAgree
<1>. QED
  BY <1>2, <1>3, <1>4 DEF Change

LEMMA SetStatusAllDated ==
    ASSUME NEW db \in [Spaces -> Doc], NEW S, NEW change, Sets(db, S, change)
    PROVE  Dated(db, SetStatusAll(db, S, change))
<1> DEFINE out == SetStatusAll(db, S, change)
<1>1. out.writes = [s \in Spaces |-> IF s \in S THEN Modified(db[s], change) ELSE NoDoc]
  BY DEF SetStatusAll
<1>2. WrittenBy(out.writes) \subseteq S
  BY <1>1 DEF WrittenBy, Has, NoDoc
<1>3. \A s \in S : /\ out.writes[s].status = change.status
                   /\ db[s].status # change.status
                   /\ change.status = "deleted" => SameDates(out.writes[s], db[s])
                   /\ DatesAgree(out.writes[s])
  BY <1>1, ModifiedType, ModifiedDates DEF Sets
<1>. HIDE DEF out
<1>4. Dated(db, out)
  BY <1>2, <1>3 DEF Dated, Sets
<1>. QED
  BY <1>4 DEF out

LEMMA SetStatusTxDated ==
    ASSUME NEW db \in [Spaces -> Doc], NEW s \in Spaces, NEW who, NEW change, NEW old,
           db[s].status = old => Sets(db, {s}, change)
    PROVE  Dated(db, SetStatusTx(db, s, who, change, old))
<1>1. CASE db[s].status = old
  BY <1>1, SetStatusAllDated, FailDated DEF SetStatusTx
<1>2. CASE db[s].status # old
  BY <1>2, FailDated DEF SetStatusTx
<1>. QED
  BY <1>1, <1>2

LEMMA LimitedDated ==
    ASSUME NEW db, NEW who, NEW out, Dated(db, out)
    PROVE  Dated(db, Limited(db, who, out))
  BY FailDated DEF Limited

LEMMA OperationDated ==
    ASSUME IInv, now > 0, NEW p, NEW op, NEW who, NEW out, Operation(p, op, who, out)
    PROVE  Dated(spaces, out)
<1>1. /\ spaces \in [Spaces -> Doc] /\ now \in Int /\ DeletionPeriod \in Int
      /\ deleter.batch \subseteq Spaces
  BY InvSplit, LimitsAssumption DEF Core, CoreTypes, RestTypes
<1>2. ASSUME NEW S \in SUBSET Spaces, \A s \in S : spaces[s].status # "created"
      PROVE  Sets(spaces, S, ToCreated)
  BY <1>2, ChangeTypes DEF Sets
<1>3. ASSUME NEW S \in SUBSET Spaces, \A s \in S : spaces[s].status = "created",
             NEW period \in {DeletionPeriod} \cup Periods
      PROVE  Sets(spaces, S, ToPending(now, period))
  <2>1. period \in Int
    BY <1>1, PeriodsAssumption
  <2>2. /\ ToPending(now, period) \in Change
        /\ ToPending(now, period).status = "pending"
    BY <1>1, <2>1, ChangeTypes
  <2>3. /\ ToPending(now, period).due - ToPending(now, period).at = period
        /\ ToPending(now, period).at > 0
    BY <1>1, <2>1 DEF ToPending
  <2>. QED
    BY <1>3, <2>2, <2>3 DEF Sets
<1>4. ASSUME NEW s \in Spaces, NEW force \in BOOLEAN
      PROVE  Dated(spaces, NewStatus(spaces, s, who, force))
  <2> DEFINE changed == SetStatusTx(spaces, s, who, ToCreated, spaces[s].status)
             forced == [changed EXCEPT !.err = "ok"]
  <2>1. CASE spaces[s].status = "created"
    BY <2>1, FailDated DEF NewStatus
  <2>2. CASE spaces[s].status # "created"
    <3>1. Dated(spaces, changed)
      BY <1>1, <1>2, <2>2, SetStatusTxDated
    <3>2. forced.writes = changed.writes
      BY ErrorDropped
    <3>3. Dated(spaces, forced)
      <4>. HIDE DEF changed, forced
      <4>. QED
        BY <3>1, <3>2 DEF Dated
    <3>4. Dated(spaces, Revived(spaces, s, who))
      <4>1. Revived(spaces, s, who) = Limited(spaces, who, forced)
        BY DEF Revived
      <4>. HIDE DEF forced
      <4>. QED
        BY <3>3, <4>1, LimitedDated
    <3>5. NewDoc(s, who).status = "created"
      BY DEF NewDoc, NoDoc
    <3>6. Dated(spaces, Write(s, NewDoc(s, who)))
      BY <2>2, <3>5, WriteDated
    <3>. QED
      BY <2>2, <3>4, <3>6, LimitedDated, FailDated DEF NewStatus
  <2>. QED
    BY <2>1, <2>2
<1>5. ASSUME NEW s \in Spaces, NEW period \in {DeletionPeriod} \cup Periods
      PROVE  Dated(spaces, SetStatusTx(spaces, s, who, ToPending(now, period), "created"))
  BY <1>1, <1>3, SetStatusTxDated
<1>6. ASSUME NEW s \in Spaces, NEW period \in Periods
      PROVE  Dated(spaces, SpaceDelete(spaces, s, who, now, period))
  BY <1>5, FailDated DEF SpaceDelete
<1>7. ASSUME NEW s \in Spaces
      PROVE  /\ Dated(spaces, ChangeStatusRestore(spaces, s, who))
             /\ Dated(spaces, ChangeStatusDelete(spaces, s, who, now))
  <2>1. Dated(spaces, SetStatusTx(spaces, s, who, ToCreated, "pending"))
    BY <1>1, <1>2, SetStatusTxDated
  <2>. QED
    BY <1>5, <2>1, LimitedDated DEF ChangeStatusRestore, ChangeStatusDelete
<1>8. ASSUME NEW s \in Spaces
      PROVE  /\ \A limit \in Nat : Dated(spaces, MakeShareable(spaces, s, limit))
             /\ Dated(spaces, MakeUnshareable(spaces, s))
  <2>1. ASSUME NEW shared \in BOOLEAN
        PROVE  Dated(spaces, Write(s, [spaces[s] EXCEPT !.shareable = shared]))
    <3>1. /\ [spaces[s] EXCEPT !.shareable = shared].status = spaces[s].status
          /\ SameDates([spaces[s] EXCEPT !.shareable = shared], spaces[s])
      BY <1>1 DEF SameDates, Doc
    <3>. QED
      BY <3>1, WriteDated
  <2>. QED
    BY <2>1, FailDated DEF MakeShareable, MakeUnshareable
<1>9. /\ Dated(spaces, AccountDelete(spaces, who, now))
      /\ Dated(spaces, AccountRevertDeletion(spaces, who))
  <2>1. \A phase : /\ Owned(spaces, who, phase) \in SUBSET Spaces
                   /\ \A s \in Owned(spaces, who, phase) : spaces[s].status = phase
    BY DEF Owned
  <2>2. Dated(spaces, SetStatusAll(spaces, Owned(spaces, who, "created"),
                                   ToPending(now, DeletionPeriod)))
    BY <1>1, <1>3, <2>1, SetStatusAllDated
  <2>3. Dated(spaces, SetStatusAll(spaces, Owned(spaces, who, "pending"), ToCreated))
    BY <1>1, <1>2, <2>1, SetStatusAllDated
  <2>. QED
    BY <2>2, <2>3, FailDated DEF AccountDelete, AccountRevertDeletion
<1>10. ASSUME NEW s \in deleter.batch PROVE Dated(spaces, DeleteEntry(spaces, s))
  <2>1. spaces[s].status = "pending" => Sets(spaces, {s}, ToDeleted)
    BY <1>1, ChangeTypes DEF Sets
  <2>. QED
    BY <1>1, <2>1, SetStatusTxDated DEF DeleteEntry
<1>. QED
  BY <1>1, <1>4, <1>6, <1>7, <1>8, <1>9, <1>10 DEF Operation

----------------------------------------------------------------------------
(* Steps.                                                                   *)

\* Documents get another status or other dates from commits only, the clock and the
\* log go forward, and the deleter's cursor holds what its query returned.
LEMMA DocStep ==
    ASSUME IInv, Next
    PROVE  /\ statusRecords \subseteq statusRecords'
           /\ now <= now'
           /\ \A s \in Spaces :
                 \/ spaces'[s].status = spaces[s].status /\ SameDates(spaces'[s], spaces[s])
                 \/ \E p \in Procs : Commit(p) /\ s \in WrittenBy(tx[p].writes)
           /\ \/ deleter'.batch \subseteq deleter.batch
              \/ /\ UNCHANGED <<spaces, now>>
                 /\ deleter'.batch \in {OldPending(spaces, now), NewPending(spaces, deleter.at)}
           /\ deleter'.at \in {deleter.at, now, 0}
<1>1. /\ spaces \in [Spaces -> Doc] /\ now \in Nat
      /\ deleter \in [query : {"idle", "old", "new"}, at : Nat, batch : SUBSET Spaces]
  BY InvSplit DEF Core, CoreTypes, RestTypes
<1>2. ASSUME NEW c \in transfers, ChangeOwner(c)
      PROVE  /\ \A x \in Spaces : /\ spaces'[x].status = spaces[x].status
                                  /\ SameDates(spaces'[x], spaces[x])
             /\ UNCHANGED <<statusRecords, now, deleter>>
  BY <1>1, <1>2 DEF ChangeOwner, SameDates, Doc
<1>3. ASSUME NEW p \in Procs, Commit(p)
      PROVE  /\ statusRecords \subseteq statusRecords'
             /\ UNCHANGED <<now, deleter>>
             /\ \A s \in Spaces \ WrittenBy(tx[p].writes) : spaces'[s] = spaces[s]
  BY <1>3, CommitFacts DEF Commit
<1>4. CASE /\ UNCHANGED <<spaces, statusRecords, now>>
           /\ deleter'.batch \subseteq deleter.batch
           /\ deleter'.at \in {deleter.at, now, 0}
  BY <1>1, <1>4 DEF SameDates
<1>5. ASSUME NEW s \in Spaces, DeleterProcessEntry(s)
      PROVE  /\ UNCHANGED <<spaces, statusRecords, now>>
             /\ deleter'.batch \subseteq deleter.batch
             /\ deleter'.at = deleter.at
  BY <1>1, <1>5 DEF DeleterProcessEntry
<1>6. CASE DeleterQueryOld \/ DeleterQueryNew
  <2>1. UNCHANGED <<spaces, statusRecords, now>>
    BY <1>6 DEF DeleterQueryOld, DeleterQueryNew
  <2>2. CASE DeleterQueryOld
    <3>1. deleter'.batch = OldPending(spaces, now) /\ deleter'.at = now
      BY <2>2 DEF DeleterQueryOld
    <3>. QED
      BY <1>1, <2>1, <3>1 DEF SameDates
  <2>3. CASE DeleterQueryNew
    <3> DEFINE found == NewPending(spaces, deleter.at)
    <3>1. deleter' = [deleter EXCEPT !.query = "new", !.batch = found]
      BY <2>3 DEF DeleterQueryNew
    <3>. HIDE DEF found
    <3>2. deleter'.batch = found /\ deleter'.at = deleter.at
      BY <1>1, <3>1
    <3>. QED
      BY <1>1, <2>1, <3>2 DEF SameDates, found
  <2>. QED
    BY <1>6, <2>2, <2>3
<1>7. CASE DeleterDone \/ DeleterCursorFails \/ DeleterGiveUp \/ Crash
  BY <1>1, <1>4, <1>7 DEF DeleterDone, DeleterCursorFails, DeleterGiveUp, Crash, NoRun
<1>8. CASE Tick
  BY <1>1, <1>8 DEF Tick, SameDates
<1>9. CASE \E w \in Workers : \/ RequestNewStatus(w)
                              \/ RequestSpaceDelete(w)
                              \/ RequestAccountDelete(w)
                              \/ RequestAccountRevertDeletion(w)
                              \/ RequestChangeStatus(w)
                              \/ RequestMakeShareable(w)
                              \/ RequestMakeUnshareable(w)
  BY <1>4, <1>9 DEF RequestNewStatus, RequestSpaceDelete, RequestAccountDelete,
     RequestAccountRevertDeletion, RequestChangeStatus, RequestMakeShareable,
     RequestMakeUnshareable, Request
<1>10. CASE \/ RequestAclOwnerChange
            \/ \E c \in transfers : \/ DrawOwnershipId(c)
                                    \/ InsertOwnershipChange(c)
                                    \/ LoseTransfer(c)
            \/ \E p \in Procs : Abort(p) \/ LoseTx(p)
  BY <1>4, <1>10 DEF RequestAclOwnerChange, DrawOwnershipId, InsertOwnershipChange,
     LoseTransfer, Abort, LoseTx
<1>11. CASE \E c \in transfers : ChangeOwner(c)
  BY <1>1, <1>2, <1>11
<1>12. CASE \E p \in Procs : Commit(p)
  BY <1>1, <1>3, <1>12 DEF SameDates
<1>13. CASE \E s \in Spaces : DeleterProcessEntry(s)
  BY <1>4, <1>5, <1>13
<1>. QED
  BY <1>6, <1>7, <1>8, <1>9, <1>10, <1>11, <1>12, <1>13 DEF Next

\* The invariant: transactions whose documents nobody overwrote leave dates alone and
\* remove what is due, and so do the deleter and its cursor.
DateInv ==
    /\ \A p \in Procs : \A s \in WrittenBy(tx[p].writes) \ tx[p].missed :
          /\ tx[p].writes[s].status \in {spaces[s].status, "deleted"} =>
                SameDates(tx[p].writes[s], spaces[s])
          /\ tx[p].writes[s].status = "deleted" => Due(s)
    /\ \A p \in Procs : \A s \in WrittenBy(tx[p].writes) : DatesAgree(tx[p].writes[s])
    /\ \A s \in deleter.batch : Due(s)
    /\ \A s \in Spaces : spaces[s].status = "deleted" => Due(s)
    /\ \A s \in Spaces : DatesAgree(spaces[s])
    /\ deleter.at <= now
    /\ now > 0

\* Same dates, same deadline.
LEMMA DeadlineStays ==
    ASSUME NEW doc, NEW old, doc.status = old.status, SameDates(doc, old)
    PROVE  Deadline(doc) = Deadline(old) /\ (DatesAgree(old) => DatesAgree(doc))
  BY DEF SameDates, Deadline, DatesAgree, Shown

\* Until it is restored, a space that is due stays due.
LEMMA DueStays == ASSUME IInv, DateInv, Next, NEW s \in Spaces, Due(s) PROVE Due(s)'
<1>1. /\ statusRecords \subseteq statusRecords' /\ now <= now' /\ now \in Int /\ now' \in Int
      /\ spaces \in [Spaces -> Doc] /\ spaces' \in [Spaces -> Doc]
  BY DocStep, StepInv, InvSplit DEF Core, CoreTypes, RestTypes
<1>2. CASE Restored(s)
  BY <1>1, <1>2 DEF Due, Restored, RecordsOf
<1>. SUFFICES ASSUME ~Restored(s) PROVE Due(s)'
  BY <1>2
<1>3. /\ spaces[s].status \in {"pending", "deleted"}
      /\ Deadline(spaces[s]) <= now
  BY DEF Due, DeadlinePassed
<1>4. ASSUME SameDates(spaces'[s], spaces[s]), spaces'[s].status \in {"pending", "deleted"}
      PROVE  Due(s)'
  <2>1. Deadline(spaces'[s]) = Deadline(spaces[s])
    BY <1>4 DEF SameDates, Deadline
  <2>2. Deadline(spaces[s]) \in Int
    BY <1>1, LimitsAssumption DEF Deadline, Doc
  <2>. QED
    BY <1>1, <1>3, <1>4, <2>1, <2>2 DEF Due, DeadlinePassed
<1>5. CASE spaces'[s].status = spaces[s].status /\ SameDates(spaces'[s], spaces[s])
  BY <1>3, <1>4, <1>5
<1>6. ASSUME NEW p \in Procs, Commit(p), s \in WrittenBy(tx[p].writes)
      PROVE  Due(s)'
  <2>1. spaces'[s] = tx[p].writes[s] /\ s \notin tx[p].missed
    BY <1>6, CommitFacts
  <2>2. IF tx[p].log # {}
        THEN <<spaces[s].status, tx[p].writes[s].status>> \in LoggedMoves
        ELSE \/ tx[p].writes[s].status = spaces[s].status
             \/ spaces[s].status = "absent" /\ tx[p].writes[s].status = "created"
    BY <1>6, <2>1, InvSplit DEF Core, OutcomeStillHolds
  <2>3. tx[p].writes[s].status \in {spaces[s].status, "deleted"} =>
            SameDates(tx[p].writes[s], spaces[s])
    BY <1>6, <2>1 DEF DateInv
  <2>4. CASE tx[p].writes[s].status \in {spaces[s].status, "deleted"}
    BY <1>3, <1>4, <2>1, <2>3, <2>4
  <2>5. CASE tx[p].log # {} /\ tx[p].writes[s].status = "created"
    <3>1. Covers(tx[p])
      BY CoversAll, InvSplit DEF Core
    <3>2. PICK r \in tx[p].log : r.space = s
      BY <1>6, <2>5, <3>1 DEF Covers
    <3>3. r.status = "Ok"
      BY <2>5, <3>1, <3>2 DEF Covers, LogStatus
    <3>4. r \in RecordsOf(s)'
      BY <1>6, <3>2 DEF Commit, RecordsOf
    <3>. QED
      BY <3>3, <3>4 DEF Due, Restored
  <2>. QED
    BY <1>3, <2>2, <2>4, <2>5 DEF LoggedMoves
<1>. QED
  BY <1>5, <1>6, DocStep

LEMMA DateStep == ASSUME IInv, DateInv, Next PROVE DateInv'
<1>1. /\ spaces \in [Spaces -> Doc] /\ now \in Int /\ deleter.batch \subseteq Spaces
      /\ DeletionPeriod \in Int
  BY InvSplit, LimitsAssumption DEF Core, CoreTypes, RestTypes
<1>2. ASSUME NEW p \in Procs, NEW s \in WrittenBy(tx'[p].writes)
      PROVE  /\ DatesAgree(tx'[p].writes[s])
             /\ s \notin tx'[p].missed =>
                  /\ tx'[p].writes[s].status \in {spaces'[s].status, "deleted"} =>
                        SameDates(tx'[p].writes[s], spaces'[s])
                  /\ tx'[p].writes[s].status = "deleted" => Due(s)'
  <2>. s \in Spaces
    BY DEF WrittenBy
  <2>1. CASE Ends(p)
    BY <2>1, NoTxType DEF Ends
  <2>2. CASE Continues(p)
    <3>1. tx'[p].writes = tx[p].writes
      BY <2>2 DEF Continues
    <3>2. Open(p)
      BY <3>1, NoTxType, InvSplit DEF Core, IdleIsClean
    <3>3. s \notin tx'[p].missed => spaces'[s] = spaces[s] /\ s \notin tx[p].missed
      BY <2>2, <3>2 DEF Continues
    <3>4. DatesAgree(tx[p].writes[s])
      BY <3>1 DEF DateInv
    <3>5. s \notin tx[p].missed =>
              /\ tx[p].writes[s].status \in {spaces[s].status, "deleted"} =>
                    SameDates(tx[p].writes[s], spaces[s])
              /\ tx[p].writes[s].status = "deleted" => Due(s)
      BY <3>1 DEF DateInv
    <3>. QED
      BY <3>1, <3>3, <3>4, <3>5, DueStays
  <2>3. CASE Starts(p)
    <3>1. PICK op, who, out : Operation(p, op, who, out) /\ StartsWith(p, op, who, out)
      BY <2>3 DEF Starts
    <3>2. tx'[p].writes = out.writes /\ spaces' = spaces
      BY <2>3, <3>1 DEF StartsWith, Starts
    <3>3. Dated(spaces, out)
      BY <3>1, OperationDated DEF DateInv
    <3>4. DatesAgree(out.writes[s])
      BY <3>2, <3>3, DeadlineStays DEF Dated, DateInv
    <3>5. out.writes[s].status = "deleted" => Due(s)
      BY <3>2, <3>3 DEF Dated, DateInv
    <3>. QED
      BY <3>2, <3>3, <3>4, <3>5, DueStays DEF Dated
  <2>. QED
    BY <2>1, <2>2, <2>3, StepShape
<1>3. ASSUME NEW s \in deleter'.batch PROVE Due(s)'
  <2>1. CASE deleter'.batch \subseteq deleter.batch
    BY <1>1, <1>3, <2>1, DueStays DEF DateInv
  <2>2. CASE /\ UNCHANGED <<spaces, now>>
             /\ deleter'.batch \in {OldPending(spaces, now), NewPending(spaces, deleter.at)}
    <3>0. deleter.at \in Int /\ deleter.at <= now
      BY InvSplit DEF DateInv, RestTypes
    <3>1. /\ spaces[s].status = "pending" /\ s \in Spaces
          /\ \/ /\ spaces[s].toBeDeletedTimestamp = Missing
                /\ spaces[s].deletionTimestamp <= now - DeletionPeriod
             \/ /\ spaces[s].toBeDeletedTimestamp > 0
                /\ spaces[s].toBeDeletedTimestamp <= now
      BY <1>1, <1>3, <2>2, <3>0 DEF OldPending, NewPending, Doc
    <3>2. Deadline(spaces[s]) <= now
      BY <1>1, <3>1 DEF Deadline, Missing, Doc
    <3>. QED
      BY <2>2, <3>1, <3>2 DEF Due, DeadlinePassed
  <2>. QED
    BY <2>1, <2>2, DocStep
<1>4. ASSUME NEW s \in Spaces
      PROVE  (spaces'[s].status = "deleted" => Due(s)') /\ DatesAgree(spaces'[s])
  <2>1. CASE spaces'[s].status = spaces[s].status /\ SameDates(spaces'[s], spaces[s])
    BY <2>1, DueStays, DeadlineStays DEF DateInv
  <2>2. ASSUME NEW p \in Procs, Commit(p), s \in WrittenBy(tx[p].writes)
        PROVE  (spaces'[s].status = "deleted" => Due(s)') /\ DatesAgree(spaces'[s])
    <3>1. spaces'[s] = tx[p].writes[s] /\ s \notin tx[p].missed
      BY <2>2, CommitFacts
    <3>2. /\ DatesAgree(tx[p].writes[s])
          /\ tx[p].writes[s].status = "deleted" => Due(s)
      BY <2>2, <3>1 DEF DateInv
    <3>. QED
      BY <3>1, <3>2, DueStays
  <2>. QED
    BY <2>1, <2>2, DocStep
<1>5. now' > 0
  <2>1. now > 0 /\ now <= now' /\ now' \in Int
    BY DocStep, StepInv, InvSplit DEF DateInv, Core, CoreTypes, RestTypes
  <2>. QED
    BY <1>1, <2>1
<1>6. deleter'.at <= now'
  <2>1. /\ deleter'.at \in {deleter.at, now, 0} /\ deleter.at \in Int /\ deleter.at <= now
        /\ now <= now' /\ now' \in Int /\ now > 0
    BY DocStep, StepInv, InvSplit DEF DateInv, RestTypes
  <2>. QED
    BY <1>1, <2>1
<1>. QED
  BY <1>2, <1>3, <1>4, <1>5, <1>6 DEF DateInv

LEMMA DateStutter == ASSUME DateInv, UNCHANGED vars PROVE DateInv'
  BY DEF vars, DateInv, Due, Restored, RecordsOf, DeadlinePassed

LEMMA DateInit == Init => DateInv
<1>. SUFFICES ASSUME Init PROVE DateInv
  OBVIOUS
<1>1. /\ \A p \in Procs : WrittenBy(tx[p].writes) = {}
      /\ deleter.batch = {} /\ deleter.at = 0
  BY NoTxType DEF Init, Quiet, NoRun
<1>2. ASSUME NEW s \in Spaces
      PROVE  /\ spaces[s].status # "deleted"
             /\ spaces[s].toBeDeletedTimestamp = Missing
             /\ spaces[s].deletionTimestamp \in Int
             /\ spaces[s].status = "pending" => spaces[s].deletionTimestamp > 0
  <2>1. CASE spaces[s] = NoDoc
    BY <2>1 DEF NoDoc
  <2>2. CASE spaces[s] \in LegacyDocs(s)
    <3>1. PICK i \in Signers[s] :
            \/ spaces[s] = [NoDoc EXCEPT !.identity = i, !.status = "created"]
            \/ spaces[s] = [NoDoc EXCEPT !.identity = i, !.status = "pending",
                                         !.deletionTimestamp = 1]
      BY <2>2 DEF LegacyDocs
    <3>2. CASE spaces[s] = [NoDoc EXCEPT !.identity = i, !.status = "created"]
      BY <3>2 DEF NoDoc
    <3>3. CASE spaces[s] = [NoDoc EXCEPT !.identity = i, !.status = "pending",
                                         !.deletionTimestamp = 1]
      BY <3>3 DEF NoDoc
    <3>. QED
      BY <3>1, <3>2, <3>3
  <2>. QED
    BY <2>1, <2>2 DEF Init
<1>3. ASSUME NEW s \in Spaces
      PROVE  spaces[s].status # "deleted" /\ DatesAgree(spaces[s])
  BY <1>2, LimitsAssumption DEF DatesAgree, Deadline, Shown
<1>4. now = 1
  BY DEF Init, Quiet
<1>. QED
  BY <1>1, <1>3, <1>4 DEF DateInv

LEMMA DateAlways == Spec => []DateInv
<1>1. IInv /\ DateInv /\ [Next]_vars => DateInv'
  BY DateStep, DateStutter
<1>. QED
  BY <1>1, DateInit, InductiveInvariant, PTL DEF Spec

\* For any handlers, spaces and periods: what is removed before its deadline had been
\* restored, so that the deleter's cursor may have read it before.
THEOREM EarlyWasRestored == Spec => []NeverRestoredNeverEarly
<1>1. DateInv => NeverRestoredNeverEarly
  BY DEF DateInv, NeverRestoredNeverEarly, Due, Restored
<1>. QED
  BY <1>1, DateAlways, PTL

\* For any periods: the date a client is shown and the date the deleter goes by are
\* dates of the same deletion.
THEOREM DatesAreOfLastDeletion == Spec => []ShownIsOfLastDeletion
<1>1. DateInv => ShownIsOfLastDeletion
  BY DEF DateInv, ShownIsOfLastDeletion, DatesAgree
<1>. QED
  BY <1>1, DateAlways, PTL

\* For any handlers, spaces and periods: the deadline of a pending deletion, and the date
\* shown of it, do not change while it is pending.
THEOREM DeadlineHolds == Spec => DeadlineIsFixed
<1>1. ASSUME IInv, DateInv, Next, NEW s \in Spaces,
             spaces[s].status = "pending", spaces'[s].status = "pending"
      PROVE  SameDates(spaces'[s], spaces[s])
  <2>1. ASSUME NEW p \in Procs, Commit(p), s \in WrittenBy(tx[p].writes)
        PROVE  SameDates(spaces'[s], spaces[s])
    <3>1. spaces'[s] = tx[p].writes[s] /\ s \notin tx[p].missed
      BY <1>1, <2>1, CommitFacts
    <3>2. tx[p].writes[s].status \in {spaces[s].status, "deleted"}
      BY <1>1, <3>1
    <3>3. \A x \in WrittenBy(tx[p].writes) \ tx[p].missed :
              tx[p].writes[x].status \in {spaces[x].status, "deleted"} =>
                  SameDates(tx[p].writes[x], spaces[x])
      BY <1>1, <2>1 DEF DateInv
    <3>. QED
      BY <2>1, <3>1, <3>2, <3>3
  <2>. QED
    BY <1>1, <2>1, DocStep
<1>2. ASSUME IInv, DateInv, Next, NEW s \in Spaces,
             spaces[s].status = "pending", spaces'[s].status = "pending"
      PROVE  Deadline(spaces'[s]) = Deadline(spaces[s]) /\ Shown(spaces'[s]) = Shown(spaces[s])
  BY <1>1, <1>2 DEF SameDates, Deadline, Shown
<1>3. IInv /\ DateInv /\ [Next]_vars =>
          [\A s \in Spaces : spaces[s].status = "pending" /\ spaces'[s].status = "pending" =>
              /\ Deadline(spaces'[s]) = Deadline(spaces[s])
              /\ Shown(spaces'[s]) = Shown(spaces[s])]_vars
  BY <1>2
<1>. QED
  BY <1>3, DateAlways, InductiveInvariant, PTL DEF Spec, DeadlineIsFixed

\* For any handlers, spaces and periods: each pending space whose deadline has passed
\* when the deleter reads the clock satisfies one of the deleter's two queries, unless
\* its deadline is zero or less.
\* With DeadlineHolds, what PendingIsResolved rests on besides fairness.
THEOREM DueIsFound ==
    Spec => [](\A s \in Spaces :
                  spaces[s].status = "pending" /\ Deadline(spaces[s]) > 0 /\ DeadlinePassed(s) =>
                      s \in OldPending(spaces, now) \cup NewPending(spaces, now))
<1>1. ASSUME IInv, DateInv, NEW s \in Spaces,
             spaces[s].status = "pending", Deadline(spaces[s]) > 0, DeadlinePassed(s)
      PROVE  s \in OldPending(spaces, now) \cup NewPending(spaces, now)
  <2>1. spaces[s] \in Doc /\ now \in Int /\ DeletionPeriod \in Int
    BY <1>1, InvSplit, LimitsAssumption DEF Core, CoreTypes, RestTypes
  <2>2. CASE spaces[s].toBeDeletedTimestamp = Missing
    <3>1. spaces[s].deletionTimestamp > 0
      BY <1>1 DEF DateInv, DatesAgree
    <3>2. spaces[s].deletionTimestamp <= now - DeletionPeriod
      BY <1>1, <2>1, <2>2 DEF DeadlinePassed, Deadline, Doc
    <3>. QED
      BY <1>1, <2>2, <3>1, <3>2 DEF OldPending
  <2>3. CASE spaces[s].toBeDeletedTimestamp # Missing
    BY <1>1, <2>3 DEF DeadlinePassed, Deadline, NewPending
  <2>. QED
    BY <2>2, <2>3
<1>2. IInv /\ DateInv =>
          \A s \in Spaces :
              spaces[s].status = "pending" /\ Deadline(spaces[s]) > 0 /\ DeadlinePassed(s) =>
                  s \in OldPending(spaces, now) \cup NewPending(spaces, now)
  BY <1>1
<1>. QED
  BY <1>2, DateAlways, InductiveInvariant, PTL

=============================================================================
