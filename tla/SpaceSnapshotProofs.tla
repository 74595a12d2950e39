------------------------- MODULE SpaceSnapshotProofs -------------------------
(****************************************************************************)
(* Theorems about the checks that requests of SpaceStatus make in their     *)
(* snapshots: a check that fails to stop a request was overtaken by the     *)
(* commit of another one.  For every set of spaces, accounts and handlers.  *)
(****************************************************************************)
EXTENDS SpaceStatusProofs, FiniteSetTheorems

\* The outcomes a process may start a transaction with.
Operation(p, op, who, out) ==
    \/ /\ p \in Workers
       /\ \E s \in Spaces :
            \/ op = "NewStatus" /\ \E force \in BOOLEAN : out = NewStatus(spaces, s, who, force)
            \/ op = "SpaceDelete" /\ \E period \in Periods :
                                        out = SpaceDelete(spaces, s, who, now, period)
            \/ op = "ChangeStatus" /\ out \in {ChangeStatusRestore(spaces, s, who),
                                               ChangeStatusDelete(spaces, s, who, now)}
            \/ op = "MakeShareable" /\ \E limit \in Nat : out = MakeShareable(spaces, s, limit)
            \/ op = "MakeUnshareable" /\ out = MakeUnshareable(spaces, s)
    \/ /\ p \in Workers
       /\ \/ op = "AccountDelete" /\ out = AccountDelete(spaces, who, now)
          \/ op = "AccountRevertDeletion" /\ out = AccountRevertDeletion(spaces, who)
    \/ /\ p = Deleter
       /\ op = "DeleteEntry"
       /\ \E s \in deleter.batch : out = DeleteEntry(spaces, s)

\* What a step does to the transaction of a process.
Ends(p) == tx'[p] = NoTx

Continues(p) ==
    /\ tx'[p].op = tx[p].op
    /\ tx'[p].who = tx[p].who
    /\ tx'[p].writes = tx[p].writes
    /\ tx'[p].log = tx[p].log
    /\ tx'[p].err = tx[p].err
    /\ tx[p].missed \subseteq tx'[p].missed
    /\ Open(p) => \A s \in Spaces \ tx'[p].missed : spaces'[s] = spaces[s]

StartsWith(p, op, who, out) ==
    /\ tx'[p].op = op
    /\ tx'[p].who = who
    /\ tx'[p].writes = out.writes
    /\ tx'[p].err = out.err
    /\ tx'[p].log = {Stamped(e, nextId) : e \in out.log}
    /\ tx'[p].missed = {}

Starts(p) ==
    /\ UNCHANGED <<spaces, statusRecords, now>>
    /\ \E op, who, out : Operation(p, op, who, out) /\ StartsWith(p, op, who, out)

LEMMA BeginShape ==
    ASSUME IInv, UNCHANGED <<spaces, statusRecords, now>>,
           NEW p \in Procs, NEW op, NEW who, NEW target, NEW out,
           Begin(p, op, who, target, out), Operation(p, op, who, out)
    PROVE  \A q \in Procs : Continues(q) \/ Starts(q)
<1> DEFINE t == [op |-> op, who |-> who, target |-> target, err |-> out.err, id |-> nextId,
                 writes |-> out.writes, log |-> {Stamped(e, nextId) : e \in out.log},
                 missed |-> {}]
<1>1. tx' = [tx EXCEPT ![p] = t] /\ tx \in [Procs -> Tx]
  BY InvSplit DEF Begin, Core, CoreTypes
<1>2. tx'[p] = t
  BY <1>1
<1>3. StartsWith(p, op, who, out)
  BY <1>2 DEF StartsWith
<1>4. \A q \in Procs \ {p} : Continues(q)
  BY <1>1 DEF Continues
<1>. QED
  BY <1>3, <1>4 DEF Starts

\* Each step ends, continues or starts the transaction of each process.
LEMMA StepShape == ASSUME IInv, Next PROVE \A p \in Procs : Ends(p) \/ Continues(p) \/ Starts(p)
<1>1. /\ spaces \in [Spaces -> Doc] /\ tx \in [Procs -> Tx]
      /\ deleter.batch \subseteq Spaces /\ Core
  BY InvSplit DEF Core, CoreTypes, RestTypes
<1>2. ASSUME UNCHANGED spaces,
             \/ tx' = tx
             \/ \E p \in Procs : tx' = [tx EXCEPT ![p] = NoTx]
             \/ tx' = [p \in Procs |-> NoTx]
      PROVE  \A p \in Procs : Ends(p) \/ Continues(p)
  <2>1. \A p \in Procs : tx'[p] \in {tx[p], NoTx}
    BY <1>1, <1>2
  <2>. QED
    BY <1>2, <2>1 DEF Ends, Continues
<1>3. ASSUME NEW w \in Workers, RequestNewStatus(w) \/ RequestSpaceDelete(w)
      PROVE  \A p \in Procs : Continues(p) \/ Starts(p)
  <2>1. w \in Procs
    BY DEF Procs
  <2>2. CASE RequestNewStatus(w)
    <3>1. PICK s \in Spaces, force \in BOOLEAN :
              \E who \in Signers[s] :
                  Request(w, "NewStatus", who, {s}, NewStatus(spaces, s, who, force))
      BY <2>2 DEF RequestNewStatus
    <3>2. PICK who : Request(w, "NewStatus", who, {s}, NewStatus(spaces, s, who, force))
      BY <3>1
    <3>3. Operation(w, "NewStatus", who, NewStatus(spaces, s, who, force))
      BY DEF Operation
    <3>. QED
      BY <2>1, <3>2, <3>3, BeginShape DEF Request
  <2>3. CASE RequestSpaceDelete(w)
    <3>1. PICK s \in Spaces, who \in Identities, period \in Periods :
              Request(w, "SpaceDelete", who, {s}, SpaceDelete(spaces, s, who, now, period))
      BY <2>3 DEF RequestSpaceDelete
    <3>2. Operation(w, "SpaceDelete", who, SpaceDelete(spaces, s, who, now, period))
      BY DEF Operation
    <3>. QED
      BY <2>1, <3>1, <3>2, BeginShape DEF Request
  <2>. QED
    BY <1>3, <2>2, <2>3
<1>4. ASSUME NEW w \in Workers, RequestAccountDelete(w) \/ RequestAccountRevertDeletion(w)
      PROVE  \A p \in Procs : Continues(p) \/ Starts(p)
  <2>1. w \in Procs
    BY DEF Procs
  <2>2. \A who : /\ Operation(w, "AccountDelete", who, AccountDelete(spaces, who, now))
                 /\ Operation(w, "AccountRevertDeletion", who, AccountRevertDeletion(spaces, who))
    BY DEF Operation
  <2>. QED
    BY <1>4, <2>1, <2>2, BeginShape
       DEF RequestAccountDelete, RequestAccountRevertDeletion, Request
<1>5. ASSUME NEW w \in Workers, RequestChangeStatus(w)
      PROVE  \A p \in Procs : Continues(p) \/ Starts(p)
  <2>1. w \in Procs
    BY DEF Procs
  <2>2. \A s \in Spaces : \A who :
            /\ Operation(w, "ChangeStatus", who, ChangeStatusRestore(spaces, s, who))
            /\ Operation(w, "ChangeStatus", who, ChangeStatusDelete(spaces, s, who, now))
    BY DEF Operation
  <2>. QED
    BY <1>5, <2>1, <2>2, BeginShape DEF RequestChangeStatus, Request
<1>6. ASSUME NEW w \in Workers, RequestMakeShareable(w) \/ RequestMakeUnshareable(w)
      PROVE  \A p \in Procs : Continues(p) \/ Starts(p)
  <2>1. w \in Procs
    BY DEF Procs
  <2>2. \A s \in Spaces :
            /\ \A limit \in Nat :
                  Operation(w, "MakeShareable", Nobody, MakeShareable(spaces, s, limit))
            /\ Operation(w, "MakeUnshareable", Nobody, MakeUnshareable(spaces, s))
    BY DEF Operation
  <2>3. \A type : ShareLimits(type) \subseteq Nat
    BY LimitsAssumption DEF ShareLimits
  <2>4. CASE RequestMakeShareable(w)
    <3>1. PICK s \in Spaces, limit \in Nat :
              Request(w, "MakeShareable", Nobody, {s}, MakeShareable(spaces, s, limit))
      BY <2>3, <2>4 DEF RequestMakeShareable
    <3>. QED
      BY <2>1, <2>2, <3>1, BeginShape DEF Request
  <2>5. CASE RequestMakeUnshareable(w)
    BY <2>1, <2>2, <2>5, BeginShape DEF RequestMakeUnshareable, Request
  <2>. QED
    BY <1>6, <2>4, <2>5
<1>7. ASSUME NEW s \in Spaces, DeleterProcessEntry(s)
      PROVE  \A p \in Procs : Continues(p) \/ Starts(p)
  <2>1. Deleter \in Procs
    BY DEF Procs
  <2>2. Operation(Deleter, "DeleteEntry", Nobody, DeleteEntry(spaces, s))
    BY <1>7 DEF Operation, DeleterProcessEntry
  <2>. QED
    BY <1>7, <2>1, <2>2, BeginShape DEF DeleterProcessEntry
<1>8. ASSUME NEW W \in SUBSET Spaces, \A s \in Spaces \ W : spaces'[s] = spaces[s],
             NEW q \in Procs, tx'[q] = Overwrite(W)[q]
      PROVE  Continues(q)
  <2>1. CASE Open(q)
    <3>1. tx'[q] = [tx[q] EXCEPT !.missed = @ \cup W]
      BY <1>8, <2>1 DEF Overwrite
    <3>. QED
      BY <1>1, <1>8, <3>1 DEF Continues, Tx
  <2>2. CASE ~Open(q)
    BY <1>8, <2>2 DEF Overwrite, Continues
  <2>. QED
    BY <2>1, <2>2
<1>9. ASSUME NEW p \in Procs, Commit(p)
      PROVE  \A q \in Procs : Ends(q) \/ Continues(q)
  <2> DEFINE W == WrittenBy(tx[p].writes)
  <2>1. W \in SUBSET Spaces /\ \A s \in Spaces \ W : spaces'[s] = spaces[s]
    BY <1>1, <1>9 DEF Commit, WrittenBy, Overlay, Has
  <2>2. Overwrite(W) \in [Procs -> Tx]
    BY <1>1, <2>1, OverwriteFacts
  <2>3. tx'[p] = NoTx /\ \A q \in Procs \ {p} : tx'[q] = Overwrite(W)[q]
    BY <1>9, <2>2 DEF Commit
  <2>. HIDE DEF W
  <2>. QED
    BY <1>8, <2>1, <2>3 DEF Ends
<1>10. ASSUME NEW c \in transfers, ChangeOwner(c)
       PROVE  \A q \in Procs : Continues(q)
  <2> DEFINE s == c.space
             who == c.owner
             W == IF spaces[s].identity = who THEN {} ELSE {s}
  <2>0. s \in Spaces
    BY InvSplit DEF RestTypes, Transfer
  <2>1. tx' = Overwrite(W) /\ W \in SUBSET Spaces
    BY <1>10, <2>0 DEF ChangeOwner
  <2>2. ASSUME NEW x \in Spaces \ W PROVE spaces'[x] = spaces[x]
    <3>1. CASE x # s
      BY <1>1, <1>10, <3>1 DEF ChangeOwner
    <3>2. CASE x = s
      <4>1. spaces[s].identity = who
        BY <2>2, <3>2
      <4>2. spaces'[s] = [spaces[s] EXCEPT !.identity = who]
        BY <1>1, <1>10, <2>0 DEF ChangeOwner
      <4>. QED
        BY <1>1, <2>0, <3>2, <4>1, <4>2 DEF Doc
    <3>. QED
      BY <3>1, <3>2
  <2>. HIDE DEF W
  <2>. QED
    BY <1>8, <2>1, <2>2
<1>11. CASE RequestAclOwnerChange
  BY <1>2, <1>11 DEF RequestAclOwnerChange
<1>12. ASSUME NEW c \in transfers,
              DrawOwnershipId(c) \/ InsertOwnershipChange(c) \/ LoseTransfer(c)
       PROVE  \A p \in Procs : Ends(p) \/ Continues(p)
  BY <1>2, <1>12 DEF DrawOwnershipId, InsertOwnershipChange, LoseTransfer
<1>13. ASSUME NEW p \in Procs, Abort(p) \/ LoseTx(p)
       PROVE  \A q \in Procs : Ends(q) \/ Continues(q)
  BY <1>2, <1>13 DEF Abort, LoseTx
<1>14. CASE DeleterQueryOld \/ DeleterQueryNew \/ DeleterDone \/ DeleterCursorFails \/ Tick
  BY <1>2, <1>14 DEF DeleterQueryOld, DeleterQueryNew, DeleterDone, DeleterCursorFails, Tick
<1>15. CASE DeleterGiveUp \/ Crash
  <2>1. Deleter \in Procs
    BY DEF Procs
  <2>. QED
    BY <1>2, <1>15, <2>1 DEF DeleterGiveUp, Crash
<1>. QED
  BY <1>3, <1>4, <1>5, <1>6, <1>7, <1>9, <1>10, <1>11, <1>12, <1>13, <1>14, <1>15 DEF Next

----------------------------------------------------------------------------
(* The checks.                                                              *)

\* An outcome within the limit, or none.
LEMMA LimitedFresh ==
    ASSUME NEW db, NEW who, NEW out, NEW s \in Spaces,
           Limited(db, who, out).writes[s].status # "absent"
    PROVE  WithinLimit(Overlay(db, Limited(db, who, out).writes), who)
<1>1. Fail("ErrSpaceLimitReached").writes[s].status = "absent"
  BY DEF Fail, NoWrites, NoDoc
<1>. QED
  BY <1>1 DEF Limited

LEMMA NothingWritten ==
    ASSUME NEW s \in Spaces, NEW err
    PROVE  Fail(err).writes[s].status = "absent" /\ Nothing.writes[s].status = "absent"
  BY DEF Fail, Nothing, NoWrites, NoDoc

LEMMA NewStatusFresh ==
    ASSUME NEW db, NEW who, NEW force, NEW s \in Spaces, NEW x \in Spaces,
           NewStatus(db, s, who, force).writes[x].status # "absent"
    PROVE  /\ AccountSpaces(db, who, "pending") = {}
           /\ WithinLimit(Overlay(db, NewStatus(db, s, who, force).writes), who)
<1>1. AccountSpaces(db, who, "pending") = {} /\ db[s].status # "created"
  BY NothingWritten DEF NewStatus
<1>2. CASE ~Has(db, s)
  BY <1>1, <1>2, LimitedFresh DEF NewStatus
<1>3. CASE Has(db, s)
  <2>1. force /\ NewStatus(db, s, who, force) = Revived(db, s, who)
    BY <1>1, <1>3, NothingWritten DEF NewStatus
  <2> DEFINE forced == [SetStatusTx(db, s, who, ToCreated, db[s].status) EXCEPT !.err = "ok"]
  <2>2. NewStatus(db, s, who, force) = Limited(db, who, forced)
    BY <2>1 DEF Revived
  <2>. HIDE DEF forced
  <2>3. WithinLimit(Overlay(db, Limited(db, who, forced).writes), who)
    BY <2>2, LimitedFresh
  <2>. QED
    BY <1>1, <2>2, <2>3
<1>. QED
  BY <1>1, <1>2, <1>3

LEMMA ChangeStatusFresh ==
    ASSUME NEW db \in [Spaces -> Doc], NEW who, NEW s \in Spaces, NEW x \in Spaces, NEW at \in Int,
           NEW out \in {ChangeStatusRestore(db, s, who), ChangeStatusDelete(db, s, who, at)},
           out.writes[x].status = "created"
    PROVE  WithinLimit(Overlay(db, out.writes), who)
<1>1. CASE out = ChangeStatusRestore(db, s, who)
  <2> DEFINE restored == SetStatusTx(db, s, who, ToCreated, "pending")
  <2>1. CASE restored.err = "ok"
    BY <1>1, <2>1, LimitedFresh DEF ChangeStatusRestore
  <2>2. CASE restored.err # "ok"
    <3>1. out = Fail(IncorrectStatus(db[s]))
      BY <1>1, <2>2 DEF ChangeStatusRestore, SetStatusTx, SetStatusAll
    <3>. QED
      BY <3>1, NothingWritten
  <2>. QED
    BY <2>1, <2>2
<1>2. CASE out = ChangeStatusDelete(db, s, who, at)
  <2> DEFINE change == ToPending(at, DeletionPeriod)
  <2>1. change \in Change /\ change.status = "pending"
    BY ChangeTypes, LimitsAssumption
  <2>. HIDE DEF change
  <2>2. \/ out = Fail(IncorrectStatus(db[s]))
        \/ out = SetStatusAll(db, {s}, change)
    BY <1>2 DEF ChangeStatusDelete, SetStatusTx, change
  <2>3. SetStatusAll(db, {s}, change).writes[x].status \in {"pending", "absent"}
    BY <2>1, ModifiedType DEF SetStatusAll, NoDoc
  <2>. QED
    BY <2>2, <2>3, NothingWritten
<1>. QED
  BY <1>1, <1>2

Fresh == AccountCheckIsFresh /\ LimitCheckIsFresh

LEMMA FreshStep ==
    ASSUME IsFiniteSet(Spaces), IInv, Fresh, Next
    PROVE  Fresh'
<1>1. spaces \in [Spaces -> Doc] /\ now \in Int /\ spaces' \in [Spaces -> Doc]
  BY StepInv, InvSplit DEF Core, CoreTypes, RestTypes
<1>. SUFFICES ASSUME NEW w \in Workers
     PROVE  /\ tx'[w].op = "NewStatus" /\ WrittenBy(tx'[w].writes) # {} =>
                  AccountSpaces(spaces', tx'[w].who, "pending") \subseteq tx'[w].missed
            /\ /\ tx'[w].op \in {"NewStatus", "ChangeStatus"}
               /\ \E s \in Spaces : tx'[w].writes[s].status = "created"
               /\ tx'[w].missed = {}
               => WithinLimit(Overlay(spaces', tx'[w].writes), tx'[w].who)
  BY DEF Fresh, AccountCheckIsFresh, LimitCheckIsFresh
<1>2. w \in Procs /\ w # Deleter
  BY ProcsAssumption DEF Procs
<1>3. CASE Ends(w)
  BY <1>3 DEF Ends, NoTx
<1>4. CASE Continues(w)
  <2>1. CASE Open(w)
    <3>1. AccountSpaces(spaces', tx[w].who, "pending")
              \subseteq AccountSpaces(spaces, tx[w].who, "pending") \cup tx'[w].missed
      BY <1>4, <2>1 DEF Continues, AccountSpaces, Owned
    <3>2. tx'[w].missed = {} => spaces' = spaces /\ tx[w].missed = {}
      <4>1. tx'[w].missed = {} => \A s \in Spaces : spaces'[s] = spaces[s]
        BY <1>4, <2>1 DEF Continues
      <4>2. tx'[w].missed = {} => tx[w].missed = {}
        BY <1>4 DEF Continues
      <4>. QED
        BY <1>1, <4>1, <4>2
    <3>3. /\ tx'[w].op = tx[w].op /\ tx'[w].who = tx[w].who /\ tx'[w].writes = tx[w].writes
          /\ tx[w].missed \subseteq tx'[w].missed
      BY <1>4 DEF Continues
    <3>. QED
      BY <3>1, <3>2, <3>3 DEF Fresh, AccountCheckIsFresh, LimitCheckIsFresh
  <2>2. CASE ~Open(w)
    BY <1>4, <2>2 DEF Continues, Open
  <2>. QED
    BY <2>1, <2>2
<1>5. CASE Starts(w)
  <2>1. PICK op, who, out : Operation(w, op, who, out) /\ StartsWith(w, op, who, out)
    BY <1>5 DEF Starts
  <2>2. /\ tx'[w].op = op /\ tx'[w].who = who /\ tx'[w].writes = out.writes
        /\ tx'[w].missed = {} /\ spaces' = spaces
    BY <1>5, <2>1 DEF StartsWith, Starts
  <2>3. CASE op = "NewStatus"
    <3>1. PICK s \in Spaces, force \in BOOLEAN : out = NewStatus(spaces, s, who, force)
      BY <1>2, <2>1, <2>3 DEF Operation
    <3>2. \A x \in Spaces : out.writes[x].status # "absent" =>
              /\ AccountSpaces(spaces, who, "pending") = {}
              /\ WithinLimit(Overlay(spaces, out.writes), who)
      BY <3>1, NewStatusFresh
    <3>. QED
      BY <2>2, <2>3, <3>2 DEF WrittenBy, Has
  <2>4. CASE op = "ChangeStatus"
    <3>1. PICK s \in Spaces : out \in {ChangeStatusRestore(spaces, s, who),
                                       ChangeStatusDelete(spaces, s, who, now)}
      BY <1>2, <2>1, <2>4 DEF Operation
    <3>2. \A x \in Spaces : out.writes[x].status = "created" =>
              WithinLimit(Overlay(spaces, out.writes), who)
      BY <1>1, <3>1, ChangeStatusFresh
    <3>. QED
      BY <2>2, <2>4, <3>2
  <2>. QED
    BY <2>2, <2>3, <2>4
<1>. QED
  BY <1>2, <1>3, <1>4, <1>5, StepShape

LEMMA FreshStutter == ASSUME Fresh, UNCHANGED vars PROVE Fresh'
  BY DEF vars, Fresh, AccountCheckIsFresh, LimitCheckIsFresh

LEMMA FreshInit == Init => Fresh
<1>. SUFFICES ASSUME Init PROVE Fresh
  OBVIOUS
<1>1. \A w \in Workers : tx[w] = NoTx
  BY DEF Init, Quiet, Procs
<1>. QED
  BY <1>1 DEF Fresh, AccountCheckIsFresh, LimitCheckIsFresh, NoTx

\* Both checks together.
LEMMA FreshAlways == ASSUME IsFiniteSet(Spaces) PROVE Spec => []Fresh
<1>1. IInv /\ Fresh /\ [Next]_vars => Fresh'
  BY FreshStep, FreshStutter
<1>. QED
  BY <1>1, FreshInit, InductiveInvariant, PTL DEF Spec

\* For any spaces, handlers and periods: a SpaceSign that is about to give a pending
\* account a created space read the account before it became pending.
THEOREM AccountCheckHolds == ASSUME IsFiniteSet(Spaces) PROVE Spec => []AccountCheckIsFresh
<1>1. Fresh => AccountCheckIsFresh
  BY DEF Fresh
<1>. QED
  BY <1>1, FreshAlways, PTL

\* For any limit: only a NewStatus or ChangeStatus that another commit overlapped takes
\* an account over its space limit.
THEOREM LimitCheckHolds == ASSUME IsFiniteSet(Spaces) PROVE Spec => []LimitCheckIsFresh
<1>1. Fresh => LimitCheckIsFresh
  BY DEF Fresh
<1>. QED
  BY <1>1, FreshAlways, PTL

----------------------------------------------------------------------------
(* The account moves as a whole.                                            *)

\* A document that a successful AccountDelete has not deleted, and that would leave its
\* account a created space, was written after the snapshot; and so for the reversal.
WholeInSnapshot ==
    \A w \in Workers : \A s \in Spaces \ tx[w].missed :
        tx[w].err = "ok" /\ spaces[s].identity = tx[w].who =>
            /\ tx[w].op = "AccountDelete" /\ spaces[s].status = "created" =>
                  tx[w].writes[s].status = "pending"
            /\ tx[w].op = "AccountRevertDeletion" /\ spaces[s].status = "pending" =>
                  tx[w].writes[s].status = "created"

\* An AccountDelete writes nothing but deletions, its reversal nothing but restorations.
AccountWrites ==
    \A w \in Workers : \A s \in Spaces :
        /\ tx[w].op = "AccountDelete" => tx[w].writes[s].status # "created"
        /\ tx[w].op = "AccountRevertDeletion" => tx[w].writes[s].status # "pending"

Whole == WholeInSnapshot /\ AccountWrites

LEMMA ModifiedStatus ==
    ASSUME NEW db \in [Spaces -> Doc], NEW S, NEW change \in Change, NEW s \in Spaces, s \in S
    PROVE  SetStatusAll(db, S, change).writes[s].status = change.status
<1>1. SetStatusAll(db, S, change).writes[s] = Modified(db[s], change)
  BY DEF SetStatusAll
<1>. QED
  BY <1>1, ModifiedType

LEMMA AccountDeleteWhole ==
    ASSUME NEW db \in [Spaces -> Doc], NEW who, NEW at \in Int, NEW s \in Spaces,
           AccountDelete(db, who, at).err = "ok",
           db[s].identity = who, db[s].status = "created"
    PROVE  AccountDelete(db, who, at).writes[s].status = "pending"
<1> DEFINE change == ToPending(at, DeletionPeriod)
           all == SetStatusAll(db, Owned(db, who, "created"), change)
<1>1. AccountDelete(db, who, at) = all
  BY DEF AccountDelete, Fail
<1>2. change \in Change /\ change.status = "pending"
  BY ChangeTypes, LimitsAssumption
<1>3. s \in Owned(db, who, "created")
  BY DEF Owned
<1>. HIDE DEF change
<1>. QED
  BY <1>1, <1>2, <1>3, ModifiedStatus

LEMMA AccountRevertWhole ==
    ASSUME NEW db \in [Spaces -> Doc], NEW who, NEW s \in Spaces,
           AccountRevertDeletion(db, who).err = "ok",
           db[s].identity = who, db[s].status = "pending"
    PROVE  AccountRevertDeletion(db, who).writes[s].status = "created"
<1>1. AccountRevertDeletion(db, who) = SetStatusAll(db, Owned(db, who, "pending"), ToCreated)
  BY DEF AccountRevertDeletion, Fail
<1>2. ToCreated \in Change /\ ToCreated.status = "created"
  BY ChangeTypes
<1>3. s \in Owned(db, who, "pending")
  BY DEF Owned
<1>. QED
  BY <1>1, <1>2, <1>3, ModifiedStatus

LEMMA AccountDeletes ==
    ASSUME NEW db \in [Spaces -> Doc], NEW who, NEW at \in Int, NEW s \in Spaces
    PROVE  AccountDelete(db, who, at).writes[s].status # "created"
<1> DEFINE change == ToPending(at, DeletionPeriod)
           S == Owned(db, who, "created")
<1>1. change \in Change /\ change.status = "pending"
  BY ChangeTypes, LimitsAssumption
<1>2. \/ AccountDelete(db, who, at) = SetStatusAll(db, S, change)
      \/ AccountDelete(db, who, at) = Fail("ErrAccountIsDeleted")
  BY DEF AccountDelete
<1>. HIDE DEF change, S
<1>3. SetStatusAll(db, S, change).writes[s].status # "created"
  <2>1. CASE s \in S
    BY <1>1, <2>1, ModifiedStatus
  <2>2. CASE s \notin S
    BY <2>2 DEF SetStatusAll, NoDoc
  <2>. QED
    BY <2>1, <2>2
<1>. QED
  BY <1>2, <1>3, NothingWritten

LEMMA AccountReverts ==
    ASSUME NEW db \in [Spaces -> Doc], NEW who, NEW s \in Spaces
    PROVE  AccountRevertDeletion(db, who).writes[s].status # "pending"
<1> DEFINE S == Owned(db, who, "pending")
<1>1. ToCreated \in Change /\ ToCreated.status = "created"
  BY ChangeTypes
<1>2. \/ AccountRevertDeletion(db, who) = SetStatusAll(db, S, ToCreated)
      \/ AccountRevertDeletion(db, who) = Fail("ErrUnexpected")
  BY DEF AccountRevertDeletion
<1>. HIDE DEF S
<1>3. SetStatusAll(db, S, ToCreated).writes[s].status # "pending"
  <2>1. CASE s \in S
    BY <1>1, <2>1, ModifiedStatus
  <2>2. CASE s \notin S
    BY <2>2 DEF SetStatusAll, NoDoc
  <2>. QED
    BY <2>1, <2>2
<1>. QED
  BY <1>2, <1>3, NothingWritten

LEMMA AccountWritesStep == ASSUME IInv, AccountWrites, Next PROVE AccountWrites'
<1>1. spaces \in [Spaces -> Doc] /\ now \in Int
  BY InvSplit DEF Core, CoreTypes, RestTypes
<1>. SUFFICES ASSUME NEW w \in Workers, NEW s \in Spaces
     PROVE  /\ tx'[w].op = "AccountDelete" => tx'[w].writes[s].status # "created"
            /\ tx'[w].op = "AccountRevertDeletion" => tx'[w].writes[s].status # "pending"
  BY DEF AccountWrites
<1>2. w \in Procs /\ w # Deleter
  BY ProcsAssumption DEF Procs
<1>3. CASE Ends(w)
  BY <1>3 DEF Ends, NoTx
<1>4. CASE Continues(w)
  BY <1>4 DEF Continues, AccountWrites
<1>5. CASE Starts(w)
  <2>1. PICK op, who, out : Operation(w, op, who, out) /\ StartsWith(w, op, who, out)
    BY <1>5 DEF Starts
  <2>2. tx'[w].op = op /\ tx'[w].writes = out.writes
    BY <2>1 DEF StartsWith
  <2>3. /\ op = "AccountDelete" => out = AccountDelete(spaces, who, now)
        /\ op = "AccountRevertDeletion" => out = AccountRevertDeletion(spaces, who)
    BY <1>2, <2>1 DEF Operation
  <2>. QED
    BY <1>1, <2>2, <2>3, AccountDeletes, AccountReverts
<1>. QED
  BY <1>2, <1>3, <1>4, <1>5, StepShape

LEMMA WholeStep == ASSUME IInv, WholeInSnapshot, Next PROVE WholeInSnapshot'
<1>1. spaces \in [Spaces -> Doc] /\ now \in Int
  BY InvSplit DEF Core, CoreTypes, RestTypes
<1>. SUFFICES ASSUME NEW w \in Workers, NEW s \in Spaces \ tx'[w].missed, tx'[w].err = "ok",
                     spaces'[s].identity = tx'[w].who
     PROVE  /\ tx'[w].op = "AccountDelete" /\ spaces'[s].status = "created" =>
                  tx'[w].writes[s].status = "pending"
            /\ tx'[w].op = "AccountRevertDeletion" /\ spaces'[s].status = "pending" =>
                  tx'[w].writes[s].status = "created"
  BY DEF WholeInSnapshot
<1>2. w \in Procs /\ w # Deleter
  BY ProcsAssumption DEF Procs
<1>3. CASE Ends(w)
  BY <1>3 DEF Ends, NoTx
<1>4. CASE Continues(w)
  <2>1. CASE Open(w)
    <3>1. /\ tx'[w].op = tx[w].op /\ tx'[w].who = tx[w].who /\ tx'[w].writes = tx[w].writes
          /\ tx'[w].err = tx[w].err /\ s \in Spaces \ tx[w].missed /\ spaces'[s] = spaces[s]
      BY <1>4, <2>1 DEF Continues
    <3>. QED
      BY <3>1 DEF WholeInSnapshot
  <2>2. CASE ~Open(w)
    BY <1>4, <2>2 DEF Continues, Open
  <2>. QED
    BY <2>1, <2>2
<1>5. CASE Starts(w)
  <2>1. PICK op, who, out : Operation(w, op, who, out) /\ StartsWith(w, op, who, out)
    BY <1>5 DEF Starts
  <2>2. /\ tx'[w].op = op /\ tx'[w].who = who /\ tx'[w].writes = out.writes
        /\ tx'[w].err = out.err /\ spaces' = spaces
    BY <1>5, <2>1 DEF StartsWith, Starts
  <2>3. CASE op = "AccountDelete"
    <3>1. out = AccountDelete(spaces, who, now)
      BY <1>2, <2>1, <2>3 DEF Operation
    <3>. QED
      BY <1>1, <2>2, <2>3, <3>1, AccountDeleteWhole
  <2>4. CASE op = "AccountRevertDeletion"
    <3>1. out = AccountRevertDeletion(spaces, who)
      BY <1>2, <2>1, <2>4 DEF Operation
    <3>. QED
      BY <1>1, <2>2, <2>4, <3>1, AccountRevertWhole
  <2>. QED
    BY <2>2, <2>3, <2>4
<1>. QED
  BY <1>2, <1>3, <1>4, <1>5, StepShape

\* What the commit of a transaction leaves of the documents it had not deleted.
LEMMA WholeCommit ==
    ASSUME Whole, NEW w \in Workers, Commit(w)
    PROVE  /\ tx[w].op = "AccountDelete" =>
                  Owned(spaces', tx[w].who, "created") \subseteq tx[w].missed
           /\ tx[w].op = "AccountRevertDeletion" =>
                  Owned(spaces', tx[w].who, "pending") \subseteq tx[w].missed
<1>1. tx[w].err = "ok" /\ spaces' = Overlay(spaces, tx[w].writes)
  BY DEF Commit
<1>. SUFFICES ASSUME NEW s \in Spaces \ tx[w].missed, spaces'[s].identity = tx[w].who
     PROVE  /\ tx[w].op = "AccountDelete" => spaces'[s].status # "created"
            /\ tx[w].op = "AccountRevertDeletion" => spaces'[s].status # "pending"
  BY DEF Owned
<1>2. CASE Has(tx[w].writes, s)
  <2>1. spaces'[s] = tx[w].writes[s]
    BY <1>1, <1>2 DEF Overlay
  <2>. QED
    BY <2>1 DEF Whole, AccountWrites
<1>3. CASE ~Has(tx[w].writes, s)
  <2>1. spaces'[s] = spaces[s] /\ tx[w].writes[s].status = "absent"
    BY <1>1, <1>3 DEF Overlay, Has
  <2>. QED
    BY <1>1, <2>1 DEF Whole, WholeInSnapshot
<1>. QED
  BY <1>2, <1>3

\* For any spaces and handlers: AccountDelete leaves its account no created space and
\* AccountRevertDeletion no pending one, but for documents another commit wrote after
\* the snapshot.
THEOREM AccountMovesWholeHolds == Spec => AccountMovesWhole
<1>1. Init => Whole
  <2>. SUFFICES ASSUME Init PROVE Whole
    OBVIOUS
  <2>1. \A w \in Workers : tx[w] = NoTx
    BY DEF Init, Quiet, Procs
  <2>. QED
    BY <2>1 DEF Whole, WholeInSnapshot, AccountWrites, NoTx
<1>2. IInv /\ Whole /\ [Next]_vars => Whole'
  <2>1. Whole /\ UNCHANGED vars => Whole'
    BY DEF vars, Whole, WholeInSnapshot, AccountWrites
  <2>. QED
    BY <2>1, WholeStep, AccountWritesStep DEF Whole
<1>3. IInv /\ Whole /\ [Next]_vars =>
          [\A w \in Workers : Commit(w) =>
              /\ tx[w].op = "AccountDelete" =>
                      Owned(spaces', tx[w].who, "created") \subseteq tx[w].missed
              /\ tx[w].op = "AccountRevertDeletion" =>
                      Owned(spaces', tx[w].who, "pending") \subseteq tx[w].missed]_vars
  BY WholeCommit
<1>. QED
  BY <1>1, <1>2, <1>3, InductiveInvariant, PTL DEF Spec, AccountMovesWhole

=============================================================================
