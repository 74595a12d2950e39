------------------------------ MODULE AclRecords ------------------------------
(****************************************************************************)
(* The handlers of package coordinator that work on the ACL of a space:     *)
(* AclAddRecord, MakeSpaceShareable and MakeSpaceUnshareable.  Each reads   *)
(* the space's document, then the ACL, and then writes to one store after   *)
(* another, with nothing that holds these steps together: the ACL (kept by  *)
(* the consensus nodes), the ACL event log, the document, the deletion log. *)
(*                                                                          *)
(* The transactions of package spacestatus are single steps here, which is  *)
(* what ImplementsLifecycle of SpaceStatus allows.  Of the ACL service, any- *)
(* sync's, the model assumes what these handlers rely on: AddRecord adds to  *)
(* the head of the ACL or fails, and every question is answered from a view, *)
(* the first n records of the ACL for some n, which may lag behind even a    *)
(* record that was added here, and which does not shrink between two         *)
(* questions of one call.                                                    *)
(****************************************************************************)
EXTENDS SpaceDocs, Sequences

CONSTANTS
    Handlers,       \* calls that may be open at once
    MemberLimit,    \* members an ACL may have: the limits AclAddRecord hands on
    MaxLag,         \* bound: records by which a view lags behind
    MaxCalls,       \* bound: calls in a behaviour
    MaxFaults       \* bound: failures and restarts in a behaviour

ASSUME AclBoundsAssumption ==
    MemberLimit \in Nat /\ MaxLag \in Nat /\ MaxCalls \in Nat /\ MaxFaults \in Nat

VARIABLES
    spaces,         \* collection "spaces"
    acl,            \* of each space, the state after each record of its ACL
    events,         \* of each space, its entries in the ACL event log
    ownership,      \* of each space, its OwnershipChange records in the deletion log
    calls,          \* the call each handler works on
    started,        \* calls received
    faults,         \* faults happened
    overlapped,     \* history: spaces that two calls worked on at once, or that a call
                    \*          wrote to after it was misled about their ACL
    failed,         \* history: spaces on which a call ended half-way
    unrepaired      \* history: spaces with an overlap or failure and no whole
                    \*          AclAddRecord since

stores == <<spaces, acl, events, ownership>>

history == <<overlapped, failed, unrepaired>>

vars == <<stores, calls, started, faults, history>>

AclState == [owner : Identities, members : SUBSET Identities]

EventTypes == {"AclAddRecord", "Shared", "Unshared"}

Event == [type : EventTypes, owner : Identities, record : Nat]

OwnershipChange == [group : Identities, record : Nat]

Ops == {"none", "AclAddRecord", "MakeSpaceShareable", "MakeSpaceUnshareable"}

Points == {"idle", "append", "share", "check", "unshare", "event", "owner", "change", "log"}

\* `identity` is the owner as the call read it, `record` the ACL record it added,
\* `owner` the owner it found in the ACL after that.
Call == [op : Ops, at : Points, space : Spaces, identity : Identities,
         record : Nat, owner : Identities, alone : BOOLEAN]

NoCall == [op |-> "none", at |-> "idle"]

TypeOK ==
    /\ spaces \in [Spaces -> Doc]
    /\ acl \in [Spaces -> Seq(AclState)]
    /\ events \in [Spaces -> Seq(Event)]
    /\ ownership \in [Spaces -> Seq(OwnershipChange)]
    /\ calls \in [Handlers -> Call \cup {NoCall}]
    /\ started \in 0 .. MaxCalls
    /\ faults \in 0 .. MaxFaults
    /\ overlapped \in SUBSET Spaces
    /\ failed \in SUBSET Spaces
    /\ unrepaired \in SUBSET Spaces

Open(h) == calls[h] # NoCall

OpenOn(s) == {h \in Handlers : Open(h) /\ calls[h].space = s}

AclNow(s) == acl[s][Len(acl[s])]

\* Of how many records the ACL service may know when it is asked.
Views(s) == {n \in 1 .. Len(acl[s]) : Len(acl[s]) - n <= MaxLag}

\* AclState.IsEmpty: nobody but the owner.
IsEmpty(state) == state.members = {state.owner}

\* A new space, signed by its owner, with the root record of its ACL.
Init ==
    /\ \E signer \in [Spaces -> Identities] :
         /\ \A s \in Spaces : signer[s] \in Signers[s]
         /\ spaces = [s \in Spaces |-> NewDoc(s, signer[s])]
         /\ acl = [s \in Spaces |-> <<[owner |-> signer[s], members |-> {signer[s]}]>>]
    /\ events = [s \in Spaces |-> <<>>]
    /\ ownership = [s \in Spaces |-> <<>>]
    /\ calls = [h \in Handlers |-> NoCall]
    /\ started = 0
    /\ faults = 0
    /\ overlapped = {}
    /\ failed = {}
    /\ unrepaired = {}

----------------------------------------------------------------------------
(* Calls.                                                                   *)

\* A call reads the status of its space, passes its first checks and goes on at
\* `at`; a call that does not pass them changes nothing.
Start(h, op, s, at) ==
    LET others == OpenOn(s)
        both   == IF others = {} THEN {} ELSE {s}
    IN  /\ ~Open(h)
        /\ started < MaxCalls
        /\ started' = started + 1
        /\ calls' = [g \in Handlers |->
                IF g = h THEN [op |-> op, at |-> at, space |-> s,
                               identity |-> spaces[s].identity, record |-> 0,
                               owner |-> spaces[s].identity, alone |-> others = {}]
                ELSE IF g \in others THEN [calls[g] EXCEPT !.alone = FALSE]
                ELSE calls[g]]
        /\ overlapped' = overlapped \cup both
        /\ unrepaired' = unrepaired \cup both
        /\ UNCHANGED <<stores, faults, failed>>

GoOn(h, at) ==
    /\ calls' = [calls EXCEPT ![h].at = at]
    /\ UNCHANGED <<started, faults, history>>

\* A call was told something of the ACL of its space that does not hold any more.
Misled(h) ==
    /\ overlapped' = overlapped \cup {calls[h].space}
    /\ unrepaired' = unrepaired \cup {calls[h].space}
    /\ UNCHANGED <<stores, started, faults, failed>>

\* The call ends with an error of a check, and has written nothing.
Refuse(h) ==
    /\ calls' = [calls EXCEPT ![h] = NoCall]
    /\ UNCHANGED <<stores, started, faults, history>>

\* The call ends, and all it does is done.
Return(h) ==
    /\ calls' = [calls EXCEPT ![h] = NoCall]
    /\ unrepaired' = IF calls[h].op = "AclAddRecord" /\ calls[h].alone
                     THEN unrepaired \ {calls[h].space} ELSE unrepaired
    /\ UNCHANGED <<started, faults, overlapped, failed>>

----------------------------------------------------------------------------
(* AclAddRecord.                                                            *)

AclAddRecord(h, s) ==
    /\ spaces[s].status = "created"
    /\ spaces[s].shareable
    /\ Start(h, "AclAddRecord", s, "append")

\* What one record may do to the ACL: a member more, within the limit, a member
\* less, another owner.
Changes(state) ==
    {[state EXCEPT !.members = @ \cup {i}] :
        i \in {j \in Identities : Cardinality(state.members \cup {j}) <= MemberLimit}}
    \cup {[state EXCEPT !.members = @ \ {i}] : i \in state.members \ {state.owner}}
    \cup {[state EXCEPT !.owner = i] : i \in state.members}

\* acl.AddRecord: the consensus nodes order the records.
AppendRecord(h) ==
    /\ calls[h].at = "append"
    /\ \E state \in Changes(AclNow(calls[h].space)) :
            acl' = [acl EXCEPT ![calls[h].space] = Append(@, state)]
    /\ calls' = [calls EXCEPT ![h].at = "event", ![h].record = Len(acl'[calls[h].space])]
    /\ UNCHANGED <<spaces, events, ownership, started, faults, history>>

\* ... or the record is not valid any more, or goes over the limit.
RefuseRecord(h) == calls[h].at = "append" /\ Refuse(h)

\* Faulty variant for TypeOK: the operation in place of its entry type.
EventTypeOp(op) == op

\* Faulty variant for EventLogTellsAll: an unshared space is reported as shared.
EventTypeSharedOnly(op) == IF op = "AclAddRecord" THEN "AclAddRecord" ELSE "Shared"

EventType(op) ==
    CASE op = "AclAddRecord"         -> "AclAddRecord"
      [] op = "MakeSpaceShareable"   -> "Shared"
      [] op = "MakeSpaceUnshareable" -> "Unshared"

\* aclEventLog.AddLog, the last thing the two other handlers do.
AddEvent(h) ==
    LET call == calls[h]
    IN  /\ call.at = "event"
        /\ events' = [events EXCEPT ![call.space] =
                Append(@, [type |-> EventType(call.op), owner |-> call.identity,
                           record |-> call.record])]
        /\ IF call.op = "AclAddRecord" THEN GoOn(h, "owner") ELSE Return(h)
        /\ UNCHANGED <<spaces, acl, ownership>>

\* Faulty variant for OwnerIsRepaired: only a record that names an owner is acted on.
OwnerChangeByRecord(call, owner) ==
    acl[call.space][call.record].owner # acl[call.space][call.record - 1].owner

OwnerChanged(call, owner) == owner # call.identity

\* acl.OwnerPubKey, compared with the owner read at the start.
ReadOwner(h) ==
    LET call == calls[h]
    IN  /\ call.at = "owner"
        /\ IF OwnerChanged(call, AclNow(call.space).owner)
           THEN /\ calls' = [calls EXCEPT ![h].at = "change",
                                          ![h].owner = AclNow(call.space).owner]
                /\ UNCHANGED <<started, faults, history>>
           ELSE Return(h)
        /\ UNCHANGED stores

\* ... when the view still has an owner of before: that may be the one the document
\* has, or one to whom the document goes back.
ReadFormerOwner(h) ==
    LET call == calls[h]
    IN  /\ call.at = "owner"
        /\ \E n \in Views(call.space) :
              /\ acl[call.space][n].owner # AclNow(call.space).owner
              /\ calls' = [calls EXCEPT ![h] =
                    IF OwnerChanged(call, acl[call.space][n].owner)
                    THEN [call EXCEPT !.at = "change", !.owner = acl[call.space][n].owner,
                                      !.alone = FALSE]
                    ELSE NoCall]
        /\ Misled(h)

\* spaceStatus.ChangeOwner, whatever has become of the document.
ChangeOwner(h) ==
    /\ calls[h].at = "change"
    /\ spaces' = [spaces EXCEPT ![calls[h].space].identity = calls[h].owner]
    /\ GoOn(h, "log")
    /\ UNCHANGED <<acl, events, ownership>>

\* Faulty variant for OwnershipIsChained: filed under the new owner.
ChangeNewGroup(call) == [group |-> call.owner, record |-> call.record]

Change(call) == [group |-> call.identity, record |-> call.record]

\* deletionLog.AddOwnershipChange.
AddOwnershipChange(h) ==
    /\ calls[h].at = "log"
    /\ ownership' = [ownership EXCEPT ![calls[h].space] = Append(@, Change(calls[h]))]
    /\ Return(h)
    /\ UNCHANGED <<spaces, acl, events>>

----------------------------------------------------------------------------
(* MakeSpaceShareable and MakeSpaceUnshareable, called by the owner.  A call *)
(* that finds the space as it wants it returns at once.                      *)

MakeSpaceShareable(h, s) ==
    /\ Has(spaces, s)
    /\ ~spaces[s].shareable
    /\ Start(h, "MakeSpaceShareable", s, "share")

\* A transaction of package spacestatus.
Transaction(h, outcome) ==
    IF outcome.err = "ok"
    THEN /\ spaces' = Overlay(spaces, outcome.writes)
         /\ GoOn(h, "event")
         /\ UNCHANGED <<acl, events, ownership>>
    ELSE Refuse(h)

\* The limit is the one that the owner's account had when the handler asked.
Share(h) ==
    /\ calls[h].at = "share"
    /\ \E limit \in ShareLimits(DecodedType(spaces[calls[h].space])) :
            Transaction(h, MakeShareable(spaces, calls[h].space, limit))

MakeSpaceUnshareable(h, s) ==
    /\ spaces[s].shareable
    /\ Start(h, "MakeSpaceUnshareable", s, "check")

\* Faulty variant for UnsharedIsEmpty: the client's head is not looked up.
EmptyAtAnyHead(s, head, n) == IsEmpty(acl[s][n])

\* acl.HasRecord and acl.ReadState, answered from the first n records: the record
\* the client takes for the head is one of them, and by them there are no members.
EmptyAt(s, head, n) == head <= n /\ IsEmpty(acl[s][n])

\* The client names the head of the ACL, an older record, or one the ACL has not.
CheckEmpty(h) ==
    LET s == calls[h].space
    IN  /\ calls[h].at = "check"
        /\ \E head \in 1 .. Len(acl[s]) + 1, n \in Views(s) :
             \/ ~EmptyAt(s, head, n) /\ Refuse(h)
             \/ /\ EmptyAt(s, head, n)
                /\ head = Len(acl[s]) \/ IsEmpty(AclNow(s))
                /\ GoOn(h, "unshare")
                /\ UNCHANGED stores

\* ... when the client's head is an older one, by which there were no members.
CheckOlderHead(h) ==
    LET s == calls[h].space
    IN  /\ calls[h].at = "check"
        /\ ~IsEmpty(AclNow(s))
        /\ \E head \in 1 .. Len(acl[s]) - 1, n \in Views(s) : EmptyAt(s, head, n)
        /\ calls' = [calls EXCEPT ![h].at = "unshare", ![h].alone = FALSE]
        /\ Misled(h)

Unshare(h) ==
    /\ calls[h].at = "unshare"
    /\ Transaction(h, MakeUnshareable(spaces, calls[h].space))

----------------------------------------------------------------------------
(* The environment.                                                         *)

\* Handlers of SpaceStatus delete and restore the space meanwhile.
StatusMoves(s) ==
    /\ \/ spaces[s].status = "created" /\ spaces' = [spaces EXCEPT ![s].status = "pending"]
       \/ spaces[s].status = "pending" /\ spaces' = [spaces EXCEPT ![s].status = "created"]
    /\ UNCHANGED <<acl, events, ownership, calls, started, faults, history>>

CallsFail(H) ==
    /\ H # {}
    /\ faults < MaxFaults
    /\ faults' = faults + 1
    /\ calls' = [h \in Handlers |-> IF h \in H THEN NoCall ELSE calls[h]]
    /\ failed' = failed \cup {calls[h].space : h \in H}
    /\ unrepaired' = unrepaired \cup {calls[h].space : h \in H}
    /\ UNCHANGED <<stores, started, overlapped>>

\* A store does not answer, or the client is gone.
CallFails(h) == Open(h) /\ CallsFail({h})

\* The coordinator stops, and starts again.
Crash == CallsFail({h \in Handlers : Open(h)})

Next ==
    \/ \E h \in Handlers, s \in Spaces : \/ AclAddRecord(h, s)
                                         \/ MakeSpaceShareable(h, s)
                                         \/ MakeSpaceUnshareable(h, s)
    \/ \E h \in Handlers : \/ AppendRecord(h)
                           \/ RefuseRecord(h)
                           \/ AddEvent(h)
                           \/ ReadOwner(h)
                           \/ ReadFormerOwner(h)
                           \/ ChangeOwner(h)
                           \/ AddOwnershipChange(h)
                           \/ Share(h)
                           \/ CheckEmpty(h)
                           \/ CheckOlderHead(h)
                           \/ Unshare(h)
                           \/ CallFails(h)
    \/ \E s \in Spaces : StatusMoves(s)
    \/ Crash

Spec == Init /\ [][Next]_vars

----------------------------------------------------------------------------
(* Properties.                                                              *)

\* A space that cannot be shared has no members beside its owner, unless two calls
\* worked on it at once: AclAddRecord looks at the document and writes to the ACL,
\* MakeSpaceUnshareable looks at the ACL and writes to the document.  Calls that end
\* half-way do not break this, nor does a view that lags behind: a client that names
\* the head of the ACL is not answered from a view without it.  Only one that names an
\* older record may be, and then the space counts with those of two calls at once.
UnsharedIsEmpty ==
    \A s \in Spaces \ overlapped : ~spaces[s].shareable => IsEmpty(AclNow(s))

\* Whatever was lost or overtaken before, or missed or undone by a view that lagged
\* behind, the next AclAddRecord that runs alone and to its end, and is told the present
\* owner, leaves the document with the owner that the ACL has, although the record it
\* adds names no owner; and where nothing was lost, the owners agree.
OwnerIsRepaired ==
    \A s \in Spaces \ unrepaired :
        \/ spaces[s].identity = AclNow(s).owner
        \/ \E h \in OpenOn(s) : calls[h].op = "AclAddRecord"

AtRest(s) == s \notin overlapped /\ s \notin failed /\ OpenOn(s) = {}

OwnerAfter(s, n) ==
    IF n = 0 THEN acl[s][1].owner ELSE acl[s][ownership[s][n].record].owner

\* The OwnershipChange records of a space lead from its first owner to the owner its
\* document has: each is filed under the owner that the record before it, looked up
\* in the ACL, had made.  File nodes move the space's files along this chain.
OwnershipIsChained ==
    \A s \in Spaces : AtRest(s) =>
        /\ \A n \in 1 .. Len(ownership[s]) :
              /\ ownership[s][n].group = OwnerAfter(s, n - 1)
              /\ ownership[s][n].group # OwnerAfter(s, n)
        /\ spaces[s].identity = OwnerAfter(s, Len(ownership[s]))

EventsOf(s, types) == {k \in 1 .. Len(events[s]) : events[s][k].type \in types}

\* The log of a space has an event for each record of the ACL up to record n, in
\* their order, under the account that owned the space before the record ...
RecordsTold(s, n) ==
    LET added == EventsOf(s, {"AclAddRecord"})
    IN  /\ {events[s][k].record : k \in added} = 2 .. n
        /\ \A j, k \in added : j < k => events[s][j].record < events[s][k].record
        /\ \A k \in added : events[s][k].owner = acl[s][events[s][k].record - 1].owner

\* ... and its last event about sharing says that the space is shareable, or not.
SharingTold(s, shareable) ==
    shareable <=> \E k \in EventsOf(s, {"Shared"}) : \A j \in EventsOf(s, {"Unshared"}) : j < k

\* The ACL event log has each record of the ACL once and in order, and its last event
\* about sharing is true.
EventLogTellsAll ==
    \A s \in Spaces : AtRest(s) =>
        RecordsTold(s, Len(acl[s])) /\ SharingTold(s, spaces[s].shareable)

----------------------------------------------------------------------------
(* What a test says, and the code does not do: see the README.              *)

\* coordinator_test.go "non empty acl": a space whose ACL has members is not made
\* unshareable.
NeverUnsharedWithMembers ==
    [][\A s \in Spaces : spaces[s].shareable /\ ~spaces'[s].shareable => IsEmpty(AclNow(s))]_vars

=============================================================================
