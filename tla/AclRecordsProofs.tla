-------------------------- MODULE AclRecordsProofs --------------------------
(****************************************************************************)
(* Theorems about AclRecords: for any spaces, accounts and handlers, what    *)
(* the chains of writes keep although nothing holds their steps together.    *)
(****************************************************************************)
EXTENDS AclRecords, SequenceTheorems, TLAPS

----------------------------------------------------------------------------
(* The inductive invariant.                                                 *)

Clean(s) == s \notin overlapped /\ s \notin failed

Chained(s) ==
    \A n \in 1 .. Len(ownership[s]) :
        /\ ownership[s][n].record \in 1 .. Len(acl[s])
        /\ ownership[s][n].group = OwnerAfter(s, n - 1)
        /\ ownership[s][n].group # OwnerAfter(s, n)

LastOwner(s) == OwnerAfter(s, Len(ownership[s]))

\* An AclAddRecord that has added its record.
Added(h) == calls[h].op = "AclAddRecord" /\ calls[h].at # "append"

SpaceInv(s) ==
    /\ acl[s] # <<>>
    /\ spaces[s].identity \in Identities
    /\ s \notin overlapped /\ ~spaces[s].shareable => IsEmpty(AclNow(s))
    /\ s \notin unrepaired =>
          spaces[s].identity = AclNow(s).owner \/ \E h \in OpenOn(s) : Added(h)
    /\ Clean(s) =>
          /\ Chained(s)
          /\ spaces[s].identity = LastOwner(s) \/ \E h \in OpenOn(s) : calls[h].at = "log"

PointsOf(op) ==
    CASE op = "AclAddRecord"         -> {"append", "event", "owner", "change", "log"}
      [] op = "MakeSpaceShareable"   -> {"share", "event"}
      [] op = "MakeSpaceUnshareable" -> {"check", "unshare", "event"}
      [] OTHER                       -> {}

\* What a call that runs alone has read still holds.
AloneInv(h, call, s) ==
    /\ OpenOn(s) = {h}
    /\ call.at # "log" => call.identity = spaces[s].identity
    /\ call.at = "append" => spaces[s].shareable
    /\ call.at = "unshare" => IsEmpty(AclNow(s))
    /\ Added(h) => call.record = Len(acl[s])
    /\ call.at \in {"change", "log"} => call.owner = AclNow(s).owner /\ call.owner # call.identity
    /\ call.at = "log" => /\ call.owner = spaces[s].identity
                          /\ Clean(s) => call.identity = LastOwner(s)

CallInv(h) ==
    Open(h) =>
        /\ calls[h] \in Call
        /\ calls[h].at \in PointsOf(calls[h].op)
        /\ IF calls[h].alone THEN AloneInv(h, calls[h], calls[h].space)
           ELSE calls[h].space \in overlapped \cap unrepaired

IInv == TypeOK /\ (\A s \in Spaces : SpaceInv(s)) /\ (\A h \in Handlers : CallInv(h))

----------------------------------------------------------------------------
(* Calls and documents.                                                     *)

\* A call that is somewhere is open.
LEMMA AtIsOpen ==
    ASSUME NEW h \in Handlers, calls[h].at # "idle", CallInv(h)
    PROVE  /\ Open(h)
           /\ calls[h] \in Call
           /\ calls[h].at \in PointsOf(calls[h].op)
           /\ calls[h].space \in Spaces
           /\ h \in OpenOn(calls[h].space)
<1>1. Open(h)
  BY DEF Open, NoCall
<1>2. calls[h] \in Call /\ calls[h].at \in PointsOf(calls[h].op)
  BY <1>1 DEF CallInv
<1>. QED
  BY <1>1, <1>2 DEF Call, OpenOn

LEMMA IdleIsNowhere == \A op : "idle" \notin PointsOf(op)
  BY DEF PointsOf

\* The transaction of MakeShareable changes the one field of the one document.
LEMMA Shares ==
    ASSUME spaces \in [Spaces -> Doc], NEW s \in Spaces,
           NEW limit, NEW outcome,
           outcome \in {MakeShareable(spaces, s, limit), MakeUnshareable(spaces, s)},
           outcome.err = "ok",
           NEW db, db = Overlay(spaces, outcome.writes)
    PROVE  /\ db \in [Spaces -> Doc]
           /\ \A r \in Spaces \ {s} : db[r] = spaces[r]
           /\ db[s].identity = spaces[s].identity
           /\ outcome = MakeShareable(spaces, s, limit) => db[s].shareable
<1>1. outcome # Fail("ErrSpaceNotExists") /\ outcome # Fail("ErrSpaceLimitReached")
  BY DEF Fail
<1> DEFINE doc(b) == [spaces[s] EXCEPT !.shareable = b]
<1>2. /\ \A b \in BOOLEAN : doc(b) \in Doc /\ doc(b).status = spaces[s].status
                            /\ doc(b).identity = spaces[s].identity /\ doc(b).shareable = b
      /\ NoDoc.status = "absent"
  BY DEF Doc, NoDoc
<1>3. Has(spaces, s)
  BY <1>1 DEF MakeShareable, MakeUnshareable
<1>4. CASE outcome = Nothing
  <2>1. outcome.writes = NoWrites
    BY <1>4 DEF Nothing, Fail
  <2>2. \A r \in Spaces : ~Has(NoWrites, r)
    BY <1>2 DEF Has, NoWrites
  <2>3. db = spaces
    BY <2>1, <2>2 DEF Overlay
  <2>4. outcome = MakeShareable(spaces, s, limit) => spaces[s].shareable
    <3>1. ASSUME outcome = MakeShareable(spaces, s, limit), ~spaces[s].shareable PROVE FALSE
      <4>1. outcome = Write(s, doc(TRUE))
        BY <1>1, <3>1 DEF MakeShareable
      <4>2. Write(s, doc(TRUE)).writes[s] = doc(TRUE)
        BY DEF Write, Nothing, Fail, NoWrites
      <4>3. NoWrites[s] = NoDoc
        BY DEF NoWrites
      <4>. QED
        BY <4>1, <4>2, <4>3, <2>1, <1>2, <1>3 DEF Has
    <3>. QED
      BY <3>1
  <2>. QED
    BY <2>3, <2>4
<1>5. CASE \E b \in BOOLEAN : outcome = Write(s, doc(b)) /\ (outcome = MakeShareable(spaces, s, limit) => b)
  <2>1. PICK b \in BOOLEAN : outcome = Write(s, doc(b)) /\ (outcome = MakeShareable(spaces, s, limit) => b)
    BY <1>5
  <2>2. outcome.writes = [NoWrites EXCEPT ![s] = doc(b)]
    BY <2>1 DEF Write, Nothing, Fail
  <2>3. outcome.writes[s] = doc(b) /\ \A r \in Spaces \ {s} : outcome.writes[r] = NoDoc
    BY <2>2 DEF NoWrites
  <2>4. Has(outcome.writes, s) /\ \A r \in Spaces \ {s} : ~Has(outcome.writes, r)
    BY <2>3, <1>2, <1>3 DEF Has
  <2>5. db[s] = doc(b) /\ \A r \in Spaces \ {s} : db[r] = spaces[r]
    BY <2>3, <2>4 DEF Overlay
  <2>6. db = [r \in Spaces |-> db[r]]
    BY DEF Overlay
  <2>7. doc(b) \in Doc /\ doc(b).identity = spaces[s].identity /\ doc(b).shareable = b
    BY <1>2
  <2> HIDE DEF doc
  <2>8. \A r \in Spaces : db[r] \in Doc
    BY <2>5, <2>7
  <2>9. db \in [Spaces -> Doc]
    BY <2>6, <2>8
  <2>. QED
    BY <2>1, <2>5, <2>7, <2>9
<1>. QED
  <2>1. CASE outcome = MakeShareable(spaces, s, limit)
    <3>1. outcome = Nothing \/ outcome = Write(s, doc(TRUE))
      BY <1>1, <2>1 DEF MakeShareable
    <3>. QED
      BY <3>1, <1>4, <1>5
  <2>2. CASE outcome = MakeUnshareable(spaces, s) /\ outcome # MakeShareable(spaces, s, limit)
    <3>1. outcome = Nothing \/ outcome = Write(s, doc(FALSE))
      BY <1>1, <2>2 DEF MakeUnshareable
    <3>. QED
      BY <3>1, <2>2, <1>4, <1>5
  <2>. QED
    BY <2>1, <2>2

----------------------------------------------------------------------------
(* The shape of a step.                                                     *)

\* A step of the call of h on s: it leaves other calls and spaces alone, and only
\* one that runs alone repairs.
StepOf(h, s) ==
    /\ \A g \in Handlers \ {h} : calls'[g] = calls[g]
    /\ Open(h)' => /\ calls'[h] \in Call
                   /\ calls'[h].at \in PointsOf(calls'[h].op)
                   /\ calls'[h].space = s
                   /\ calls'[h].alone = calls[h].alone
    /\ \A r \in Spaces \ {s} : /\ spaces'[r] = spaces[r]
                               /\ acl'[r] = acl[r]
                               /\ ownership'[r] = ownership[r]
    /\ overlapped' = overlapped
    /\ failed' = failed
    /\ \/ unrepaired' = unrepaired
       \/ calls[h].alone /\ unrepaired' = unrepaired \ {s}

\* The calls open on a space are the same if each call is open on it as before.
LEMMA SameCallsOpen ==
    ASSUME NEW r \in Spaces,
           \A g \in Handlers : Open(g)' /\ calls'[g].space = r <=> Open(g) /\ calls[g].space = r
    PROVE  OpenOn(r)' = OpenOn(r)
<1>1. OpenOn(r)' = {g \in Handlers : Open(g)' /\ calls'[g].space = r}
  BY DEF OpenOn
<1>2. OpenOn(r) = {g \in Handlers : Open(g) /\ calls[g].space = r}
  BY DEF OpenOn
<1>. QED
  BY <1>1, <1>2

LEMMA OpenOfOthers ==
    ASSUME NEW h \in Handlers, NEW s \in Spaces, Open(h), calls[h].space = s, StepOf(h, s)
    PROVE  /\ \A g \in Handlers \ {h} : Open(g)' <=> Open(g)
           /\ \A r \in Spaces \ {s} : OpenOn(r)' = OpenOn(r)
           /\ OpenOn(s)' = (IF Open(h)' THEN OpenOn(s) ELSE OpenOn(s) \ {h})
<1>1. \A g \in Handlers \ {h} : calls'[g] = calls[g] /\ (Open(g)' <=> Open(g))
  BY DEF StepOf, Open
<1>2. Open(h)' => calls'[h].space = s
  BY DEF StepOf
<1>3. CASE Open(h)'
  <2>1. \A r \in Spaces, g \in Handlers :
            Open(g)' /\ calls'[g].space = r <=> Open(g) /\ calls[g].space = r
    BY <1>1, <1>2, <1>3
  <2>. QED
    BY <1>1, <1>3, <2>1, SameCallsOpen
<1>4. CASE ~Open(h)'
  <2>1. \A r \in Spaces \ {s}, g \in Handlers :
            Open(g)' /\ calls'[g].space = r <=> Open(g) /\ calls[g].space = r
    BY <1>1, <1>4
  <2>2. \A r \in Spaces \ {s} : OpenOn(r)' = OpenOn(r)
    BY <2>1, SameCallsOpen
  <2>3. \A g \in Handlers :
            Open(g)' /\ calls'[g].space = s <=> Open(g) /\ calls[g].space = s /\ g # h
    BY <1>1, <1>4
  <2>4. OpenOn(s)' = {g \in Handlers : Open(g)' /\ calls'[g].space = s}
    BY DEF OpenOn
  <2>5. OpenOn(s) = {g \in Handlers : Open(g) /\ calls[g].space = s}
    BY DEF OpenOn
  <2>6. OpenOn(s)' = OpenOn(s) \ {h}
    BY ONLY <2>3, <2>4, <2>5
  <2>. QED
    BY <1>1, <1>4, <2>2, <2>6
<1>. QED
  BY <1>3, <1>4

\* What a space keeps does not depend on other spaces.
LEMMA SpaceFrame ==
    ASSUME NEW r \in Spaces, SpaceInv(r), OpenOn(r)' = OpenOn(r),
           \A g \in OpenOn(r) : calls'[g] = calls[g],
           spaces'[r].identity = spaces[r].identity,
           spaces'[r].shareable = spaces[r].shareable, acl'[r] = acl[r], ownership'[r] = ownership[r],
           r \in overlapped' <=> r \in overlapped,
           r \in failed' <=> r \in failed,
           r \in unrepaired' <=> r \in unrepaired
    PROVE  SpaceInv(r)'
<1>1. AclNow(r)' = AclNow(r) /\ IsEmpty(AclNow(r))' = IsEmpty(AclNow(r))
  BY DEF AclNow, IsEmpty
<1>2. \A n : OwnerAfter(r, n)' = OwnerAfter(r, n)
  BY DEF OwnerAfter
<1>3. Chained(r)' = Chained(r) /\ LastOwner(r)' = LastOwner(r) /\ Clean(r)' = Clean(r)
  BY <1>2 DEF Chained, LastOwner, Clean
<1>4. \A g \in OpenOn(r) : Added(g)' = Added(g)
  BY DEF Added
<1>. QED
  BY <1>1, <1>3, <1>4 DEF SpaceInv

\* Nor what a call keeps.
LEMMA CallFrame ==
    ASSUME NEW g \in Handlers, CallInv(g), calls'[g] = calls[g],
           NEW r \in Spaces, Open(g) => r = calls[g].space, OpenOn(r)' = OpenOn(r),
           spaces'[r].identity = spaces[r].identity,
           spaces'[r].shareable = spaces[r].shareable, acl'[r] = acl[r], ownership'[r] = ownership[r],
           r \in overlapped' <=> r \in overlapped,
           r \in failed' <=> r \in failed,
           r \in unrepaired' <=> r \in unrepaired
    PROVE  CallInv(g)'
<1>1. AclNow(r)' = AclNow(r) /\ IsEmpty(AclNow(r))' = IsEmpty(AclNow(r))
  BY DEF AclNow, IsEmpty
<1>2. \A n : OwnerAfter(r, n)' = OwnerAfter(r, n)
  BY DEF OwnerAfter
<1>3. LastOwner(r)' = LastOwner(r) /\ Clean(r)' = Clean(r)
  BY <1>2 DEF LastOwner, Clean
<1>4. Added(g)' = Added(g) /\ Open(g)' = Open(g)
  BY DEF Added, Open
<1>5. AloneInv(g, calls[g], r) => AloneInv(g, calls[g], r)'
  BY <1>1, <1>3, <1>4 DEF AloneInv
<1>. QED
  BY <1>4, <1>5 DEF CallInv

\* A step of a call keeps the invariant if it does so for its own space and itself.
LEMMA CallStep ==
    ASSUME IInv, TypeOK', NEW h \in Handlers, Open(h), NEW s \in Spaces,
           calls[h].space = s, StepOf(h, s),
           acl'[s] # <<>>, spaces'[s].identity \in Identities,
           calls[h].alone => SpaceInv(s)' /\ (Open(h)' => AloneInv(h, calls[h], s)')
    PROVE  IInv'
<1>1. /\ \A g \in Handlers \ {h} : calls'[g] = calls[g]
      /\ \A r \in Spaces \ {s} : /\ spaces'[r] = spaces[r]
                                 /\ acl'[r] = acl[r]
                                 /\ ownership'[r] = ownership[r]
      /\ overlapped' = overlapped /\ failed' = failed
      /\ \A r \in Spaces \ {s} : r \in unrepaired' <=> r \in unrepaired
      /\ ~calls[h].alone => unrepaired' = unrepaired
  BY DEF StepOf
<1>2. /\ \A g \in Handlers \ {h} : Open(g)' <=> Open(g)
      /\ \A r \in Spaces \ {s} : OpenOn(r)' = OpenOn(r)
  BY OpenOfOthers
<1>3. \A r \in Spaces \ {s} : SpaceInv(r)'
  <2>. SUFFICES ASSUME NEW r \in Spaces \ {s} PROVE SpaceInv(r)'
    OBVIOUS
  <2>1. SpaceInv(r)
    BY DEF IInv
  <2>2. \A g \in OpenOn(r) : calls'[g] = calls[g]
    BY <1>1 DEF OpenOn
  <2>. QED
    BY <1>1, <1>2, <2>1, <2>2, SpaceFrame
<1>4. ~calls[h].alone => s \in overlapped /\ s \in unrepaired
  BY DEF IInv, CallInv
<1>5. SpaceInv(s)'
  BY <1>1, <1>4 DEF SpaceInv, Clean
<1>6. ASSUME NEW g \in Handlers \ {h} PROVE CallInv(g)'
  <2>1. CallInv(g) /\ CallInv(h)
    BY DEF IInv
  <2>2. CASE ~Open(g)
    BY <2>2, <1>2 DEF CallInv
  <2>3. CASE Open(g) /\ calls[g].space # s
    <3>1. calls[g].space \in Spaces \ {s}
      BY <2>1, <2>3 DEF CallInv, Call
    <3>. QED
      BY <1>1, <1>2, <2>1, <3>1, CallFrame
  <2>4. CASE Open(g) /\ calls[g].space = s
    <3>1. g \in OpenOn(s) /\ h \in OpenOn(s) /\ g # h
      BY <2>4 DEF OpenOn
    <3>2. ~calls[g].alone /\ ~calls[h].alone
      BY <2>1, <2>4, <3>1 DEF CallInv, AloneInv
    <3>. QED
      BY <1>1, <1>4, <2>1, <2>4, <3>2 DEF CallInv
  <2>. QED
    BY <2>2, <2>3, <2>4
<1>7. CallInv(h)'
  <2>1. Open(h)' => /\ calls'[h] \in Call
                    /\ calls'[h].at \in PointsOf(calls'[h].op)
                    /\ calls'[h].space = s
                    /\ calls'[h].alone = calls[h].alone
    BY DEF StepOf
  <2>. QED
    BY <1>1, <1>4, <2>1 DEF CallInv, AloneInv
<1>. QED
  BY <1>3, <1>5, <1>6, <1>7 DEF IInv

----------------------------------------------------------------------------
(* The steps of a call.                                                     *)

LEMMA OfOpenCall ==
    ASSUME IInv, NEW h \in Handlers, calls[h].at # "idle", NEW s, s = calls[h].space
    PROVE  /\ Open(h)
           /\ calls[h] \in Call
           /\ calls[h].at \in PointsOf(calls[h].op)
           /\ s \in Spaces
           /\ h \in OpenOn(s)
           /\ SpaceInv(s)
           /\ IF calls[h].alone THEN AloneInv(h, calls[h], s)
              ELSE s \in overlapped \cap unrepaired
<1>1. CallInv(h)
  BY DEF IInv
<1>2. Open(h) /\ calls[h] \in Call /\ calls[h].at \in PointsOf(calls[h].op) /\ s \in Spaces
      /\ h \in OpenOn(s)
  BY <1>1, AtIsOpen
<1>3. SpaceInv(s)
  BY <1>2 DEF IInv
<1>. QED
  BY <1>1, <1>2, <1>3 DEF CallInv

LEMMA NoCallIsIdle ==
    ASSUME NEW c, c.at \in PointsOf(c.op) PROVE c # NoCall
  BY IdleIsNowhere DEF NoCall

\* The chain does not depend on records that come after those it names.
LEMMA ChainFrame ==
    ASSUME NEW s \in Spaces, Chained(s), ownership[s] \in Seq(OwnershipChange),
           ownership'[s] = ownership[s],
           acl[s] \in Seq(AclState), acl'[s] \in Seq(AclState), acl[s] # <<>>,
           Len(acl[s]) <= Len(acl'[s]),
           \A k \in 1 .. Len(acl[s]) : acl'[s][k] = acl[s][k]
    PROVE  Chained(s)' /\ LastOwner(s)' = LastOwner(s)
<1>1. Len(acl[s]) \in Nat /\ Len(acl[s]) >= 1 /\ Len(acl'[s]) \in Nat /\ Len(ownership[s]) \in Nat
  BY DEF AclState
<1>2. \A n \in 0 .. Len(ownership[s]) : OwnerAfter(s, n)' = OwnerAfter(s, n)
  <2>. SUFFICES ASSUME NEW n \in 0 .. Len(ownership[s]) PROVE OwnerAfter(s, n)' = OwnerAfter(s, n)
    OBVIOUS
  <2>1. CASE n = 0
    BY <1>1, <2>1 DEF OwnerAfter
  <2>2. CASE n # 0
    <3>1. ownership[s][n].record \in 1 .. Len(acl[s])
      BY <1>1, <2>2 DEF Chained
    <3>. QED
      BY <3>1, <2>2 DEF OwnerAfter
  <2>. QED
    BY <2>1, <2>2
<1>3. LastOwner(s)' = LastOwner(s)
  BY <1>1, <1>2 DEF LastOwner
<1>4. Chained(s)'
  <2>. SUFFICES ASSUME NEW n \in 1 .. Len(ownership[s])
                PROVE  /\ ownership[s][n].record \in 1 .. Len(acl'[s])
                       /\ ownership[s][n].group = OwnerAfter(s, n - 1)'
                       /\ ownership[s][n].group # OwnerAfter(s, n)'
    BY DEF Chained
  <2>1. OwnerAfter(s, n)' = OwnerAfter(s, n) /\ OwnerAfter(s, n - 1)' = OwnerAfter(s, n - 1)
    <3>1. n \in 0 .. Len(ownership[s]) /\ n - 1 \in 0 .. Len(ownership[s])
      BY <1>1
    <3>. QED
      BY <3>1, <1>2
  <2>2. ownership[s][n].record \in 1 .. Len(acl'[s])
    <3>1. ownership[s][n].record \in 1 .. Len(acl[s])
      BY DEF Chained
    <3>. QED
      BY <3>1, <1>1
  <2>. QED
    BY <2>1, <2>2 DEF Chained
<1>. QED
  BY <1>3, <1>4

LEMMA ChangesType ==
    ASSUME NEW state \in AclState PROVE Changes(state) \subseteq AclState
<1>1. ASSUME NEW i \in Identities PROVE [state EXCEPT !.members = @ \cup {i}] \in AclState
  BY DEF AclState
<1>2. ASSUME NEW i \in Identities PROVE [state EXCEPT !.members = @ \ {i}] \in AclState
  BY DEF AclState
<1>3. ASSUME NEW i \in state.members PROVE [state EXCEPT !.owner = i] \in AclState
  BY DEF AclState
<1>4. state.members \subseteq Identities
  BY DEF AclState
<1>. QED
  BY <1>1, <1>2, <1>3, <1>4 DEF Changes

LEMMA AclNowType ==
    ASSUME NEW s \in Spaces, acl \in [Spaces -> Seq(AclState)], acl[s] # <<>>
    PROVE  AclNow(s) \in AclState /\ Len(acl[s]) \in Nat \ {0}
<1>1. acl[s] \in Seq(AclState)
  OBVIOUS
<1> HIDE DEF AclState
<1>2. Len(acl[s]) \in Nat \ {0} /\ acl[s][Len(acl[s])] \in AclState
  BY <1>1
<1>. QED
  BY <1>2 DEF AclNow

LEMMA AppendRecordInv ==
    ASSUME IInv, NEW h \in Handlers, AppendRecord(h) PROVE IInv'
<1>0. PICK s : s = calls[h].space
  OBVIOUS
<1>1. calls[h].at = "append"
  BY DEF AppendRecord
<1>2. /\ Open(h) /\ calls[h] \in Call /\ calls[h].at \in PointsOf(calls[h].op)
      /\ s \in Spaces /\ h \in OpenOn(s) /\ SpaceInv(s)
      /\ (calls[h].alone => AloneInv(h, calls[h], s))
  BY <1>0, <1>1, OfOpenCall
<1>3. calls[h].op = "AclAddRecord"
  BY <1>1, <1>2 DEF PointsOf
<1>4. acl[s] # <<>> /\ AclNow(s) \in AclState /\ acl[s] \in Seq(AclState) /\ acl \in [Spaces -> Seq(AclState)]
      /\ Len(acl[s]) \in Nat \ {0}
  BY <1>2, AclNowType DEF IInv, TypeOK, SpaceInv
<1>5. PICK state \in AclState : acl' = [acl EXCEPT ![s] = Append(@, state)]
  BY <1>0, <1>4, ChangesType DEF AppendRecord
<1>6. /\ acl'[s] = Append(acl[s], state)
      /\ acl' \in [Spaces -> Seq(AclState)]
      /\ \A r \in Spaces \ {s} : acl'[r] = acl[r]
      /\ Len(acl'[s]) = Len(acl[s]) + 1
      /\ acl'[s] \in Seq(AclState) /\ acl'[s] # <<>>
      /\ \A k \in 1 .. Len(acl[s]) : acl'[s][k] = acl[s][k]
  BY <1>2, <1>4, <1>5
<1>7. /\ calls' = [calls EXCEPT ![h].at = "event", ![h].record = Len(acl'[s])]
      /\ UNCHANGED <<spaces, events, ownership, started, faults, overlapped, failed, unrepaired>>
  BY <1>0 DEF AppendRecord, history
<1>8. calls \in [Handlers -> Call \cup {NoCall}]
  BY DEF IInv, TypeOK
<1>9. /\ calls'[h] = [calls[h] EXCEPT !.at = "event", !.record = Len(acl'[s])]
      /\ \A g \in Handlers \ {h} : calls'[g] = calls[g]
  BY <1>7, <1>8
<1>10. /\ calls'[h] \in Call /\ calls'[h].at = "event" /\ calls'[h].record = Len(acl[s]) + 1
       /\ calls'[h].op = "AclAddRecord" /\ calls'[h].space = s
       /\ calls'[h].alone = calls[h].alone /\ calls'[h].identity = calls[h].identity
  <2>1. "event" \in Points /\ Len(acl'[s]) \in Nat
    BY <1>4, <1>6 DEF Points
  <2>. QED
    <3>1. PICK k \in Nat : k = Len(acl'[s])
      BY <2>1
    <3>2. calls'[h] = [calls[h] EXCEPT !.at = "event", !.record = k]
      BY <1>9, <3>1
    <3>3. /\ calls'[h] \in Call /\ calls'[h].at = "event" /\ calls'[h].record = Len(acl'[s])
          /\ calls'[h].op = calls[h].op /\ calls'[h].space = calls[h].space
          /\ calls'[h].identity = calls[h].identity /\ calls'[h].alone = calls[h].alone
      BY <1>2, <2>1, <3>1, <3>2 DEF Call
    <3>. QED
      BY <1>0, <1>3, <1>6, <3>3
<1>11. Open(h)' /\ calls'[h].at \in PointsOf(calls'[h].op)
  BY <1>10, NoCallIsIdle DEF Open, PointsOf
<1>12. TypeOK'
  <2>1. calls' \in [Handlers -> Call \cup {NoCall}]
    BY <1>7, <1>8, <1>9, <1>10
  <2>. QED
    BY <1>6, <1>7, <2>1 DEF IInv, TypeOK
<1>13. StepOf(h, s)
  BY <1>6, <1>7, <1>9, <1>10, <1>11 DEF StepOf
<1>14. OpenOn(s)' = OpenOn(s)
  BY <1>0, <1>2, <1>11, <1>13, OpenOfOthers
<1>15. Clean(s) => Chained(s)' /\ LastOwner(s)' = LastOwner(s)
  <2>1. ownership[s] \in Seq(OwnershipChange) /\ ownership'[s] = ownership[s]
    BY <1>2, <1>7 DEF IInv, TypeOK
  <2>. QED
    <3>1. Clean(s) => Chained(s)
      BY <1>2 DEF SpaceInv
    <3>2. Len(acl[s]) <= Len(acl'[s])
      BY <1>4, <1>6
    <3>. QED
      BY <1>2, <1>4, <1>6, <2>1, <3>1, <3>2, ChainFrame
<1>16. ASSUME calls[h].alone PROVE SpaceInv(s)' /\ AloneInv(h, calls[h], s)'
  <2>1. AloneInv(h, calls[h], s) /\ OpenOn(s) = {h} /\ spaces[s].shareable
        /\ calls[h].identity = spaces[s].identity
    BY <1>1, <1>2, <1>16 DEF AloneInv
  <2>2. Added(h)'
    BY <1>10 DEF Added
  <2>3. Clean(s)' = Clean(s)
    BY <1>7 DEF Clean
  <2>4. Clean(s) => spaces[s].identity = LastOwner(s)
    BY <1>1, <1>2, <2>1 DEF SpaceInv
  <2>5. SpaceInv(s)'
    BY <1>2, <1>6, <1>7, <1>14, <1>15, <2>1, <2>2, <2>3, <2>4 DEF SpaceInv
  <2>6. AloneInv(h, calls[h], s)'
    BY <1>4, <1>6, <1>7, <1>10, <1>14, <2>1 DEF AloneInv
  <2>. QED
    BY <2>5, <2>6
<1>17. spaces'[s].identity \in Identities
  BY <1>2, <1>7 DEF SpaceInv
<1>. QED
  BY <1>0, <1>2, <1>6, <1>12, <1>13, <1>16, <1>17, CallStep

\* A call that ends, and writes neither ACL nor document nor ownership record.
LEMMA QuietEnd ==
    ASSUME IInv, TypeOK', NEW h \in Handlers, calls[h].at \notin {"idle", "log"},
           NEW s, s = calls[h].space,
           UNCHANGED <<spaces, acl, ownership, overlapped, failed>>,
           calls' = [calls EXCEPT ![h] = NoCall],
           \/ unrepaired' = unrepaired
           \/ calls[h].alone /\ Added(h) /\ unrepaired' = unrepaired \ {s},
           Added(h) => s \in unrepaired' \/ spaces[s].identity = AclNow(s).owner
    PROVE  IInv'
<1>1. /\ Open(h) /\ s \in Spaces /\ h \in OpenOn(s) /\ SpaceInv(s)
      /\ (calls[h].alone => AloneInv(h, calls[h], s))
  BY OfOpenCall
<1>2. calls'[h] = NoCall /\ \A g \in Handlers \ {h} : calls'[g] = calls[g]
  BY DEF IInv, TypeOK
<1>3. ~Open(h)'
  BY <1>2 DEF Open
<1>4. StepOf(h, s)
  BY <1>2, <1>3 DEF StepOf
<1>5. acl'[s] # <<>> /\ spaces'[s].identity \in Identities
  BY <1>1 DEF SpaceInv
<1>6. ASSUME calls[h].alone PROVE SpaceInv(s)'
  <2>1. OpenOn(s) = {h} /\ OpenOn(s)' = {}
    BY <1>1, <1>3, <1>4, <1>6, OpenOfOthers DEF AloneInv
  <2>2. AclNow(s)' = AclNow(s) /\ (IsEmpty(AclNow(s))' <=> IsEmpty(AclNow(s)))
    BY DEF AclNow, IsEmpty
  <2>3. (Chained(s)' <=> Chained(s)) /\ LastOwner(s)' = LastOwner(s) /\ (Clean(s)' <=> Clean(s))
    BY DEF Chained, LastOwner, OwnerAfter, Clean
  <2>4. s \notin unrepaired' => spaces[s].identity = AclNow(s).owner
    BY <1>1, <2>1 DEF SpaceInv
  <2>5. Clean(s) => Chained(s) /\ spaces[s].identity = LastOwner(s)
    BY <1>1, <2>1 DEF SpaceInv
  <2>. QED
    BY <1>1, <2>1, <2>2, <2>3, <2>4, <2>5 DEF SpaceInv
<1>. QED
  BY <1>1, <1>3, <1>4, <1>5, <1>6, CallStep

\* A call that goes on, likewise.
LEMMA QuietMove ==
    ASSUME IInv, TypeOK', NEW h \in Handlers, calls[h].at \notin {"idle", "log"},
           NEW s, s = calls[h].space,
           UNCHANGED <<spaces, acl, ownership, overlapped, failed, unrepaired>>,
           \A g \in Handlers \ {h} : calls'[g] = calls[g],
           calls'[h] \in Call, calls'[h].at \in PointsOf(calls'[h].op),
           calls'[h].space = s, calls'[h].alone = calls[h].alone,
           calls'[h].identity = calls[h].identity, calls'[h].record = calls[h].record,
           calls'[h].at \notin {"append", "log"}, Added(h)' <=> Added(h),
           calls'[h].at = "unshare" => IsEmpty(AclNow(s)),
           calls'[h].at = "change" => /\ calls'[h].owner = AclNow(s).owner
                                      /\ calls'[h].owner # calls[h].identity
    PROVE  IInv'
<1>1. /\ Open(h) /\ s \in Spaces /\ h \in OpenOn(s) /\ SpaceInv(s)
      /\ (calls[h].alone => AloneInv(h, calls[h], s))
  BY OfOpenCall
<1>3. Open(h)'
  BY NoCallIsIdle DEF Open
<1>4. StepOf(h, s)
  BY DEF StepOf
<1>5. acl'[s] # <<>> /\ spaces'[s].identity \in Identities
  BY <1>1 DEF SpaceInv
<1>6. ASSUME calls[h].alone PROVE SpaceInv(s)' /\ AloneInv(h, calls[h], s)'
  <2>1. OpenOn(s) = {h} /\ OpenOn(s)' = {h}
    BY <1>1, <1>3, <1>4, <1>6, OpenOfOthers DEF AloneInv
  <2>2. AclNow(s)' = AclNow(s) /\ (IsEmpty(AclNow(s))' <=> IsEmpty(AclNow(s)))
    BY DEF AclNow, IsEmpty
  <2>3. (Chained(s)' <=> Chained(s)) /\ LastOwner(s)' = LastOwner(s) /\ (Clean(s)' <=> Clean(s))
    BY DEF Chained, LastOwner, OwnerAfter, Clean
  <2>4. s \notin unrepaired => spaces[s].identity = AclNow(s).owner \/ Added(h)
    BY <1>1, <2>1 DEF SpaceInv
  <2>5. Clean(s) => Chained(s) /\ spaces[s].identity = LastOwner(s)
    BY <1>1, <2>1 DEF SpaceInv
  <2>6. SpaceInv(s)'
    BY <1>1, <2>1, <2>2, <2>3, <2>4, <2>5 DEF SpaceInv
  <2>7. AloneInv(h, calls[h], s)'
    BY <1>1, <1>6, <2>1, <2>2 DEF AloneInv
  <2>. QED
    BY <2>6, <2>7
<1>. QED
  BY <1>1, <1>4, <1>5, <1>6, CallStep

\* A call that writes the document, and no more, and goes on.
LEMMA DocumentMove ==
    ASSUME IInv, TypeOK', NEW h \in Handlers, calls[h].at # "idle",
           NEW s, s = calls[h].space,
           UNCHANGED <<acl, ownership, overlapped, failed, unrepaired>>,
           \A r \in Spaces \ {s} : spaces'[r] = spaces[r],
           \A g \in Handlers \ {h} : calls'[g] = calls[g],
           calls'[h] \in Call, calls'[h].at \in PointsOf(calls'[h].op),
           calls'[h].space = s, calls'[h].alone = calls[h].alone,
           spaces'[s].identity \in Identities,
           calls[h].alone => SpaceInv(s)' /\ AloneInv(h, calls[h], s)'
    PROVE  IInv'
<1>1. Open(h) /\ s \in Spaces /\ SpaceInv(s)
  BY OfOpenCall
<1>2. Open(h)'
  BY NoCallIsIdle DEF Open
<1>3. StepOf(h, s)
  BY DEF StepOf
<1>4. acl'[s] # <<>>
  BY <1>1 DEF SpaceInv
<1>. QED
  BY <1>1, <1>3, <1>4, CallStep

----------------------------------------------------------------------------
(* The actions of a call.                                                   *)

LEMMA RefuseInv ==
    ASSUME IInv, NEW h \in Handlers, calls[h].at \in {"append", "share", "check", "unshare"},
           Refuse(h)
    PROVE  IInv'
<1>1. PICK s : s = calls[h].space
  OBVIOUS
<1>2. calls[h].at \in PointsOf(calls[h].op)
  BY OfOpenCall
<1>3. ~Added(h)
  BY <1>2 DEF Added, PointsOf
<1>4. /\ calls' = [calls EXCEPT ![h] = NoCall]
      /\ UNCHANGED <<spaces, acl, events, ownership, started, faults, overlapped, failed, unrepaired>>
  BY DEF Refuse, stores, history
<1>5. TypeOK'
  BY <1>4 DEF IInv, TypeOK
<1>. QED
  BY <1>1, <1>3, <1>4, <1>5, QuietEnd

LEMMA AddEventInv ==
    ASSUME IInv, NEW h \in Handlers, AddEvent(h) PROVE IInv'
<1>1. PICK s : s = calls[h].space
  OBVIOUS
<1>2. calls[h].at = "event"
  BY DEF AddEvent
<1>3. /\ calls[h] \in Call /\ calls[h].at \in PointsOf(calls[h].op) /\ s \in Spaces
      /\ (calls[h].alone => AloneInv(h, calls[h], s))
  BY <1>1, <1>2, OfOpenCall
<1>4. UNCHANGED <<spaces, acl, ownership>>
  BY DEF AddEvent
<1>5. calls \in [Handlers -> Call \cup {NoCall}] /\ events \in [Spaces -> Seq(Event)]
  BY DEF IInv, TypeOK
<1>6. events' \in [Spaces -> Seq(Event)]
  <2>1. calls[h].op \in {"AclAddRecord", "MakeSpaceShareable", "MakeSpaceUnshareable"}
    BY <1>3 DEF PointsOf
  <2>2. EventType(calls[h].op) \in EventTypes
    BY <2>1 DEF EventType, EventTypes
  <2>3. [type |-> EventType(calls[h].op), owner |-> calls[h].identity,
         record |-> calls[h].record] \in Event
    BY <1>3, <2>2 DEF Event, Call
  <2>. QED
    BY <1>1, <1>3, <1>5, <2>3 DEF AddEvent
<1>7. CASE calls[h].op = "AclAddRecord"
  <2>1. /\ calls' = [calls EXCEPT ![h].at = "owner"]
        /\ UNCHANGED <<started, faults, overlapped, failed, unrepaired>>
    BY <1>7 DEF AddEvent, GoOn, history
  <2>2. /\ \A g \in Handlers \ {h} : calls'[g] = calls[g]
        /\ calls'[h] = [calls[h] EXCEPT !.at = "owner"]
    BY <1>5, <2>1
  <2>3. /\ calls'[h] \in Call /\ calls'[h].at = "owner" /\ calls'[h].op = calls[h].op
        /\ calls'[h].space = s /\ calls'[h].alone = calls[h].alone
        /\ calls'[h].identity = calls[h].identity /\ calls'[h].record = calls[h].record
    BY <1>1, <1>3, <2>2 DEF Call, Points
  <2>4. TypeOK'
    <3>1. calls' \in [Handlers -> Call \cup {NoCall}]
      BY <1>5, <2>1, <2>2, <2>3
    <3>. QED
      BY <1>4, <1>6, <2>1, <3>1 DEF IInv, TypeOK
  <2>5. calls'[h].at \in PointsOf(calls'[h].op) /\ Added(h)' /\ Added(h)
    BY <1>2, <1>7, <2>3 DEF PointsOf, Added
  <2>. QED
    BY <1>1, <1>2, <1>4, <2>1, <2>2, <2>3, <2>4, <2>5, QuietMove
<1>8. CASE calls[h].op # "AclAddRecord"
  <2>1. /\ calls' = [calls EXCEPT ![h] = NoCall]
        /\ UNCHANGED <<started, faults, overlapped, failed, unrepaired>>
    BY <1>8 DEF AddEvent, Return
  <2>2. TypeOK'
    <3>1. calls' \in [Handlers -> Call \cup {NoCall}]
      BY <1>5, <2>1
    <3>. QED
      BY <1>4, <1>6, <2>1, <3>1 DEF IInv, TypeOK
  <2>3. ~Added(h)
    BY <1>8 DEF Added
  <2>. QED
    BY <1>1, <1>2, <1>4, <2>1, <2>2, <2>3, QuietEnd
<1>. QED
  BY <1>7, <1>8

\* After a call was misled the invariant says nothing of its space, nor of the calls
\* open on it: none of them counts as alone.
LEMMA MisledInv ==
    ASSUME IInv, NEW h \in Handlers, calls[h].at # "idle", NEW s, s = calls[h].space, Misled(h),
           NEW new \in Call \cup {NoCall}, calls' = [calls EXCEPT ![h] = new],
           new # NoCall => new.at \in PointsOf(new.op) /\ new.space = s /\ ~new.alone
    PROVE  IInv'
<1>1. /\ Open(h) /\ s \in Spaces /\ h \in OpenOn(s) /\ SpaceInv(s)
      /\ (calls[h].alone => AloneInv(h, calls[h], s))
  BY OfOpenCall
<1>2. calls \in [Handlers -> Call \cup {NoCall}]
  BY DEF IInv, TypeOK
<1>3. /\ UNCHANGED <<spaces, acl, events, ownership, started, faults, failed>>
      /\ overlapped' = overlapped \cup {s}
      /\ unrepaired' = unrepaired \cup {s}
  BY DEF Misled, stores
<1>4. calls'[h] = new /\ \A g \in Handlers \ {h} : calls'[g] = calls[g] /\ (Open(g)' <=> Open(g))
  BY <1>2 DEF Open
<1>5. TypeOK'
  <2>1. calls' \in [Handlers -> Call \cup {NoCall}]
    BY <1>2
  <2>2. overlapped' \in SUBSET Spaces /\ unrepaired' \in SUBSET Spaces
    BY <1>1, <1>3 DEF IInv, TypeOK
  <2>. QED
    BY <1>3, <2>1, <2>2 DEF IInv, TypeOK
<1>6. ASSUME NEW r \in Spaces \ {s}
      PROVE  OpenOn(r)' = OpenOn(r) /\ \A g \in OpenOn(r) : calls'[g] = calls[g]
  <2>1. \A g \in Handlers : Open(g)' /\ calls'[g].space = r <=> Open(g) /\ calls[g].space = r
    <3>1. Open(h)' => calls'[h].space = s
      BY <1>4 DEF Open
    <3>. QED
      BY <1>4, <3>1
  <2>2. OpenOn(r)' = OpenOn(r)
    BY <2>1, SameCallsOpen
  <2>3. h \notin OpenOn(r)
    BY DEF OpenOn
  <2>. QED
    BY <1>4, <2>2, <2>3 DEF OpenOn
<1>7. ASSUME NEW r \in Spaces PROVE SpaceInv(r)'
  <2>1. CASE r = s
    BY <1>1, <1>3, <2>1 DEF SpaceInv, Clean
  <2>2. CASE r # s
    <3>1. SpaceInv(r)
      BY DEF IInv
    <3>. QED
      BY <1>3, <1>6, <2>2, <3>1, SpaceFrame
  <2>. QED
    BY <2>1, <2>2
<1>8. ASSUME NEW g \in Handlers \ {h} PROVE CallInv(g)'
  <2>1. CallInv(g)
    BY DEF IInv
  <2>2. CASE ~Open(g)
    BY <1>4, <2>2 DEF CallInv
  <2>3. CASE Open(g) /\ calls[g].space # s
    <3>1. calls[g].space \in Spaces \ {s}
      BY <2>1, <2>3 DEF CallInv, Call
    <3>. QED
      BY <1>3, <1>4, <1>6, <2>1, <3>1, CallFrame
  <2>4. CASE Open(g) /\ calls[g].space = s
    <3>1. ~calls[g].alone
      BY <1>1, <2>1, <2>4 DEF CallInv, AloneInv
    <3>. QED
      BY <1>3, <1>4, <2>1, <2>4, <3>1 DEF CallInv
  <2>. QED
    BY <2>2, <2>3, <2>4
<1>9. CallInv(h)'
  BY <1>3, <1>4 DEF CallInv, Open
<1>. QED
  BY <1>5, <1>7, <1>8, <1>9 DEF IInv

LEMMA ReadFormerOwnerInv ==
    ASSUME IInv, NEW h \in Handlers, ReadFormerOwner(h) PROVE IInv'
<1>1. PICK s : s = calls[h].space
  OBVIOUS
<1>2. calls[h].at = "owner" /\ Misled(h)
  BY DEF ReadFormerOwner
<1>3. /\ calls[h] \in Call /\ calls[h].at \in PointsOf(calls[h].op) /\ s \in Spaces
  BY <1>1, <1>2, OfOpenCall
<1>4. PICK n \in 1 .. Len(acl[s]) :
          calls' = [calls EXCEPT ![h] =
              IF OwnerChanged(calls[h], acl[s][n].owner)
              THEN [calls[h] EXCEPT !.at = "change", !.owner = acl[s][n].owner, !.alone = FALSE]
              ELSE NoCall]
  BY <1>1 DEF ReadFormerOwner, Views
<1>5. acl[s][n].owner \in Identities
  <2>1. acl[s] \in Seq(AclState)
    BY <1>3 DEF IInv, TypeOK
  <2>2. acl[s][n] \in AclState
    BY <2>1
  <2>. QED
    BY <2>2 DEF AclState
<1>6. calls[h].op = "AclAddRecord"
  BY <1>2, <1>3 DEF PointsOf
<1>7. CASE OwnerChanged(calls[h], acl[s][n].owner)
  <2>1. PICK o \in Identities : o = acl[s][n].owner
    BY <1>5
  <2>2. PICK new : new = [calls[h] EXCEPT !.at = "change", !.owner = o, !.alone = FALSE]
    OBVIOUS
  <2>3. new \in Call /\ new.at = "change" /\ new.op = calls[h].op /\ new.space = s /\ ~new.alone
    BY <1>1, <1>3, <2>1, <2>2 DEF Call, Points
  <2>4. new.at \in PointsOf(new.op)
    BY <1>6, <2>3 DEF PointsOf
  <2>5. calls' = [calls EXCEPT ![h] = new]
    BY <1>4, <1>7, <2>1, <2>2
  <2>. QED
    BY <1>1, <1>2, <2>3, <2>4, <2>5, MisledInv
<1>8. CASE ~OwnerChanged(calls[h], acl[s][n].owner)
  <2>1. calls' = [calls EXCEPT ![h] = NoCall]
    BY <1>4, <1>8
  <2>. QED
    BY <1>1, <1>2, <2>1, MisledInv
<1>. QED
  BY <1>7, <1>8

LEMMA CheckOlderHeadInv ==
    ASSUME IInv, NEW h \in Handlers, CheckOlderHead(h) PROVE IInv'
<1>1. PICK s : s = calls[h].space
  OBVIOUS
<1>2. /\ calls[h].at = "check" /\ Misled(h)
      /\ calls' = [calls EXCEPT ![h].at = "unshare", ![h].alone = FALSE]
  BY DEF CheckOlderHead
<1>3. /\ calls[h] \in Call /\ calls[h].at \in PointsOf(calls[h].op)
      /\ calls \in [Handlers -> Call \cup {NoCall}]
  BY <1>2, OfOpenCall DEF IInv, TypeOK
<1>4. PICK new : new = [calls[h] EXCEPT !.at = "unshare", !.alone = FALSE]
  OBVIOUS
<1>5. new \in Call /\ new.at = "unshare" /\ new.op = calls[h].op /\ new.space = s /\ ~new.alone
  BY <1>1, <1>3, <1>4 DEF Call, Points
<1>6. new.at \in PointsOf(new.op)
  BY <1>2, <1>3, <1>5 DEF PointsOf
<1>7. calls' = [calls EXCEPT ![h] = new]
  BY <1>2, <1>3, <1>4
<1>. QED
  BY <1>1, <1>2, <1>5, <1>6, <1>7, MisledInv

LEMMA ReadOwnerInv ==
    ASSUME IInv, NEW h \in Handlers, ReadOwner(h) PROVE IInv'
<1>1. PICK s : s = calls[h].space
  OBVIOUS
<1>2. calls[h].at = "owner"
  BY DEF ReadOwner
<1>3. /\ calls[h] \in Call /\ calls[h].at \in PointsOf(calls[h].op) /\ s \in Spaces
      /\ SpaceInv(s)
      /\ IF calls[h].alone THEN AloneInv(h, calls[h], s) ELSE s \in overlapped \cap unrepaired
  BY <1>1, <1>2, OfOpenCall
<1>4. UNCHANGED <<spaces, acl, events, ownership>>
  BY DEF ReadOwner, stores
<1>5. calls \in [Handlers -> Call \cup {NoCall}]
  BY DEF IInv, TypeOK
<1>6. calls[h].op = "AclAddRecord" /\ Added(h)
  BY <1>2, <1>3 DEF PointsOf, Added
<1>7. CASE OwnerChanged(calls[h], AclNow(calls[h].space).owner)
  <2>1. /\ calls' = [calls EXCEPT ![h].at = "change", ![h].owner = AclNow(s).owner]
        /\ UNCHANGED <<started, faults, overlapped, failed, unrepaired>>
        /\ AclNow(s).owner # calls[h].identity
    BY <1>1, <1>7 DEF ReadOwner, history, OwnerChanged
  <2>2. AclNow(s).owner \in Identities
    BY <1>3, AclNowType DEF SpaceInv, IInv, TypeOK, AclState
  <2>3. PICK o \in Identities : o = AclNow(s).owner
    BY <2>2
  <2>4. /\ \A g \in Handlers \ {h} : calls'[g] = calls[g]
        /\ calls'[h] = [calls[h] EXCEPT !.at = "change", !.owner = o]
    BY <1>5, <2>1, <2>3
  <2>5. /\ calls'[h] \in Call /\ calls'[h].at = "change" /\ calls'[h].op = calls[h].op
        /\ calls'[h].space = s /\ calls'[h].alone = calls[h].alone /\ calls'[h].owner = o
        /\ calls'[h].identity = calls[h].identity /\ calls'[h].record = calls[h].record
    BY <1>1, <1>3, <2>4 DEF Call, Points
  <2>6. TypeOK'
    <3>1. calls' \in [Handlers -> Call \cup {NoCall}]
      BY <1>5, <2>1, <2>4, <2>5
    <3>. QED
      BY <1>4, <2>1, <3>1 DEF IInv, TypeOK
  <2>7. calls'[h].at \in PointsOf(calls'[h].op) /\ Added(h)'
    BY <1>6, <2>5 DEF PointsOf, Added
  <2>8. calls'[h].owner = AclNow(s).owner /\ calls'[h].owner # calls[h].identity
    BY <2>1, <2>3, <2>5
  <2>9. calls[h].at \notin {"idle", "log"}
    BY <1>2
  <2>10. calls'[h].at \notin {"append", "log", "unshare"}
    BY <2>5
  <2>11. UNCHANGED <<spaces, acl, ownership, overlapped, failed, unrepaired>>
    BY <1>4, <2>1
  <2>. QED
    BY <1>1, <1>6, <2>4, <2>5, <2>6, <2>7, <2>8, <2>9, <2>10, <2>11, QuietMove
<1>8. CASE ~OwnerChanged(calls[h], AclNow(calls[h].space).owner)
  <2>1. /\ calls' = [calls EXCEPT ![h] = NoCall]
        /\ UNCHANGED <<started, faults, overlapped, failed>>
        /\ unrepaired' = IF calls[h].alone THEN unrepaired \ {s} ELSE unrepaired
        /\ AclNow(s).owner = calls[h].identity
    BY <1>1, <1>6, <1>8 DEF ReadOwner, Return, OwnerChanged
  <2>2. TypeOK'
    <3>1. calls' \in [Handlers -> Call \cup {NoCall}]
      BY <1>5, <2>1
    <3>. QED
      BY <1>4, <2>1, <3>1 DEF IInv, TypeOK
  <2>3. s \in unrepaired' \/ spaces[s].identity = AclNow(s).owner
    BY <1>2, <1>3, <2>1 DEF AloneInv
  <2>. QED
    BY <1>1, <1>2, <1>4, <1>6, <2>1, <2>2, <2>3, QuietEnd
<1>. QED
  BY <1>7, <1>8

LEMMA CheckEmptyInv ==
    ASSUME IInv, NEW h \in Handlers, CheckEmpty(h) PROVE IInv'
<1>1. PICK s : s = calls[h].space
  OBVIOUS
<1>2. calls[h].at = "check"
  BY DEF CheckEmpty
<1>3. /\ calls[h] \in Call /\ calls[h].at \in PointsOf(calls[h].op) /\ s \in Spaces
  BY <1>1, <1>2, OfOpenCall
<1>5. calls \in [Handlers -> Call \cup {NoCall}]
  BY DEF IInv, TypeOK
<1>6. calls[h].op = "MakeSpaceUnshareable"
  BY <1>2, <1>3 DEF PointsOf
<1>7. ASSUME GoOn(h, "unshare"), UNCHANGED stores, IsEmpty(AclNow(s)) PROVE IInv'
  <2>1. /\ calls' = [calls EXCEPT ![h].at = "unshare"]
        /\ UNCHANGED <<spaces, acl, events, ownership, started, faults, overlapped, failed, unrepaired>>
    BY <1>7 DEF GoOn, stores, history
  <2>2. /\ \A g \in Handlers \ {h} : calls'[g] = calls[g]
        /\ calls'[h] = [calls[h] EXCEPT !.at = "unshare"]
    BY <1>5, <2>1
  <2>3. /\ calls'[h] \in Call /\ calls'[h].at = "unshare" /\ calls'[h].op = calls[h].op
        /\ calls'[h].space = s /\ calls'[h].alone = calls[h].alone
        /\ calls'[h].identity = calls[h].identity /\ calls'[h].record = calls[h].record
    BY <1>1, <1>3, <2>2 DEF Call, Points
  <2>4. TypeOK'
    <3>1. calls' \in [Handlers -> Call \cup {NoCall}]
      BY <1>5, <2>1, <2>2, <2>3
    <3>. QED
      BY <2>1, <3>1 DEF IInv, TypeOK
  <2>5. calls'[h].at \in PointsOf(calls'[h].op) /\ ~Added(h)' /\ ~Added(h) /\ IsEmpty(AclNow(s))
    BY <1>6, <1>7, <2>3 DEF PointsOf, Added
  <2>. QED
    BY <1>1, <1>2, <2>1, <2>2, <2>3, <2>4, <2>5, QuietMove
<1>8. ASSUME Refuse(h) PROVE IInv'
  BY <1>2, <1>8, RefuseInv
<1>9. \/ Refuse(h)
      \/ GoOn(h, "unshare") /\ (UNCHANGED stores) /\ IsEmpty(AclNow(s))
  <2>1. PICK head \in 1 .. Len(acl[s]) + 1, n \in Views(s) :
            \/ Refuse(h)
            \/ /\ EmptyAt(s, head, n)
               /\ head = Len(acl[s]) \/ IsEmpty(AclNow(s))
               /\ GoOn(h, "unshare")
               /\ UNCHANGED stores
    BY <1>1 DEF CheckEmpty
  <2>2. ASSUME EmptyAt(s, head, n), head = Len(acl[s]) PROVE IsEmpty(AclNow(s))
    <3>1. Len(acl[s]) \in Nat
      BY <1>3 DEF IInv, TypeOK
    <3>2. n = Len(acl[s])
      BY <2>2, <3>1 DEF EmptyAt, Views
    <3>. QED
      BY <2>2, <3>2 DEF EmptyAt, AclNow
  <2>. QED
    BY <2>1, <2>2
<1>. QED
  BY <1>7, <1>8, <1>9

LEMMA ChangeOwnerInv ==
    ASSUME IInv, NEW h \in Handlers, ChangeOwner(h) PROVE IInv'
<1>1. PICK s : s = calls[h].space
  OBVIOUS
<1>2. calls[h].at = "change"
  BY DEF ChangeOwner
<1>3. /\ Open(h) /\ calls[h] \in Call /\ calls[h].at \in PointsOf(calls[h].op) /\ s \in Spaces
      /\ h \in OpenOn(s) /\ SpaceInv(s)
      /\ (calls[h].alone => AloneInv(h, calls[h], s))
  BY <1>1, <1>2, OfOpenCall
<1>4. calls \in [Handlers -> Call \cup {NoCall}] /\ spaces \in [Spaces -> Doc]
  BY DEF IInv, TypeOK
<1>5. calls[h].op = "AclAddRecord" /\ Added(h)
  BY <1>2, <1>3 DEF PointsOf, Added
<1>6. /\ spaces' = [spaces EXCEPT ![s].identity = calls[h].owner]
      /\ calls' = [calls EXCEPT ![h].at = "log"]
      /\ UNCHANGED <<acl, events, ownership, started, faults, overlapped, failed, unrepaired>>
  BY <1>1 DEF ChangeOwner, GoOn, history
<1>7. /\ \A g \in Handlers \ {h} : calls'[g] = calls[g]
      /\ calls'[h] = [calls[h] EXCEPT !.at = "log"]
  BY <1>4, <1>6
<1>8. /\ calls'[h] \in Call /\ calls'[h].at = "log" /\ calls'[h].op = calls[h].op
      /\ calls'[h].space = s /\ calls'[h].alone = calls[h].alone
      /\ calls'[h].identity = calls[h].identity /\ calls'[h].record = calls[h].record
      /\ calls'[h].owner = calls[h].owner
  BY <1>1, <1>3, <1>7 DEF Call, Points
<1>9. /\ spaces' \in [Spaces -> Doc] /\ \A r \in Spaces \ {s} : spaces'[r] = spaces[r]
      /\ spaces'[s].identity = calls[h].owner /\ spaces'[s].identity \in Identities
      /\ spaces'[s].shareable = spaces[s].shareable
  <2>1. PICK o \in Identities : o = calls[h].owner
    BY <1>3 DEF Call
  <2>2. spaces'[s] = [spaces[s] EXCEPT !.identity = o]
    BY <1>3, <1>4, <1>6, <2>1
  <2>3. spaces'[s] \in Doc /\ spaces'[s].identity = o /\ spaces'[s].shareable = spaces[s].shareable
    BY <1>3, <1>4, <2>2 DEF Doc
  <2>. QED
    BY <1>3, <1>4, <1>6, <2>1, <2>3
<1>10. TypeOK'
  <2>1. calls' \in [Handlers -> Call \cup {NoCall}]
    BY <1>4, <1>6, <1>7, <1>8
  <2>. QED
    BY <1>6, <1>9, <2>1 DEF IInv, TypeOK
<1>11. calls'[h].at \in PointsOf(calls'[h].op) /\ Added(h)'
  BY <1>5, <1>8 DEF PointsOf, Added
<1>12. ASSUME calls[h].alone PROVE SpaceInv(s)' /\ AloneInv(h, calls[h], s)'
  <2>1. /\ OpenOn(s) = {h} /\ calls[h].identity = spaces[s].identity
        /\ calls[h].record = Len(acl[s])
        /\ calls[h].owner = AclNow(s).owner /\ calls[h].owner # calls[h].identity
    BY <1>2, <1>3, <1>5, <1>12 DEF AloneInv
  <2>2. OpenOn(s)' = {h}
    <3>1. StepOf(h, s) /\ Open(h)'
      BY <1>6, <1>7, <1>8, <1>9, <1>11, NoCallIsIdle DEF StepOf, Open
    <3>. QED
      BY <1>1, <1>3, <2>1, <3>1, OpenOfOthers
  <2>3. AclNow(s)' = AclNow(s) /\ (IsEmpty(AclNow(s))' <=> IsEmpty(AclNow(s)))
    BY <1>6 DEF AclNow, IsEmpty
  <2>4. (Chained(s)' <=> Chained(s)) /\ LastOwner(s)' = LastOwner(s) /\ (Clean(s)' <=> Clean(s))
    BY <1>6 DEF Chained, LastOwner, OwnerAfter, Clean
  <2>5. Clean(s) => Chained(s) /\ calls[h].identity = LastOwner(s)
    BY <1>2, <1>3, <2>1 DEF SpaceInv
  <2>6. SpaceInv(s)'
    BY <1>3, <1>6, <1>8, <1>9, <2>1, <2>2, <2>3, <2>4, <2>5 DEF SpaceInv
  <2>7. AloneInv(h, calls[h], s)'
    BY <1>6, <1>8, <1>9, <2>1, <2>2, <2>3, <2>4, <2>5 DEF AloneInv
  <2>. QED
    BY <2>6, <2>7
<1>. QED
  BY <1>1, <1>2, <1>6, <1>7, <1>8, <1>9, <1>10, <1>11, <1>12, DocumentMove

\* A record that names the owner before and a record of the ACL with another owner
\* makes the chain one longer.
LEMMA ChainGrows ==
    ASSUME NEW s \in Spaces, Chained(s), ownership[s] \in Seq(OwnershipChange),
           UNCHANGED acl, NEW change \in OwnershipChange,
           ownership'[s] = Append(ownership[s], change),
           change.record \in 1 .. Len(acl[s]), change.group = LastOwner(s),
           change.group # acl[s][change.record].owner
    PROVE  Chained(s)' /\ LastOwner(s)' = acl[s][change.record].owner
<1>0. PICK m \in Nat : m = Len(ownership[s])
  OBVIOUS
<1>1. /\ Len(ownership'[s]) = m + 1 /\ ownership'[s][m + 1] = change
      /\ \A n \in 1 .. m : ownership'[s][n] = ownership[s][n]
  BY <1>0
<1>2. \A n \in 0 .. m : OwnerAfter(s, n)' = OwnerAfter(s, n)
  BY <1>1 DEF OwnerAfter
<1>3. OwnerAfter(s, m + 1)' = acl[s][change.record].owner
  BY <1>1 DEF OwnerAfter
<1>4. LastOwner(s)' = acl[s][change.record].owner
  BY <1>1, <1>3 DEF LastOwner
<1>5. Chained(s)'
  <2>. SUFFICES ASSUME NEW n \in 1 .. m + 1
                PROVE  /\ ownership'[s][n].record \in 1 .. Len(acl[s])
                       /\ ownership'[s][n].group = OwnerAfter(s, n - 1)'
                       /\ ownership'[s][n].group # OwnerAfter(s, n)'
    BY <1>1 DEF Chained
  <2>1. CASE n = m + 1
    <3>1. OwnerAfter(s, n - 1)' = LastOwner(s)
      BY <1>0, <1>2, <2>1 DEF LastOwner
    <3>. QED
      BY <1>1, <1>3, <2>1, <3>1
  <2>2. CASE n \in 1 .. m
    <3>1. OwnerAfter(s, n - 1)' = OwnerAfter(s, n - 1) /\ OwnerAfter(s, n)' = OwnerAfter(s, n)
      <4>1. n \in 0 .. m /\ n - 1 \in 0 .. m
        BY <2>2
      <4>. QED
        BY <4>1, <1>2
    <3>2. /\ ownership[s][n].record \in 1 .. Len(acl[s])
          /\ ownership[s][n].group = OwnerAfter(s, n - 1)
          /\ ownership[s][n].group # OwnerAfter(s, n)
      BY <1>0, <2>2 DEF Chained
    <3>. QED
      BY <1>1, <2>2, <3>1, <3>2
  <2>. QED
    BY <1>0, <2>1, <2>2
<1>. QED
  BY <1>4, <1>5

LEMMA AddOwnershipChangeInv ==
    ASSUME IInv, NEW h \in Handlers, AddOwnershipChange(h) PROVE IInv'
<1>1. PICK s : s = calls[h].space
  OBVIOUS
<1>2. calls[h].at = "log"
  BY DEF AddOwnershipChange
<1>3. /\ Open(h) /\ calls[h] \in Call /\ calls[h].at \in PointsOf(calls[h].op) /\ s \in Spaces
      /\ h \in OpenOn(s) /\ SpaceInv(s)
      /\ (calls[h].alone => AloneInv(h, calls[h], s))
  BY <1>1, <1>2, OfOpenCall
<1>4. /\ calls \in [Handlers -> Call \cup {NoCall}]
      /\ ownership \in [Spaces -> Seq(OwnershipChange)]
      /\ acl[s] # <<>> /\ Len(acl[s]) \in Nat \ {0}
  BY <1>3, AclNowType DEF IInv, TypeOK, SpaceInv
<1>5. calls[h].op = "AclAddRecord" /\ Added(h)
  BY <1>2, <1>3 DEF PointsOf, Added
<1>6. /\ ownership' = [ownership EXCEPT ![s] = Append(@, Change(calls[h]))]
      /\ calls' = [calls EXCEPT ![h] = NoCall]
      /\ unrepaired' = IF calls[h].alone THEN unrepaired \ {s} ELSE unrepaired
      /\ UNCHANGED <<spaces, acl, events, started, faults, overlapped, failed>>
  BY <1>1, <1>5 DEF AddOwnershipChange, Return
<1>7. \A g \in Handlers \ {h} : calls'[g] = calls[g]
  BY <1>4, <1>6
<1>8. calls'[h] = NoCall /\ ~Open(h)'
  BY <1>4, <1>6 DEF Open
<1>9. /\ Change(calls[h]) \in OwnershipChange
      /\ Change(calls[h]).group = calls[h].identity
      /\ Change(calls[h]).record = calls[h].record
  BY <1>3 DEF Change, OwnershipChange, Call
<1>10. PICK change \in OwnershipChange :
           /\ change = Change(calls[h])
           /\ change.group = calls[h].identity /\ change.record = calls[h].record
  BY <1>9
<1>11. /\ ownership'[s] = Append(ownership[s], change)
       /\ ownership' \in [Spaces -> Seq(OwnershipChange)]
       /\ \A r \in Spaces \ {s} : ownership'[r] = ownership[r]
  BY <1>3, <1>4, <1>6, <1>10
<1>12. TypeOK'
  <2>1. calls' \in [Handlers -> Call \cup {NoCall}]
    BY <1>4, <1>6
  <2>. QED
    BY <1>6, <1>11, <2>1 DEF IInv, TypeOK
<1>13. StepOf(h, s)
  BY <1>6, <1>7, <1>8, <1>11 DEF StepOf
<1>14. ASSUME calls[h].alone PROVE SpaceInv(s)'
  <2>1. /\ OpenOn(s) = {h} /\ calls[h].record = Len(acl[s])
        /\ calls[h].owner = AclNow(s).owner /\ calls[h].owner # calls[h].identity
        /\ calls[h].owner = spaces[s].identity
        /\ Clean(s) => calls[h].identity = LastOwner(s)
    BY <1>2, <1>3, <1>5, <1>14 DEF AloneInv
  <2>2. AclNow(s)' = AclNow(s) /\ (IsEmpty(AclNow(s))' <=> IsEmpty(AclNow(s)))
    BY <1>6 DEF AclNow, IsEmpty
  <2>3. Clean(s)' <=> Clean(s)
    BY <1>6 DEF Clean
  <2>4. Clean(s) => Chained(s)' /\ LastOwner(s)' = acl[s][change.record].owner
    <3>1. /\ Clean(s) => Chained(s)
          /\ ownership[s] \in Seq(OwnershipChange) /\ UNCHANGED acl
          /\ change.record \in 1 .. Len(acl[s])
      BY <1>3, <1>4, <1>6, <1>10, <2>1 DEF SpaceInv
    <3>2. Clean(s) => change.group = LastOwner(s)
      BY <1>10, <2>1
    <3>3. change.group # acl[s][change.record].owner
      BY <1>10, <2>1 DEF AclNow
    <3>. QED
      BY <1>3, <1>11, <3>1, <3>2, <3>3, ChainGrows
  <2>5. acl[s][change.record].owner = spaces[s].identity
    BY <1>10, <2>1 DEF AclNow
  <2>. QED
    BY <1>3, <1>6, <2>1, <2>2, <2>3, <2>4, <2>5 DEF SpaceInv
<1>15. acl'[s] # <<>> /\ spaces'[s].identity \in Identities
  BY <1>3, <1>6 DEF SpaceInv
<1>. QED
  BY <1>1, <1>3, <1>8, <1>12, <1>13, <1>14, <1>15, CallStep

\* What both transactions do when they commit.
LEMMA SharingInv ==
    ASSUME IInv, NEW h \in Handlers, calls[h].at \in {"share", "unshare"},
           NEW s, s = calls[h].space,
           NEW limit, NEW outcome,
           outcome \in {MakeShareable(spaces, s, limit), MakeUnshareable(spaces, s)},
           calls[h].at = "share" => outcome = MakeShareable(spaces, s, limit),
           outcome.err = "ok", Transaction(h, outcome)
    PROVE  IInv'
<1>3. /\ Open(h) /\ calls[h] \in Call /\ calls[h].at \in PointsOf(calls[h].op) /\ s \in Spaces
      /\ h \in OpenOn(s) /\ SpaceInv(s)
      /\ (calls[h].alone => AloneInv(h, calls[h], s))
  BY OfOpenCall
<1>4. calls \in [Handlers -> Call \cup {NoCall}] /\ spaces \in [Spaces -> Doc]
  BY DEF IInv, TypeOK
<1>5. calls[h].op \in {"MakeSpaceShareable", "MakeSpaceUnshareable"}
  BY <1>3 DEF PointsOf
<1>6. /\ spaces' = Overlay(spaces, outcome.writes)
      /\ calls' = [calls EXCEPT ![h].at = "event"]
      /\ UNCHANGED <<acl, events, ownership, started, faults, overlapped, failed, unrepaired>>
  BY DEF Transaction, GoOn, history
<1>7. /\ spaces' \in [Spaces -> Doc]
      /\ \A r \in Spaces \ {s} : spaces'[r] = spaces[r]
      /\ spaces'[s].identity = spaces[s].identity
      /\ calls[h].at = "share" => spaces'[s].shareable
  BY <1>3, <1>4, <1>6, Shares
<1>8. /\ \A g \in Handlers \ {h} : calls'[g] = calls[g]
      /\ calls'[h] = [calls[h] EXCEPT !.at = "event"]
  BY <1>4, <1>6
<1>9. /\ calls'[h] \in Call /\ calls'[h].at = "event" /\ calls'[h].op = calls[h].op
      /\ calls'[h].space = s /\ calls'[h].alone = calls[h].alone
      /\ calls'[h].identity = calls[h].identity
  BY <1>3, <1>8 DEF Call, Points
<1>10. TypeOK'
  <2>1. calls' \in [Handlers -> Call \cup {NoCall}]
    BY <1>4, <1>6, <1>8, <1>9
  <2>. QED
    BY <1>6, <1>7, <2>1 DEF IInv, TypeOK
<1>11. calls'[h].at \in PointsOf(calls'[h].op) /\ ~Added(h)' /\ ~Added(h)
  BY <1>5, <1>9 DEF PointsOf, Added
<1>12. ASSUME calls[h].alone PROVE SpaceInv(s)' /\ AloneInv(h, calls[h], s)'
  <2>1. /\ OpenOn(s) = {h} /\ calls[h].identity = spaces[s].identity
        /\ calls[h].at = "unshare" => IsEmpty(AclNow(s))
    BY <1>3, <1>12 DEF AloneInv
  <2>2. OpenOn(s)' = {h}
    <3>1. StepOf(h, s) /\ Open(h)'
      BY <1>6, <1>7, <1>8, <1>9, <1>11, NoCallIsIdle DEF StepOf, Open
    <3>. QED
      BY <1>3, <2>1, <3>1, OpenOfOthers
  <2>3. AclNow(s)' = AclNow(s) /\ (IsEmpty(AclNow(s))' <=> IsEmpty(AclNow(s)))
    BY <1>6 DEF AclNow, IsEmpty
  <2>4. (Chained(s)' <=> Chained(s)) /\ LastOwner(s)' = LastOwner(s) /\ (Clean(s)' <=> Clean(s))
    BY <1>6 DEF Chained, LastOwner, OwnerAfter, Clean
  <2>5. Clean(s) => Chained(s) /\ spaces[s].identity = LastOwner(s)
    BY <1>3, <2>1 DEF SpaceInv
  <2>6. ~spaces'[s].shareable => IsEmpty(AclNow(s))
    BY <1>7, <2>1
  <2>7. s \notin unrepaired => spaces[s].identity = AclNow(s).owner
    BY <1>3, <1>11, <2>1 DEF SpaceInv
  <2>8. SpaceInv(s)'
    BY <1>3, <1>6, <1>7, <2>2, <2>3, <2>4, <2>5, <2>6, <2>7 DEF SpaceInv
  <2>9. AloneInv(h, calls[h], s)'
    BY <1>7, <1>9, <1>11, <2>1, <2>2 DEF AloneInv
  <2>. QED
    BY <2>8, <2>9
<1>13. spaces'[s].identity \in Identities
  BY <1>3, <1>7 DEF SpaceInv
<1>. QED
  BY <1>6, <1>7, <1>8, <1>9, <1>10, <1>11, <1>12, <1>13, DocumentMove

LEMMA TransactionsInv ==
    ASSUME IInv, NEW h \in Handlers, Share(h) \/ Unshare(h) PROVE IInv'
<1>1. PICK s : s = calls[h].space
  OBVIOUS
<1>2. ASSUME Share(h) PROVE IInv'
  <2>1. calls[h].at = "share" /\ \E limit : Transaction(h, MakeShareable(spaces, s, limit))
    BY <1>1, <1>2 DEF Share
  <2>2. PICK limit : Transaction(h, MakeShareable(spaces, s, limit))
    BY <2>1
  <2>3. CASE MakeShareable(spaces, s, limit).err = "ok"
    BY <1>1, <2>1, <2>2, <2>3, SharingInv
  <2>4. CASE MakeShareable(spaces, s, limit).err # "ok"
    BY <2>1, <2>2, <2>4, RefuseInv DEF Transaction
  <2>. QED
    BY <2>3, <2>4
<1>3. ASSUME Unshare(h) PROVE IInv'
  <2>1. calls[h].at = "unshare" /\ Transaction(h, MakeUnshareable(spaces, s))
    BY <1>1, <1>3 DEF Unshare
  <2>2. CASE MakeUnshareable(spaces, s).err = "ok"
    BY <1>1, <2>1, <2>2, SharingInv
  <2>3. CASE MakeUnshareable(spaces, s).err # "ok"
    BY <2>1, <2>3, RefuseInv DEF Transaction
  <2>. QED
    BY <2>2, <2>3
<1>. QED
  BY <1>2, <1>3

----------------------------------------------------------------------------
(* Calls that begin, and what the environment does.                         *)

LEMMA StartInv ==
    ASSUME IInv, NEW h \in Handlers, NEW s \in Spaces, NEW op \in Ops, NEW at \in Points,
           Start(h, op, s, at), at \in PointsOf(op),
           at \in {"append", "share", "check"},
           at = "append" => spaces[s].shareable
    PROVE  IInv'
<1>1. PICK others : others = OpenOn(s)
  OBVIOUS
<1>2. PICK new : new = [op |-> op, at |-> at, space |-> s,
                        identity |-> spaces[s].identity, record |-> 0,
                        owner |-> spaces[s].identity, alone |-> others = {}]
  OBVIOUS
<1>3. /\ ~Open(h) /\ started < MaxCalls /\ started' = started + 1
      /\ calls' = [g \in Handlers |->
              IF g = h THEN new
              ELSE IF g \in others THEN [calls[g] EXCEPT !.alone = FALSE]
              ELSE calls[g]]
      /\ overlapped' = overlapped \cup (IF others = {} THEN {} ELSE {s})
      /\ unrepaired' = unrepaired \cup (IF others = {} THEN {} ELSE {s})
      /\ UNCHANGED <<spaces, acl, events, ownership, faults, failed>>
  BY <1>1, <1>2 DEF Start, stores
<1>4. SpaceInv(s) /\ \A g \in Handlers : CallInv(g)
  BY DEF IInv
<1>5. /\ new \in Call /\ new.at = at /\ new.op = op /\ new.space = s
      /\ new.identity = spaces[s].identity /\ (new.alone <=> others = {}) /\ new # NoCall
  <2>1. PICK i \in Identities : i = spaces[s].identity
    BY <1>4 DEF SpaceInv
  <2>2. PICK b \in BOOLEAN : b = (others = {})
    OBVIOUS
  <2>3. new = [op |-> op, at |-> at, space |-> s, identity |-> i, record |-> 0,
               owner |-> i, alone |-> b]
    BY <1>2, <2>1, <2>2
  <2>4. new \in Call /\ new.at = at /\ new.op = op /\ new.space = s /\ new.identity = i
        /\ new.alone = b
    BY <2>3 DEF Call
  <2>5. new # NoCall
    BY <2>4, NoCallIsIdle
  <2>. QED
    BY <2>1, <2>2, <2>4, <2>5
<1>6. calls'[h] = new /\ Open(h)' /\ h \notin others
  BY <1>1, <1>3, <1>5 DEF Open, OpenOn
<1>7. ASSUME NEW g \in others
      PROVE  /\ g \in Handlers \ {h} /\ Open(g) /\ Open(g)'
             /\ calls'[g] \in Call /\ calls'[g].at = calls[g].at /\ calls'[g].op = calls[g].op
             /\ calls'[g].space = s /\ ~calls'[g].alone
             /\ calls[g].at \in PointsOf(calls[g].op)
  <2>1. g \in Handlers \ {h} /\ Open(g) /\ calls[g].space = s
    BY <1>1, <1>6 DEF OpenOn
  <2>2. calls[g] \in Call /\ calls[g].at \in PointsOf(calls[g].op)
    BY <1>4, <2>1 DEF CallInv
  <2>3. calls'[g] = [calls[g] EXCEPT !.alone = FALSE]
    BY <1>3, <2>1
  <2>4. /\ calls'[g] \in Call /\ calls'[g].at = calls[g].at /\ calls'[g].op = calls[g].op
        /\ calls'[g].space = s /\ ~calls'[g].alone
    BY <2>1, <2>2, <2>3 DEF Call
  <2>5. Open(g)'
    BY <2>2, <2>4, NoCallIsIdle DEF Open
  <2>. QED
    BY <2>1, <2>2, <2>4, <2>5
<1>8. ASSUME NEW g \in Handlers \ {h}, g \notin others
      PROVE  calls'[g] = calls[g] /\ (Open(g)' <=> Open(g)) /\ (Open(g) => calls[g].space # s)
  BY <1>1, <1>3, <1>8 DEF Open, OpenOn
<1>9. TypeOK'
  <2>1. \A g \in Handlers : calls'[g] \in Call \cup {NoCall}
    BY <1>5, <1>6, <1>7, <1>8 DEF IInv, TypeOK
  <2>2. calls' = [g \in Handlers |-> calls'[g]]
    BY <1>3
  <2>3. calls' \in [Handlers -> Call \cup {NoCall}]
    BY <2>1, <2>2
  <2>4. started' \in 0 .. MaxCalls
    BY <1>3, AclBoundsAssumption DEF IInv, TypeOK
  <2>. QED
    BY <1>3, <2>3, <2>4 DEF IInv, TypeOK
<1>10. /\ \A r \in Spaces \ {s} : OpenOn(r)' = OpenOn(r)
       /\ OpenOn(s)' = others \cup {h}
  <2>1. \A r \in Spaces : OpenOn(r) = {g \in Handlers : Open(g) /\ calls[g].space = r}
                          /\ OpenOn(r)' = {g \in Handlers : Open(g)' /\ calls'[g].space = r}
    BY DEF OpenOn
  <2>2. ASSUME NEW r \in Spaces \ {s} PROVE OpenOn(r)' = OpenOn(r)
    <3>1. \A g \in Handlers : Open(g)' /\ calls'[g].space = r <=> Open(g) /\ calls[g].space = r
      <4>1. \A g \in others : calls[g].space = s
        BY <1>1 DEF OpenOn
      <4>. SUFFICES ASSUME NEW g \in Handlers
                    PROVE  Open(g)' /\ calls'[g].space = r <=> Open(g) /\ calls[g].space = r
        OBVIOUS
      <4>2. CASE g = h
        BY <1>3, <1>5, <1>6, <4>2
      <4>3. CASE g \in others
        BY <1>7, <4>1, <4>3
      <4>4. CASE g # h /\ g \notin others
        BY <1>8, <4>4
      <4>. QED
        BY <4>2, <4>3, <4>4
    <3>2. /\ OpenOn(r) = {g \in Handlers : Open(g) /\ calls[g].space = r}
          /\ OpenOn(r)' = {g \in Handlers : Open(g)' /\ calls'[g].space = r}
      BY DEF OpenOn
    <3>. QED
      BY <3>1, <3>2
  <2>3. \A g \in Handlers : Open(g)' /\ calls'[g].space = s <=> g \in others \cup {h}
    BY <1>5, <1>6, <1>7, <1>8
  <2>. QED
    BY <1>7, <2>1, <2>2, <2>3
<1>11. ASSUME NEW r \in Spaces \ {s} PROVE SpaceInv(r)'
  <2>1. SpaceInv(r)
    BY DEF IInv
  <2>2. \A g \in OpenOn(r) : calls'[g] = calls[g]
    <3>1. \A g \in OpenOn(r) : g \in Handlers \ {h} /\ g \notin others
      BY <1>1, <1>3 DEF OpenOn
    <3>. QED
      BY <3>1, <1>8
  <2>. QED
    BY <1>3, <1>10, <2>1, <2>2, SpaceFrame
<1>12. SpaceInv(s)'
  <2>1. AclNow(s)' = AclNow(s) /\ (IsEmpty(AclNow(s))' <=> IsEmpty(AclNow(s)))
    BY <1>3 DEF AclNow, IsEmpty
  <2>2. (Chained(s)' <=> Chained(s)) /\ LastOwner(s)' = LastOwner(s)
    BY <1>3 DEF Chained, LastOwner, OwnerAfter
  <2>3. CASE others = {}
    BY <1>1, <1>3, <1>4, <2>1, <2>2, <2>3 DEF SpaceInv, Clean
  <2>4. CASE others # {}
    BY <1>3, <1>4, <2>4 DEF SpaceInv, Clean
  <2>. QED
    BY <2>3, <2>4
<1>13. CallInv(h)'
  <2>1. ~Added(h)'
    BY <1>5, <1>6 DEF Added, PointsOf
  <2>2. CASE others = {}
    <3>1. AloneInv(h, calls[h], s)'
      BY <1>3, <1>5, <1>6, <1>10, <2>1, <2>2 DEF AloneInv
    <3>. QED
      BY <1>5, <1>6, <2>2, <3>1 DEF CallInv, AloneInv
  <2>3. CASE others # {}
    BY <1>3, <1>5, <1>6, <2>3 DEF CallInv
  <2>. QED
    BY <2>2, <2>3
<1>14. ASSUME NEW g \in Handlers \ {h} PROVE CallInv(g)'
  <2>1. CASE g \in others
    <3>1. s \in overlapped' \cap unrepaired'
      BY <1>3, <2>1
    <3>2. /\ calls'[g] \in Call /\ calls'[g].at = calls[g].at /\ calls'[g].op = calls[g].op
          /\ calls'[g].space = s /\ ~calls'[g].alone /\ calls[g].at \in PointsOf(calls[g].op)
      BY <1>7, <2>1
    <3>. QED
      BY <3>1, <3>2 DEF CallInv
  <2>2. CASE g \notin others /\ ~Open(g)
    BY <1>8, <2>2 DEF CallInv
  <2>3. CASE g \notin others /\ Open(g)
    <3>1. calls[g].space \in Spaces \ {s} /\ calls'[g] = calls[g]
      BY <1>4, <1>8, <2>3 DEF CallInv, Call
    <3>. QED
      BY <1>3, <1>4, <1>10, <3>1, CallFrame
  <2>. QED
    BY <2>1, <2>2, <2>3
<1>. QED
  BY <1>9, <1>11, <1>12, <1>13, <1>14 DEF IInv

LEMMA StatusMovesInv ==
    ASSUME IInv, NEW s \in Spaces, StatusMoves(s) PROVE IInv'
<1>1. PICK phase \in Phases : spaces' = [spaces EXCEPT ![s].status = phase]
  BY DEF StatusMoves, Phases
<1>2. UNCHANGED <<acl, events, ownership, calls, started, faults, overlapped, failed, unrepaired>>
  BY DEF StatusMoves, history
<1>3. /\ spaces' \in [Spaces -> Doc]
      /\ \A r \in Spaces : /\ spaces'[r].identity = spaces[r].identity
                           /\ spaces'[r].shareable = spaces[r].shareable
  <2>1. spaces \in [Spaces -> Doc]
    BY DEF IInv, TypeOK
  <2>2. spaces'[s] = [spaces[s] EXCEPT !.status = phase]
    BY <1>1, <2>1
  <2>3. spaces'[s] \in Doc /\ spaces'[s].identity = spaces[s].identity
        /\ spaces'[s].shareable = spaces[s].shareable
    BY <2>1, <2>2 DEF Doc
  <2>4. \A r \in Spaces \ {s} : spaces'[r] = spaces[r]
    BY <1>1, <2>1
  <2>. QED
    BY <1>1, <2>1, <2>3, <2>4
<1>4. TypeOK'
  BY <1>2, <1>3 DEF IInv, TypeOK
<1>5. \A r \in Spaces : OpenOn(r)' = OpenOn(r)
  BY <1>2 DEF OpenOn, Open
<1>6. ASSUME NEW r \in Spaces PROVE SpaceInv(r)'
  BY <1>2, <1>3, <1>5, SpaceFrame DEF IInv
<1>7. ASSUME NEW g \in Handlers PROVE CallInv(g)'
  <2>1. CASE Open(g)
    <3>1. CallInv(g) /\ calls[g].space \in Spaces
      BY <2>1 DEF IInv, CallInv, Call
    <3>. QED
      BY <1>2, <1>3, <1>5, <3>1, CallFrame
  <2>2. CASE ~Open(g)
    BY <1>2, <2>2 DEF CallInv, Open
  <2>. QED
    BY <2>1, <2>2
<1>. QED
  BY <1>4, <1>6, <1>7 DEF IInv

LEMMA CallsFailInv ==
    ASSUME IInv, NEW H, \A h \in H : h \in Handlers /\ Open(h), CallsFail(H) PROVE IInv'
<1>1. PICK hit : hit = {calls[h].space : h \in H}
  OBVIOUS
<1>2. /\ faults' = faults + 1 /\ faults < MaxFaults
      /\ calls' = [h \in Handlers |-> IF h \in H THEN NoCall ELSE calls[h]]
      /\ failed' = failed \cup hit
      /\ unrepaired' = unrepaired \cup hit
      /\ UNCHANGED <<spaces, acl, events, ownership, started, overlapped>>
  BY <1>1 DEF CallsFail, stores
<1>3. \A h \in Handlers : CallInv(h)
  BY DEF IInv
<1>4. /\ \A h \in H : calls'[h] = NoCall /\ ~Open(h)'
      /\ \A g \in Handlers \ H : calls'[g] = calls[g] /\ (Open(g)' <=> Open(g))
  BY <1>2 DEF Open
<1>5. hit \subseteq Spaces
  BY <1>1, <1>3 DEF CallInv, Call
<1>6. TypeOK'
  <2>1. calls' \in [Handlers -> Call \cup {NoCall}]
    BY <1>2 DEF IInv, TypeOK
  <2>2. faults' \in 0 .. MaxFaults
    BY <1>2, AclBoundsAssumption DEF IInv, TypeOK
  <2>. QED
    BY <1>2, <1>5, <2>1, <2>2 DEF IInv, TypeOK
<1>7. ASSUME NEW r \in Spaces \ hit PROVE OpenOn(r)' = OpenOn(r)
  <2>1. \A h \in H : calls[h].space # r
    BY <1>1, <1>7
  <2>2. \A g \in Handlers : Open(g)' /\ calls'[g].space = r <=> Open(g) /\ calls[g].space = r
    <3>. SUFFICES ASSUME NEW g \in Handlers
                  PROVE  Open(g)' /\ calls'[g].space = r <=> Open(g) /\ calls[g].space = r
      OBVIOUS
    <3>1. CASE g \in H
      BY <1>4, <2>1, <3>1
    <3>2. CASE g \notin H
      BY <1>4, <3>2
    <3>. QED
      BY <3>1, <3>2
  <2>3. /\ OpenOn(r) = {g \in Handlers : Open(g) /\ calls[g].space = r}
        /\ OpenOn(r)' = {g \in Handlers : Open(g)' /\ calls'[g].space = r}
    BY DEF OpenOn
  <2>. QED
    BY <2>2, <2>3
<1>8. ASSUME NEW r \in Spaces PROVE SpaceInv(r)'
  <2>1. SpaceInv(r)
    BY DEF IInv
  <2>2. CASE r \in hit
    <3>1. r \in unrepaired' /\ ~Clean(r)'
      BY <1>2, <2>2 DEF Clean
    <3>2. AclNow(r)' = AclNow(r) /\ (IsEmpty(AclNow(r))' <=> IsEmpty(AclNow(r)))
      BY <1>2 DEF AclNow, IsEmpty
    <3>. QED
      BY <1>2, <2>1, <3>1, <3>2 DEF SpaceInv
  <2>3. CASE r \notin hit
    <3>1. \A g \in OpenOn(r) : calls'[g] = calls[g]
      BY <1>1, <1>4, <2>3 DEF OpenOn
    <3>. QED
      BY <1>2, <1>7, <2>1, <2>3, <3>1, SpaceFrame
  <2>. QED
    BY <2>2, <2>3
<1>9. ASSUME NEW g \in Handlers PROVE CallInv(g)'
  <2>1. CASE g \in H \/ ~Open(g)
    BY <1>4, <2>1 DEF CallInv
  <2>2. CASE g \notin H /\ Open(g) /\ calls[g].space \notin hit
    <3>1. calls[g].space \in Spaces
      BY <1>3, <2>2 DEF CallInv, Call
    <3>. QED
      BY <1>2, <1>3, <1>4, <1>7, <2>2, <3>1, CallFrame
  <2>3. CASE g \notin H /\ Open(g) /\ calls[g].space \in hit
    <3>1. PICK h \in H : calls[h].space = calls[g].space
      BY <1>1, <2>3
    <3>2. h \in OpenOn(calls[g].space) /\ h # g
      BY <2>3, <3>1 DEF OpenOn
    <3>3. ~calls[g].alone
      BY <1>3, <2>3, <3>2 DEF CallInv, AloneInv
    <3>. QED
      BY <1>2, <1>3, <1>4, <2>3, <3>3 DEF CallInv
  <2>. QED
    BY <2>1, <2>2, <2>3
<1>. QED
  BY <1>6, <1>8, <1>9 DEF IInv

----------------------------------------------------------------------------
(* The theorems.                                                            *)

LEMMA InitInv == Init => IInv
<1> SUFFICES ASSUME Init PROVE IInv
  OBVIOUS
<1>1. PICK signer \in [Spaces -> Identities] :
          /\ spaces = [s \in Spaces |-> NewDoc(s, signer[s])]
          /\ acl = [s \in Spaces |-> <<[owner |-> signer[s], members |-> {signer[s]}]>>]
  BY DEF Init
<1>2. /\ events = [s \in Spaces |-> <<>>] /\ ownership = [s \in Spaces |-> <<>>]
      /\ calls = [h \in Handlers |-> NoCall] /\ started = 0 /\ faults = 0
      /\ overlapped = {} /\ failed = {} /\ unrepaired = {}
  BY DEF Init
<1>3. ASSUME NEW s \in Spaces
      PROVE  /\ spaces[s] \in Doc /\ spaces[s].identity = signer[s]
             /\ acl[s] \in Seq(AclState) /\ acl[s] # <<>>
             /\ AclNow(s).owner = signer[s] /\ acl[s][1].owner = signer[s]
             /\ IsEmpty(AclNow(s))
  <2>1. PICK who \in Identities : who = signer[s]
    OBVIOUS
  <2>2. NewDoc(s, who) \in Doc /\ NewDoc(s, who).identity = who
    <3>1. PICK type \in Types : type = TypeOf[s]
      BY HeaderAssumption DEF Types
    <3>2. NoDoc \in Doc
      BY DEF NoDoc, Doc, Phases, Types, Missing
    <3>3. NewDoc(s, who) = [NoDoc EXCEPT !.identity = who, !.status = "created", !.type = type]
      BY <3>1 DEF NewDoc
    <3>. QED
      BY <3>2, <3>3 DEF Doc, Phases
  <2>3. PICK state \in AclState : state = [owner |-> who, members |-> {who}]
    BY DEF AclState
  <2>4. acl[s] = <<state>> /\ Len(acl[s]) = 1 /\ acl[s] \in Seq(AclState) /\ acl[s][1] = state
    <3>1. acl[s] = <<[owner |-> signer[s], members |-> {signer[s]}]>>
      BY <1>1
    <3>2. acl[s] = <<state>>
      BY <2>1, <2>3, <3>1
    <3>. QED
      BY <3>2
  <2>. QED
    BY <1>1, <2>1, <2>2, <2>3, <2>4 DEF AclNow, IsEmpty
<1>4. TypeOK
  <2>1. spaces \in [Spaces -> Doc] /\ acl \in [Spaces -> Seq(AclState)]
    BY <1>1, <1>3
  <2>. QED
    BY <1>2, <2>1, AclBoundsAssumption DEF TypeOK
<1>5. ASSUME NEW s \in Spaces PROVE SpaceInv(s)
  <2>1. ownership[s] = <<>> /\ Len(ownership[s]) = 0
    BY <1>2
  <2>2. Chained(s) /\ LastOwner(s) = signer[s]
    BY <1>3, <2>1 DEF Chained, LastOwner, OwnerAfter
  <2>. QED
    BY <1>3, <2>2 DEF SpaceInv
<1>6. ASSUME NEW h \in Handlers PROVE CallInv(h)
  BY <1>2 DEF CallInv, Open
<1>. QED
  BY <1>4, <1>5, <1>6 DEF IInv

LEMMA StepInv == IInv /\ [Next]_vars => IInv'
<1> SUFFICES ASSUME IInv, [Next]_vars PROVE IInv'
  OBVIOUS
<1>1. ASSUME NEW h \in Handlers, NEW s \in Spaces, AclAddRecord(h, s) PROVE IInv'
  <2>1. Start(h, "AclAddRecord", s, "append") /\ spaces[s].shareable
    BY <1>1 DEF AclAddRecord
  <2>2. "append" \in PointsOf("AclAddRecord")
    BY DEF PointsOf
  <2>. QED
    BY <2>1, <2>2, StartInv DEF Ops, Points
<1>2. ASSUME NEW h \in Handlers, NEW s \in Spaces, MakeSpaceShareable(h, s) PROVE IInv'
  <2>1. Start(h, "MakeSpaceShareable", s, "share")
    BY <1>2 DEF MakeSpaceShareable
  <2>2. "share" \in PointsOf("MakeSpaceShareable")
    BY DEF PointsOf
  <2>. QED
    BY <2>1, <2>2, StartInv DEF Ops, Points
<1>3. ASSUME NEW h \in Handlers, NEW s \in Spaces, MakeSpaceUnshareable(h, s) PROVE IInv'
  <2>1. Start(h, "MakeSpaceUnshareable", s, "check")
    BY <1>3 DEF MakeSpaceUnshareable
  <2>2. "check" \in PointsOf("MakeSpaceUnshareable")
    BY DEF PointsOf
  <2>. QED
    BY <2>1, <2>2, StartInv DEF Ops, Points
<1>4. ASSUME NEW h \in Handlers, AppendRecord(h) PROVE IInv'
  BY <1>4, AppendRecordInv
<1>5. ASSUME NEW h \in Handlers, RefuseRecord(h) PROVE IInv'
  BY <1>5, RefuseInv DEF RefuseRecord
<1>6. ASSUME NEW h \in Handlers, AddEvent(h) PROVE IInv'
  BY <1>6, AddEventInv
<1>7. ASSUME NEW h \in Handlers, ReadOwner(h) PROVE IInv'
  BY <1>7, ReadOwnerInv
<1>8. ASSUME NEW h \in Handlers, ChangeOwner(h) PROVE IInv'
  BY <1>8, ChangeOwnerInv
<1>9. ASSUME NEW h \in Handlers, AddOwnershipChange(h) PROVE IInv'
  BY <1>9, AddOwnershipChangeInv
<1>10. ASSUME NEW h \in Handlers, Share(h) \/ Unshare(h) PROVE IInv'
  BY <1>10, TransactionsInv
<1>11. ASSUME NEW h \in Handlers, CheckEmpty(h) PROVE IInv'
  BY <1>11, CheckEmptyInv
<1>12. ASSUME NEW h \in Handlers, CallFails(h) PROVE IInv'
  <2>1. \A g \in {h} : g \in Handlers /\ Open(g)
    BY <1>12 DEF CallFails
  <2>. QED
    BY <1>12, <2>1, CallsFailInv DEF CallFails
<1>13. ASSUME Crash PROVE IInv'
  <2>1. \A g \in {h \in Handlers : Open(h)} : g \in Handlers /\ Open(g)
    OBVIOUS
  <2>. QED
    BY <1>13, <2>1, CallsFailInv DEF Crash
<1>14. ASSUME NEW s \in Spaces, StatusMoves(s) PROVE IInv'
  BY <1>14, StatusMovesInv
<1>15. ASSUME NEW h \in Handlers, ReadFormerOwner(h) \/ CheckOlderHead(h) PROVE IInv'
  BY <1>15, ReadFormerOwnerInv, CheckOlderHeadInv
<1>16. CASE UNCHANGED vars
  <2>1. UNCHANGED <<spaces, acl, events, ownership, calls, started, faults, overlapped, failed, unrepaired>>
    BY <1>16 DEF vars, stores, history
  <2>2. TypeOK'
    BY <2>1 DEF IInv, TypeOK
  <2>3. \A r \in Spaces : OpenOn(r)' = OpenOn(r)
    BY <2>1 DEF OpenOn, Open
  <2>4. ASSUME NEW r \in Spaces PROVE SpaceInv(r)'
    BY <2>1, <2>3, SpaceFrame DEF IInv
  <2>5. ASSUME NEW g \in Handlers PROVE CallInv(g)'
    <3>1. CASE Open(g)
      <4>1. CallInv(g) /\ calls[g].space \in Spaces
        BY <3>1 DEF IInv, CallInv, Call
      <4>. QED
        BY <2>1, <2>3, <4>1, CallFrame
    <3>2. CASE ~Open(g)
      BY <2>1, <3>2 DEF CallInv, Open
    <3>. QED
      BY <3>1, <3>2
  <2>. QED
    BY <2>2, <2>4, <2>5 DEF IInv
<1>. QED
  BY <1>1, <1>2, <1>3, <1>4, <1>5, <1>6, <1>7, <1>8, <1>9, <1>10, <1>11, <1>12, <1>13,
     <1>14, <1>15, <1>16 DEF Next

LEMMA Always == Spec => []IInv
  BY InitInv, StepInv, PTL DEF Spec

\* Documents, ACLs, logs and calls have their types, whatever overlaps or fails.
THEOREM AclTypeCorrect == Spec => []TypeOK
<1>1. IInv => TypeOK
  BY DEF IInv
<1>. QED
  BY <1>1, Always, PTL

\* For any calls and failures: a space that cannot be shared has no members, unless
\* two calls worked on it at once or its owner's client named an older head.
THEOREM UnsharedHasNoMembers == Spec => []UnsharedIsEmpty
<1>1. IInv => UnsharedIsEmpty
  BY DEF IInv, SpaceInv, UnsharedIsEmpty
<1>. QED
  BY <1>1, Always, PTL

\* Whatever was lost or overtaken, the next AclAddRecord that runs alone and to its
\* end leaves the document with the owner that the ACL has.
THEOREM OwnersComeToAgree == Spec => []OwnerIsRepaired
<1>1. IInv => OwnerIsRepaired
  BY DEF IInv, SpaceInv, OwnerIsRepaired, Added
<1>. QED
  BY <1>1, Always, PTL

\* The OwnershipChange records of a space lead from its first owner to the owner its
\* document has, on spaces where no call was overlapped or lost.
THEOREM OwnershipChainHolds == Spec => []OwnershipIsChained
<1>1. IInv => OwnershipIsChained
  <2>. SUFFICES ASSUME IInv, NEW s \in Spaces, AtRest(s)
                PROVE  /\ \A n \in 1 .. Len(ownership[s]) :
                             /\ ownership[s][n].group = OwnerAfter(s, n - 1)
                             /\ ownership[s][n].group # OwnerAfter(s, n)
                       /\ spaces[s].identity = OwnerAfter(s, Len(ownership[s]))
    BY DEF OwnershipIsChained
  <2>. QED
    BY DEF IInv, SpaceInv, AtRest, Clean, Chained, LastOwner
<1>. QED
  BY <1>1, Always, PTL

----------------------------------------------------------------------------
(* What the ACL event log tells.  An event that a call has yet to add is     *)
(* known from the call: it is alone on its space if nothing overlaps it.     *)

PendingEvent(h, s) ==
    IF calls[h].op = "AclAddRecord"
    THEN /\ Len(acl[s]) > 1
         /\ acl[s][Len(acl[s]) - 1].owner = calls[h].identity
         /\ RecordsTold(s, Len(acl[s]) - 1)
         /\ SharingTold(s, spaces[s].shareable)
    ELSE /\ RecordsTold(s, Len(acl[s]))
         /\ spaces[s].shareable <=> calls[h].op = "MakeSpaceShareable"

LogInv(s) ==
    Clean(s) =>
        /\ \/ RecordsTold(s, Len(acl[s])) /\ SharingTold(s, spaces[s].shareable)
           \/ \E h \in OpenOn(s) : calls[h].at = "event"
        /\ \A h \in OpenOn(s) : calls[h].at = "event" => PendingEvent(h, s)

EventInv ==
    /\ unrepaired \subseteq overlapped \cup failed
    /\ \A s \in Spaces : LogInv(s)

\* An entry more in the log is the last one.
LEMMA EntryAdded ==
    ASSUME NEW s \in Spaces, events[s] \in Seq(Event), NEW e \in Event,
           events'[s] = Append(events[s], e), NEW l \in Nat, l = Len(events[s])
    PROVE  /\ events'[s][l + 1] = e
           /\ \A k \in 1 .. l : events'[s][k] = events[s][k]
           /\ \A types : EventsOf(s, types) \subseteq 1 .. l
           /\ \A types : e.type \in types => EventsOf(s, types)' = EventsOf(s, types) \cup {l + 1}
           /\ \A types : e.type \notin types => EventsOf(s, types)' = EventsOf(s, types)
<1>1. /\ Len(events'[s]) = l + 1 /\ events'[s][l + 1] = e
      /\ \A k \in 1 .. l : events'[s][k] = events[s][k]
  BY AppendProperties
<1>2. 1 .. l + 1 = (1 .. l) \cup {l + 1} /\ l + 1 \notin 1 .. l
  OBVIOUS
<1>3. ASSUME NEW types
      PROVE  /\ EventsOf(s, types) = {k \in 1 .. l : events[s][k].type \in types}
             /\ EventsOf(s, types)' = {k \in 1 .. l + 1 : events'[s][k].type \in types}
  BY <1>1 DEF EventsOf
<1>4. ASSUME NEW types
      PROVE  EventsOf(s, types) \subseteq 1 .. l
  BY <1>3
<1>5. ASSUME NEW types, e.type \in types
      PROVE  EventsOf(s, types)' = EventsOf(s, types) \cup {l + 1}
  BY <1>1, <1>2, <1>3, <1>5
<1>6. ASSUME NEW types, e.type \notin types
      PROVE  EventsOf(s, types)' = EventsOf(s, types)
  BY <1>1, <1>2, <1>3, <1>6
<1>. QED
  BY <1>1, <1>4, <1>5, <1>6

\* A record's event makes the log tell of one record more ...
LEMMA RecordIsTold ==
    ASSUME NEW s \in Spaces, events[s] \in Seq(Event), NEW e \in Event,
           events'[s] = Append(events[s], e), acl'[s] = acl[s],
           NEW n \in Nat \ {0}, RecordsTold(s, n),
           e.type = "AclAddRecord", e.record = n + 1, e.owner = acl[s][n].owner
    PROVE  RecordsTold(s, n + 1)'
<1>1. PICK l \in Nat : l = Len(events[s])
  OBVIOUS
<1>2. PICK added : added = EventsOf(s, {"AclAddRecord"})
  OBVIOUS
<1>3. /\ events'[s][l + 1] = e
      /\ \A k \in added : k \in 1 .. l /\ events'[s][k] = events[s][k]
      /\ EventsOf(s, {"AclAddRecord"})' = added \cup {l + 1}
  BY <1>1, <1>2, EntryAdded
<1>4. /\ {events[s][k].record : k \in added} = 2 .. n
      /\ \A j, k \in added : j < k => events[s][j].record < events[s][k].record
      /\ \A k \in added : events[s][k].owner = acl[s][events[s][k].record - 1].owner
  BY <1>2 DEF RecordsTold
<1>5. \A k \in added : events[s][k].record \in 2 .. n
  BY <1>4
<1>6. {events'[s][k].record : k \in added \cup {l + 1}} = 2 .. n + 1
  <2> DEFINE told(k) == events'[s][k].record
  <2>1. \A k \in added : told(k) \in 2 .. n
    BY <1>3, <1>5
  <2>2. \A i \in 2 .. n : \E k \in added : told(k) = i
    BY <1>3, <1>4
  <2>3. told(l + 1) = n + 1
    BY <1>3
  <2> HIDE DEF told
  <2>4. (2 .. n) \cup {n + 1} = 2 .. n + 1
    OBVIOUS
  <2>5. {told(k) : k \in added \cup {l + 1}} = (2 .. n) \cup {n + 1}
    BY <2>1, <2>2, <2>3
  <2>. QED
    BY <2>4, <2>5 DEF told
<1>7. \A j, k \in added \cup {l + 1} : j < k => events'[s][j].record < events'[s][k].record
  <2>. SUFFICES ASSUME NEW j \in added \cup {l + 1}, NEW k \in added \cup {l + 1}, j < k
                PROVE  events'[s][j].record < events'[s][k].record
    OBVIOUS
  <2>1. CASE k \in added
    <3>1. j \in added
      BY <1>3, <2>1
    <3>. QED
      BY <1>3, <1>4, <2>1, <3>1
  <2>2. CASE k = l + 1
    <3>1. j \in added
      BY <2>2
    <3>2. events'[s][j].record \in 2 .. n /\ events'[s][k].record = n + 1
      BY <1>3, <1>5, <2>2, <3>1
    <3>3. \A i \in 2 .. n : i < n + 1
      OBVIOUS
    <3>. QED
      BY <3>2, <3>3
  <2>. QED
    BY <2>1, <2>2
<1>8. \A k \in added \cup {l + 1} : events'[s][k].owner = acl'[s][events'[s][k].record - 1].owner
  <2>1. \A k \in added : events'[s][k].owner = acl'[s][events'[s][k].record - 1].owner
    BY <1>3, <1>4
  <2>2. events'[s][l + 1].owner = acl'[s][events'[s][l + 1].record - 1].owner
    BY <1>3
  <2>. QED
    BY <2>1, <2>2
<1>. QED
  BY <1>3, <1>6, <1>7, <1>8 DEF RecordsTold

\* ... and another event does not.
LEMMA OtherIsNoRecord ==
    ASSUME NEW s \in Spaces, events[s] \in Seq(Event), NEW e \in Event,
           events'[s] = Append(events[s], e), acl'[s] = acl[s],
           NEW n, RecordsTold(s, n), e.type # "AclAddRecord"
    PROVE  RecordsTold(s, n)'
<1>1. PICK l \in Nat : l = Len(events[s])
  OBVIOUS
<1>2. PICK added : added = EventsOf(s, {"AclAddRecord"})
  OBVIOUS
<1>3. /\ \A k \in added : k \in 1 .. l /\ events'[s][k] = events[s][k]
      /\ EventsOf(s, {"AclAddRecord"})' = added
  <2>1. e.type \notin {"AclAddRecord"}
    OBVIOUS
  <2>. QED
    BY <1>1, <1>2, <2>1, EntryAdded
<1>4. /\ {events[s][k].record : k \in added} = 2 .. n
      /\ \A j, k \in added : j < k => events[s][j].record < events[s][k].record
      /\ \A k \in added : events[s][k].owner = acl[s][events[s][k].record - 1].owner
  BY <1>2 DEF RecordsTold
<1>5. {events'[s][k].record : k \in added} = {events[s][k].record : k \in added}
  BY <1>3
<1>6. \A j, k \in added : j < k => events'[s][j].record < events'[s][k].record
  BY <1>3, <1>4
<1>7. \A k \in added : events'[s][k].owner = acl'[s][events'[s][k].record - 1].owner
  BY <1>3, <1>4
<1>. QED
  BY <1>3, <1>4, <1>5, <1>6, <1>7 DEF RecordsTold

\* The last event about sharing tells the rest.
LEMMA SharingIsTold ==
    ASSUME NEW s \in Spaces, events[s] \in Seq(Event), NEW e \in Event,
           events'[s] = Append(events[s], e), e.type \in {"Shared", "Unshared"}
    PROVE  SharingTold(s, e.type = "Shared")'
<1>1. PICK l \in Nat : l = Len(events[s])
  OBVIOUS
<1>2. PICK shared, unshared : shared = EventsOf(s, {"Shared"}) /\ unshared = EventsOf(s, {"Unshared"})
  OBVIOUS
<1>3. shared \subseteq 1 .. l /\ unshared \subseteq 1 .. l
  BY <1>1, <1>2, EntryAdded
<1>4. CASE e.type = "Shared"
  <2>1. "Shared" \in {"Shared"} /\ "Shared" \notin {"Unshared"}
    OBVIOUS
  <2>2. EventsOf(s, {"Shared"})' = shared \cup {l + 1} /\ EventsOf(s, {"Unshared"})' = unshared
    BY <1>1, <1>2, <1>4, <2>1, EntryAdded
  <2>3. \A j \in unshared : j < l + 1
    BY <1>3
  <2>. QED
    BY <1>4, <2>2, <2>3 DEF SharingTold
<1>5. CASE e.type = "Unshared"
  <2>1. "Unshared" \in {"Unshared"} /\ "Unshared" \notin {"Shared"}
    OBVIOUS
  <2>2. EventsOf(s, {"Shared"})' = shared /\ EventsOf(s, {"Unshared"})' = unshared \cup {l + 1}
    BY <1>1, <1>2, <1>5, <2>1, EntryAdded
  <2>3. \A k \in shared : ~(l + 1 < k)
    BY <1>3
  <2>4. ~(e.type = "Shared")
    BY <1>5
  <2>. QED
    BY <2>2, <2>3, <2>4 DEF SharingTold
<1>. QED
  BY <1>4, <1>5

LEMMA ToldFrame ==
    ASSUME NEW r \in Spaces, events'[r] = events[r], acl'[r] = acl[r]
    PROVE  \A n : RecordsTold(r, n)' <=> RecordsTold(r, n)
<1>1. EventsOf(r, {"AclAddRecord"})' = EventsOf(r, {"AclAddRecord"})
  BY DEF EventsOf
<1>. QED
  BY <1>1 DEF RecordsTold

\* What the log tells stays while it, the ACL and the document stay.
LEMMA LogFrame ==
    ASSUME NEW r \in Spaces, LogInv(r), Clean(r)' => Clean(r),
           events'[r] = events[r], acl'[r] = acl[r], spaces'[r].shareable = spaces[r].shareable,
           \/ OpenOn(r)' = OpenOn(r) /\ \A g \in OpenOn(r) : calls'[g] = calls[g]
           \/ /\ \A g \in OpenOn(r) : calls[g].at # "event"
              /\ \A g \in OpenOn(r)' : calls'[g].at # "event"
    PROVE  LogInv(r)'
<1>1. \A types : EventsOf(r, types)' = EventsOf(r, types)
  BY DEF EventsOf
<1>2. \A n : RecordsTold(r, n)' <=> RecordsTold(r, n)
  BY ToldFrame
<1>3. SharingTold(r, spaces[r].shareable)' <=> SharingTold(r, spaces[r].shareable)
  BY <1>1 DEF SharingTold
<1>4. CASE OpenOn(r)' = OpenOn(r) /\ \A g \in OpenOn(r) : calls'[g] = calls[g]
  <2>1. \A g \in OpenOn(r) : PendingEvent(g, r) => PendingEvent(g, r)'
    BY <1>2, <1>3, <1>4 DEF PendingEvent
  <2>. QED
    BY <1>2, <1>3, <1>4, <2>1 DEF LogInv
<1>5. CASE /\ \A g \in OpenOn(r) : calls[g].at # "event"
           /\ \A g \in OpenOn(r)' : calls'[g].at # "event"
  BY <1>2, <1>3, <1>5 DEF LogInv
<1>. QED
  BY <1>4, <1>5

\* A step of the call h on s, and what is known of a call that nothing overlaps.
OnlyOn(s) ==
    /\ \A r \in Spaces \ {s} : /\ events'[r] = events[r]
                               /\ acl'[r] = acl[r]
                               /\ spaces'[r] = spaces[r]
    /\ overlapped' = overlapped
    /\ failed' = failed
    /\ unrepaired' \subseteq unrepaired

MoveOf(h, s) ==
    /\ \A g \in Handlers \ {h} : calls'[g] = calls[g]
    /\ Open(h)' => calls'[h].space = s
    /\ OnlyOn(s)

CleanCall(h, s) ==
    /\ Clean(s)
    /\ OpenOn(s) = {h}
    /\ AloneInv(h, calls[h], s)
    /\ OpenOn(s)' \subseteq {h}
    /\ Open(h)' => h \in OpenOn(s)'

LEMMA CallLog ==
    ASSUME IInv, EventInv, NEW h \in Handlers, calls[h].at # "idle", NEW s, s = calls[h].space,
           MoveOf(h, s), CleanCall(h, s) => LogInv(s)'
    PROVE  EventInv'
<1>1. /\ Open(h) /\ s \in Spaces /\ h \in OpenOn(s)
      /\ IF calls[h].alone THEN AloneInv(h, calls[h], s) ELSE s \in overlapped
  BY OfOpenCall
<1>2. /\ \A g \in Handlers \ {h} : calls'[g] = calls[g] /\ (Open(g)' <=> Open(g))
      /\ Open(h)' => calls'[h].space = s
  BY DEF MoveOf, Open
<1>3. ASSUME NEW r \in Spaces \ {s} PROVE LogInv(r)'
  <2>1. \A g \in Handlers : Open(g)' /\ calls'[g].space = r <=> Open(g) /\ calls[g].space = r
    BY <1>1, <1>2
  <2>2. OpenOn(r)' = OpenOn(r)
    BY <2>1, SameCallsOpen
  <2>3. \A g \in OpenOn(r) : calls'[g] = calls[g]
    BY <1>2 DEF OpenOn
  <2>4. LogInv(r) /\ (Clean(r)' => Clean(r))
    BY DEF EventInv, MoveOf, OnlyOn, Clean
  <2>. QED
    BY <2>2, <2>3, <2>4, LogFrame DEF MoveOf, OnlyOn
<1>4. LogInv(s)'
  <2>1. Clean(s)' => Clean(s)
    BY DEF MoveOf, OnlyOn, Clean
  <2>2. ASSUME Clean(s) PROVE CleanCall(h, s)
    <3>1. AloneInv(h, calls[h], s) /\ OpenOn(s) = {h}
      BY <1>1, <2>2 DEF Clean, AloneInv
    <3>2. OpenOn(s)' \subseteq {h}
      BY <1>2, <3>1 DEF OpenOn
    <3>3. Open(h)' => h \in OpenOn(s)'
      BY <1>2 DEF OpenOn
    <3>. QED
      BY <2>2, <3>1, <3>2, <3>3 DEF CleanCall
  <2>. QED
    BY <2>1, <2>2 DEF LogInv
<1>5. unrepaired' \subseteq overlapped' \cup failed'
  BY DEF EventInv, MoveOf, OnlyOn
<1>. QED
  BY <1>3, <1>4, <1>5 DEF EventInv

\* The log stays true over a step of a call that is not about an event.
LEMMA QuietLog ==
    ASSUME IInv, EventInv, NEW h \in Handlers, calls[h].at \notin {"idle", "event"},
           NEW s, s = calls[h].space, MoveOf(h, s), calls'[h].at # "event",
           events'[s] = events[s], acl'[s] = acl[s], spaces'[s].shareable = spaces[s].shareable
    PROVE  EventInv'
<1>1. s \in Spaces
  BY OfOpenCall
<1>2. CleanCall(h, s) => LogInv(s)'
  BY <1>1, LogFrame DEF CleanCall, EventInv, MoveOf, OnlyOn, Clean
<1>. QED
  BY <1>2, CallLog

\* A call that has told its event knows that the log is true.
LEMMA NothingPending ==
    ASSUME EventInv, NEW h \in Handlers, NEW s \in Spaces, CleanCall(h, s), calls[h].at # "event"
    PROVE  RecordsTold(s, Len(acl[s])) /\ SharingTold(s, spaces[s].shareable)
  BY DEF EventInv, LogInv, CleanCall

LEMMA EndMove ==
    ASSUME IInv, NEW h \in Handlers, calls[h].at # "idle", NEW s, s = calls[h].space,
           calls' = [calls EXCEPT ![h] = NoCall], OnlyOn(s)
    PROVE  MoveOf(h, s) /\ ~Open(h)' /\ calls'[h].at = "idle"
<1>1. calls'[h] = NoCall /\ \A g \in Handlers \ {h} : calls'[g] = calls[g]
  BY DEF IInv, TypeOK
<1>. QED
  BY <1>1 DEF MoveOf, Open, NoCall

LEMMA GoMove ==
    ASSUME IInv, NEW h \in Handlers, calls[h].at # "idle", NEW s, s = calls[h].space,
           NEW at, at # "idle", calls' = [calls EXCEPT ![h].at = at], OnlyOn(s)
    PROVE  /\ MoveOf(h, s) /\ Open(h)'
           /\ calls'[h].at = at /\ calls'[h].op = calls[h].op
<1>1. calls \in [Handlers -> Call \cup {NoCall}] /\ calls[h] \in Call
  BY OfOpenCall DEF IInv, TypeOK
<1>2. calls'[h] = [calls[h] EXCEPT !.at = at] /\ \A g \in Handlers \ {h} : calls'[g] = calls[g]
  BY <1>1
<1>3. calls'[h].at = at /\ calls'[h].op = calls[h].op /\ calls'[h].space = s
  BY <1>1, <1>2 DEF Call
<1>4. Open(h)'
  BY <1>3 DEF Open, NoCall
<1>. QED
  BY <1>2, <1>3, <1>4 DEF MoveOf

LEMMA RefuseLog ==
    ASSUME IInv, EventInv, NEW h \in Handlers, calls[h].at \notin {"idle", "event"}, Refuse(h)
    PROVE  EventInv'
<1>1. PICK s : s = calls[h].space
  OBVIOUS
<1>2. /\ calls' = [calls EXCEPT ![h] = NoCall]
      /\ UNCHANGED <<spaces, acl, events, overlapped, failed, unrepaired>>
  BY DEF Refuse, stores, history
<1>3. MoveOf(h, s) /\ calls'[h].at # "event"
  BY <1>1, <1>2, EndMove DEF OnlyOn
<1>. QED
  BY <1>1, <1>2, <1>3, QuietLog

\* The log is not looked at on a space on which a call was misled.
LEMMA MisledLog ==
    ASSUME IInv, EventInv, NEW h \in Handlers, ReadFormerOwner(h) \/ CheckOlderHead(h)
    PROVE  EventInv'
<1>1. PICK s : s = calls[h].space
  OBVIOUS
<1>2. calls[h].at # "idle" /\ Misled(h)
  BY DEF ReadFormerOwner, CheckOlderHead
<1>3. /\ Open(h) /\ s \in Spaces /\ calls[h] \in Call
      /\ calls \in [Handlers -> Call \cup {NoCall}]
  BY <1>1, <1>2, OfOpenCall DEF IInv, TypeOK
<1>4. /\ UNCHANGED <<spaces, acl, events, failed>>
      /\ overlapped' = overlapped \cup {s} /\ unrepaired' = unrepaired \cup {s}
  BY <1>1, <1>2 DEF Misled, stores
<1>5. /\ \A g \in Handlers \ {h} : calls'[g] = calls[g] /\ (Open(g)' <=> Open(g))
      /\ Open(h)' => calls'[h].space = s
  <2>1. PICK new : calls' = [calls EXCEPT ![h] = new] /\ (new = NoCall \/ new.space = s)
    <3>1. CASE ReadFormerOwner(h)
      <4>1. PICK o : calls' = [calls EXCEPT ![h] =
                IF OwnerChanged(calls[h], o)
                THEN [calls[h] EXCEPT !.at = "change", !.owner = o, !.alone = FALSE]
                ELSE NoCall]
        BY <3>1 DEF ReadFormerOwner
      <4>2. [calls[h] EXCEPT !.at = "change", !.owner = o, !.alone = FALSE].space = s
        BY <1>1, <1>3 DEF Call
      <4>. QED
        BY <4>1, <4>2
    <3>2. CASE CheckOlderHead(h)
      <4>1. calls' = [calls EXCEPT ![h] = [calls[h] EXCEPT !.at = "unshare", !.alone = FALSE]]
        BY <1>3, <3>2 DEF CheckOlderHead
      <4>2. [calls[h] EXCEPT !.at = "unshare", !.alone = FALSE].space = s
        BY <1>1, <1>3 DEF Call
      <4>. QED
        BY <4>1, <4>2
    <3>. QED
      BY <3>1, <3>2
  <2>. QED
    BY <1>3, <2>1 DEF Open
<1>6. ASSUME NEW r \in Spaces \ {s} PROVE LogInv(r)'
  <2>1. \A g \in Handlers : Open(g)' /\ calls'[g].space = r <=> Open(g) /\ calls[g].space = r
    BY <1>1, <1>3, <1>5
  <2>2. OpenOn(r)' = OpenOn(r)
    BY <2>1, SameCallsOpen
  <2>3. \A g \in OpenOn(r) : calls'[g] = calls[g]
    BY <1>1, <1>5 DEF OpenOn
  <2>4. LogInv(r) /\ (Clean(r)' => Clean(r))
    BY <1>4 DEF EventInv, Clean
  <2>. QED
    BY <1>4, <2>2, <2>3, <2>4, LogFrame
<1>7. LogInv(s)'
  BY <1>4 DEF LogInv, Clean
<1>8. unrepaired' \subseteq overlapped' \cup failed'
  BY <1>4 DEF EventInv
<1>. QED
  BY <1>6, <1>7, <1>8 DEF EventInv

LEMMA ReadOwnerLog ==
    ASSUME IInv, EventInv, NEW h \in Handlers, ReadOwner(h) PROVE EventInv'
<1>1. PICK s : s = calls[h].space
  OBVIOUS
<1>2. /\ calls[h].at = "owner"
      /\ UNCHANGED <<spaces, acl, events, ownership, overlapped, failed>>
  BY DEF ReadOwner, Return, stores, history
<1>3. CASE OwnerChanged(calls[h], AclNow(calls[h].space).owner)
  <2>1. PICK o : /\ calls' = [calls EXCEPT ![h].at = "change", ![h].owner = o]
                 /\ unrepaired' = unrepaired
    BY <1>3 DEF ReadOwner, history
  <2>2. calls \in [Handlers -> Call \cup {NoCall}] /\ calls[h] \in Call
    BY <1>2, OfOpenCall DEF IInv, TypeOK
  <2>3. /\ calls'[h] = [calls[h] EXCEPT !.at = "change", !.owner = o]
        /\ \A g \in Handlers \ {h} : calls'[g] = calls[g]
    BY <2>1, <2>2
  <2>4. calls'[h].at = "change" /\ calls'[h].space = s
    BY <1>1, <2>2, <2>3 DEF Call
  <2>5. MoveOf(h, s)
    BY <1>2, <2>1, <2>3, <2>4 DEF MoveOf, OnlyOn
  <2>. QED
    BY <1>1, <1>2, <2>4, <2>5, QuietLog
<1>4. CASE ~OwnerChanged(calls[h], AclNow(calls[h].space).owner)
  <2>1. calls' = [calls EXCEPT ![h] = NoCall] /\ unrepaired' \subseteq unrepaired
    BY <1>4 DEF ReadOwner, Return
  <2>2. MoveOf(h, s) /\ calls'[h].at # "event"
    BY <1>1, <1>2, <2>1, EndMove DEF OnlyOn
  <2>. QED
    BY <1>1, <1>2, <2>2, QuietLog
<1>. QED
  BY <1>3, <1>4

LEMMA CheckEmptyLog ==
    ASSUME IInv, EventInv, NEW h \in Handlers, CheckEmpty(h) PROVE EventInv'
<1>1. PICK s : s = calls[h].space
  OBVIOUS
<1>2. calls[h].at = "check"
  BY DEF CheckEmpty
<1>3. CASE Refuse(h)
  BY <1>2, <1>3, RefuseLog
<1>4. CASE GoOn(h, "unshare") /\ UNCHANGED stores
  <2>1. /\ calls' = [calls EXCEPT ![h].at = "unshare"]
        /\ UNCHANGED <<spaces, acl, events, overlapped, failed, unrepaired>>
    BY <1>4 DEF GoOn, stores, history
  <2>2. MoveOf(h, s) /\ calls'[h].at # "event"
    <3>1. OnlyOn(s)
      BY <2>1 DEF OnlyOn
    <3>2. calls[h].at # "idle" /\ "unshare" # "idle"
      BY <1>2
    <3>3. MoveOf(h, s) /\ calls'[h].at = "unshare"
      BY <1>1, <2>1, <3>1, <3>2, GoMove
    <3>. QED
      BY <3>3
  <2>. QED
    BY <1>1, <1>2, <2>1, <2>2, QuietLog
<1>. QED
  BY <1>3, <1>4 DEF CheckEmpty

LEMMA ChangeOwnerLog ==
    ASSUME IInv, EventInv, NEW h \in Handlers, ChangeOwner(h) PROVE EventInv'
<1>1. PICK s : s = calls[h].space
  OBVIOUS
<1>2. calls[h].at = "change"
  BY DEF ChangeOwner
<1>3. PICK o : /\ spaces' = [spaces EXCEPT ![s].identity = o]
               /\ calls' = [calls EXCEPT ![h].at = "log"]
               /\ UNCHANGED <<acl, events, overlapped, failed, unrepaired>>
  BY <1>1 DEF ChangeOwner, GoOn, history
<1>4. /\ \A r \in Spaces \ {s} : spaces'[r] = spaces[r]
      /\ spaces'[s].shareable = spaces[s].shareable
  <2>1. s \in Spaces /\ spaces \in [Spaces -> Doc]
    BY <1>1, <1>2, OfOpenCall DEF IInv, TypeOK
  <2>2. spaces'[s] = [spaces[s] EXCEPT !.identity = o] /\ spaces[s] \in Doc
    BY <1>3, <2>1
  <2>. QED
    BY <1>3, <2>1, <2>2 DEF Doc
<1>5. MoveOf(h, s) /\ calls'[h].at # "event"
  <2>1. OnlyOn(s)
    BY <1>3, <1>4 DEF OnlyOn
  <2>2. calls' = [calls EXCEPT ![h].at = "log"]
    BY <1>3
  <2>3. calls[h].at # "idle" /\ "log" # "idle"
    BY <1>2
  <2>4. MoveOf(h, s) /\ calls'[h].at = "log"
    BY <1>1, <2>1, <2>2, <2>3, GoMove
  <2>. QED
    BY <2>4
<1>. QED
  BY <1>1, <1>2, <1>3, <1>4, <1>5, QuietLog

LEMMA AddOwnershipChangeLog ==
    ASSUME IInv, EventInv, NEW h \in Handlers, AddOwnershipChange(h) PROVE EventInv'
<1>1. PICK s : s = calls[h].space
  OBVIOUS
<1>2. /\ calls[h].at = "log"
      /\ calls' = [calls EXCEPT ![h] = NoCall]
      /\ UNCHANGED <<spaces, acl, events, overlapped, failed>>
      /\ unrepaired' \subseteq unrepaired
  BY DEF AddOwnershipChange, Return
<1>3. MoveOf(h, s) /\ calls'[h].at # "event"
  BY <1>1, <1>2, EndMove DEF OnlyOn
<1>. QED
  BY <1>1, <1>2, <1>3, QuietLog

\* The event of a record is pending from when the record is in the ACL.
LEMMA AppendRecordLog ==
    ASSUME IInv, EventInv, NEW h \in Handlers, AppendRecord(h) PROVE EventInv'
<1>1. PICK s : s = calls[h].space
  OBVIOUS
<1>2. calls[h].at = "append"
  BY DEF AppendRecord
<1>3. /\ Open(h) /\ calls[h] \in Call /\ calls[h].at \in PointsOf(calls[h].op)
      /\ s \in Spaces /\ h \in OpenOn(s) /\ SpaceInv(s)
  BY <1>1, <1>2, OfOpenCall
<1>4. calls[h].op = "AclAddRecord" /\ ~Added(h)
  BY <1>2, <1>3 DEF PointsOf, Added
<1>5. PICK n \in Nat \ {0} : n = Len(acl[s])
  BY <1>3, AclNowType DEF IInv, TypeOK, SpaceInv
<1>6. AclNow(s) \in AclState /\ acl \in [Spaces -> Seq(AclState)] /\ acl[s] \in Seq(AclState)
  BY <1>3, AclNowType DEF IInv, TypeOK, SpaceInv
<1>7. PICK state \in AclState : acl' = [acl EXCEPT ![s] = Append(@, state)]
  BY <1>1, <1>6, ChangesType DEF AppendRecord
<1>8. /\ \A r \in Spaces \ {s} : acl'[r] = acl[r]
      /\ Len(acl'[s]) = n + 1
      /\ \A k \in 1 .. n : acl'[s][k] = acl[s][k]
  <2>1. acl'[s] = Append(acl[s], state)
    BY <1>3, <1>6, <1>7
  <2>2. Len(acl'[s]) = n + 1 /\ \A k \in 1 .. n : acl'[s][k] = acl[s][k]
    BY <1>5, <1>6, <2>1, AppendProperties
  <2>. QED
    BY <1>6, <1>7, <2>2
<1>9. PICK m : /\ calls' = [calls EXCEPT ![h].at = "event", ![h].record = m]
               /\ UNCHANGED <<spaces, events, overlapped, failed, unrepaired>>
  BY DEF AppendRecord, history
<1>10. /\ \A g \in Handlers \ {h} : calls'[g] = calls[g]
       /\ calls'[h] = [calls[h] EXCEPT !.at = "event", !.record = m]
  BY <1>9 DEF IInv, TypeOK
<1>11. /\ calls'[h].at = "event" /\ calls'[h].op = "AclAddRecord" /\ calls'[h].space = s
       /\ calls'[h].identity = calls[h].identity
  BY <1>1, <1>3, <1>4, <1>10 DEF Call
<1>12. MoveOf(h, s)
  BY <1>8, <1>9, <1>10, <1>11 DEF MoveOf, OnlyOn
<1>13. ASSUME CleanCall(h, s) PROVE LogInv(s)'
  <2>1. RecordsTold(s, n) /\ SharingTold(s, spaces[s].shareable)
    BY <1>2, <1>3, <1>5, <1>13, NothingPending
  <2>2. calls[h].identity = acl[s][n].owner
    <3>1. s \notin unrepaired
      BY <1>13 DEF CleanCall, Clean, EventInv
    <3>2. OpenOn(s) = {h} /\ calls[h].identity = spaces[s].identity
      BY <1>2, <1>13 DEF CleanCall, AloneInv
    <3>3. spaces[s].identity = AclNow(s).owner
      BY <1>3, <1>4, <3>1, <3>2 DEF SpaceInv
    <3>. QED
      BY <1>5, <3>2, <3>3 DEF AclNow
  <2>3. \A types : EventsOf(s, types)' = EventsOf(s, types)
    BY <1>9 DEF EventsOf
  <2>4. RecordsTold(s, n)'
    <3>1. PICK added : added = EventsOf(s, {"AclAddRecord"})
      OBVIOUS
    <3>2. /\ {events[s][k].record : k \in added} = 2 .. n
          /\ \A j, k \in added : j < k => events[s][j].record < events[s][k].record
          /\ \A k \in added : events[s][k].owner = acl[s][events[s][k].record - 1].owner
      BY <2>1, <3>1 DEF RecordsTold
    <3>3. \A k \in added : acl'[s][events[s][k].record - 1] = acl[s][events[s][k].record - 1]
      <4>1. \A k \in added : events[s][k].record \in 2 .. n
        BY <3>2
      <4>2. \A i \in 2 .. n : i - 1 \in 1 .. n
        OBVIOUS
      <4>. QED
        BY <1>8, <4>1, <4>2
    <3>4. events'[s] = events[s] /\ EventsOf(s, {"AclAddRecord"})' = added
      BY <1>9, <2>3, <3>1
    <3>. QED
      BY <3>2, <3>3, <3>4 DEF RecordsTold
  <2>5. SharingTold(s, spaces[s].shareable)'
    BY <1>9, <2>1, <2>3 DEF SharingTold
  <2>6. n + 1 > 1 /\ (n + 1) - 1 = n /\ acl'[s][n].owner = calls'[h].identity
    BY <1>8, <1>11, <2>2
  <2>7. PendingEvent(h, s)'
    BY <1>8, <1>11, <2>4, <2>5, <2>6 DEF PendingEvent
  <2>8. Open(h)'
    BY <1>11 DEF Open, NoCall
  <2>9. OpenOn(s)' = {h}
    BY <1>13, <2>8 DEF CleanCall
  <2>. QED
    BY <1>11, <2>7, <2>9 DEF LogInv
<1>. QED
  BY <1>1, <1>2, <1>12, <1>13, CallLog

LEMMA AddEventLog ==
    ASSUME IInv, EventInv, NEW h \in Handlers, AddEvent(h) PROVE EventInv'
<1>1. PICK s : s = calls[h].space
  OBVIOUS
<1>2. calls[h].at = "event"
  BY DEF AddEvent
<1>3. /\ Open(h) /\ calls[h] \in Call /\ calls[h].at \in PointsOf(calls[h].op)
      /\ s \in Spaces /\ h \in OpenOn(s) /\ SpaceInv(s)
  BY <1>1, <1>2, OfOpenCall
<1>4. PICK n \in Nat \ {0} : n = Len(acl[s])
  BY <1>3, AclNowType DEF IInv, TypeOK, SpaceInv
<1>5. PICK e \in Event :
          /\ events' = [events EXCEPT ![s] = Append(@, e)]
          /\ e.type = EventType(calls[h].op)
          /\ e.owner = calls[h].identity
          /\ e.record = calls[h].record
  <2>1. calls[h].op \in {"AclAddRecord", "MakeSpaceShareable", "MakeSpaceUnshareable"}
    BY <1>3 DEF PointsOf
  <2>2. EventType(calls[h].op) \in EventTypes
    BY <2>1 DEF EventType, EventTypes
  <2>3. [type |-> EventType(calls[h].op), owner |-> calls[h].identity,
         record |-> calls[h].record] \in Event
    BY <1>3, <2>2 DEF Event, Call
  <2>. QED
    BY <1>1, <2>3 DEF AddEvent
<1>6. /\ events \in [Spaces -> Seq(Event)] /\ events[s] \in Seq(Event)
      /\ events'[s] = Append(events[s], e)
      /\ \A r \in Spaces \ {s} : events'[r] = events[r]
  <2>1. events \in [Spaces -> Seq(Event)]
    BY DEF IInv, TypeOK
  <2>. QED
    BY <1>3, <1>5, <2>1
<1>7. UNCHANGED <<spaces, acl>>
  BY DEF AddEvent
<1>8. PICK l \in Nat : l = Len(events[s])
  BY <1>6
<1>9. CASE calls[h].op = "AclAddRecord"
  <2>1. calls' = [calls EXCEPT ![h].at = "owner"] /\ UNCHANGED <<overlapped, failed, unrepaired>>
    BY <1>9 DEF AddEvent, GoOn, history
  <2>2. MoveOf(h, s) /\ calls'[h].at = "owner"
    <3>1. OnlyOn(s)
      BY <1>6, <1>7, <2>1 DEF OnlyOn
    <3>2. calls[h].at # "idle" /\ "owner" # "idle"
      BY <1>2
    <3>. QED
      BY <1>1, <2>1, <3>1, <3>2, GoMove
  <2>3. e.type = "AclAddRecord"
    BY <1>5, <1>9 DEF EventType
  <2>4. ASSUME CleanCall(h, s) PROVE LogInv(s)'
    <3>1. PendingEvent(h, s)
      BY <1>2, <1>3, <2>4 DEF EventInv, LogInv, CleanCall
    <3>2. /\ n > 1 /\ acl[s][n - 1].owner = e.owner
          /\ RecordsTold(s, n - 1) /\ SharingTold(s, spaces[s].shareable)
      BY <1>4, <1>5, <1>9, <3>1 DEF PendingEvent
    <3>3. e.record = n
      BY <1>2, <1>4, <1>5, <1>9, <2>4 DEF CleanCall, AloneInv, Added
    <3>4. PICK k \in Nat \ {0} : k = n - 1 /\ k + 1 = n
      BY <3>2
    <3>5. RecordsTold(s, n)'
      BY <1>3, <1>5, <1>6, <1>7, <2>3, <3>2, <3>3, <3>4, RecordIsTold
    <3>6. SharingTold(s, spaces[s].shareable)'
      <4>1. e.type \notin {"Shared"} /\ e.type \notin {"Unshared"}
        BY <2>3
      <4>2. /\ EventsOf(s, {"Shared"})' = EventsOf(s, {"Shared"})
            /\ EventsOf(s, {"Unshared"})' = EventsOf(s, {"Unshared"})
        BY <1>3, <1>5, <1>6, <1>8, <4>1, EntryAdded
      <4>. QED
        BY <1>7, <3>2, <4>2 DEF SharingTold
    <3>7. \A g \in OpenOn(s)' : calls'[g].at # "event"
      BY <2>2, <2>4 DEF CleanCall
    <3>. QED
      BY <1>4, <1>7, <3>5, <3>6, <3>7 DEF LogInv
  <2>. QED
    BY <1>1, <1>2, <2>2, <2>4, CallLog
<1>10. CASE calls[h].op # "AclAddRecord"
  <2>1. calls' = [calls EXCEPT ![h] = NoCall] /\ UNCHANGED <<overlapped, failed, unrepaired>>
    BY <1>10 DEF AddEvent, Return
  <2>2. MoveOf(h, s) /\ ~Open(h)'
    <3>1. \A g \in Handlers \ {h} : calls'[g] = calls[g]
      BY <2>1 DEF IInv, TypeOK
    <3>2. calls'[h] = NoCall
      BY <2>1 DEF IInv, TypeOK
    <3>. QED
      BY <1>6, <1>7, <2>1, <3>1, <3>2 DEF MoveOf, OnlyOn, Open
  <2>3. ASSUME CleanCall(h, s) PROVE LogInv(s)'
    <3>1. PendingEvent(h, s)
      BY <1>2, <1>3, <2>3 DEF EventInv, LogInv, CleanCall
    <3>2. RecordsTold(s, n) /\ (spaces[s].shareable <=> calls[h].op = "MakeSpaceShareable")
      BY <1>4, <1>10, <3>1 DEF PendingEvent
    <3>3. /\ e.type \in {"Shared", "Unshared"}
          /\ e.type = "Shared" <=> calls[h].op = "MakeSpaceShareable"
      <4>1. calls[h].op \in {"MakeSpaceShareable", "MakeSpaceUnshareable"}
        BY <1>3, <1>10 DEF PointsOf
      <4>. QED
        BY <1>5, <4>1 DEF EventType
    <3>4. RecordsTold(s, n)'
      BY <1>3, <1>5, <1>6, <1>7, <3>2, <3>3, OtherIsNoRecord
    <3>5. SharingTold(s, e.type = "Shared")'
      BY <1>3, <1>5, <1>6, <3>3, SharingIsTold
    <3>6. SharingTold(s, spaces[s].shareable)'
      BY <1>7, <3>2, <3>3, <3>5 DEF SharingTold
    <3>7. OpenOn(s)' = {}
      BY <2>2, <2>3 DEF CleanCall, OpenOn
    <3>. QED
      BY <1>4, <1>7, <3>4, <3>6, <3>7 DEF LogInv
  <2>. QED
    BY <1>1, <1>2, <2>2, <2>3, CallLog
<1>. QED
  BY <1>9, <1>10

\* The transaction of MakeUnshareable, when it commits, leaves the space unshared.
LEMMA Unshares ==
    ASSUME spaces \in [Spaces -> Doc], NEW s \in Spaces,
           MakeUnshareable(spaces, s).err = "ok",
           NEW db, db = Overlay(spaces, MakeUnshareable(spaces, s).writes)
    PROVE  ~db[s].shareable
<1> DEFINE doc == [spaces[s] EXCEPT !.shareable = FALSE]
<1>1. MakeUnshareable(spaces, s) # Fail("ErrSpaceNotExists")
  BY DEF Fail
<1>2. Has(spaces, s)
  BY <1>1 DEF MakeUnshareable
<1>3. CASE ~spaces[s].shareable
  <2>1. MakeUnshareable(spaces, s).writes = NoWrites
    BY <1>2, <1>3 DEF MakeUnshareable, Nothing, Fail
  <2>2. ~Has(NoWrites, s)
    BY DEF Has, NoWrites, NoDoc
  <2>. QED
    BY <1>3, <2>1, <2>2 DEF Overlay
<1>4. CASE spaces[s].shareable
  <2>1. MakeUnshareable(spaces, s) = Write(s, doc)
    BY <1>2, <1>4 DEF MakeUnshareable
  <2>2. MakeUnshareable(spaces, s).writes = [NoWrites EXCEPT ![s] = doc]
    BY <2>1 DEF Write, Nothing, Fail
  <2>3. MakeUnshareable(spaces, s).writes[s] = doc
    BY <2>2 DEF NoWrites
  <2>4. doc.status = spaces[s].status /\ ~doc.shareable
    BY DEF Doc
  <2>5. Has(MakeUnshareable(spaces, s).writes, s)
    BY <1>2, <2>3, <2>4 DEF Has
  <2>6. db[s] = doc
    BY <2>3, <2>5 DEF Overlay
  <2>. QED
    BY <2>4, <2>6
<1>. QED
  BY <1>3, <1>4

\* An event about sharing is pending from when the document is written.
LEMMA SharingLog ==
    ASSUME IInv, EventInv, NEW h \in Handlers, NEW s, s = calls[h].space,
           NEW limit, NEW outcome, outcome.err = "ok", Transaction(h, outcome),
           \/ calls[h].at = "share" /\ outcome = MakeShareable(spaces, s, limit)
           \/ calls[h].at = "unshare" /\ outcome = MakeUnshareable(spaces, s)
    PROVE  EventInv'
<1>1. calls[h].at \in {"share", "unshare"}
  OBVIOUS
<1>2. /\ calls[h] \in Call /\ calls[h].at \in PointsOf(calls[h].op)
      /\ s \in Spaces /\ h \in OpenOn(s) /\ spaces \in [Spaces -> Doc]
  BY <1>1, OfOpenCall DEF IInv, TypeOK
<1>3. /\ calls[h].at = "share" => calls[h].op = "MakeSpaceShareable"
      /\ calls[h].at = "unshare" => calls[h].op = "MakeSpaceUnshareable"
  BY <1>2 DEF PointsOf
<1>4. /\ spaces' = Overlay(spaces, outcome.writes)
      /\ calls' = [calls EXCEPT ![h].at = "event"]
      /\ UNCHANGED <<acl, events, overlapped, failed, unrepaired>>
  BY DEF Transaction, GoOn, history
<1>5. /\ \A r \in Spaces \ {s} : spaces'[r] = spaces[r]
      /\ outcome = MakeShareable(spaces, s, limit) => spaces'[s].shareable
  BY <1>2, <1>4, Shares
<1>6. outcome = MakeUnshareable(spaces, s) => ~spaces'[s].shareable
  BY <1>2, <1>4, Unshares
<1>7. spaces'[s].shareable <=> calls[h].op = "MakeSpaceShareable"
  BY <1>3, <1>5, <1>6
<1>8. OnlyOn(s)
  BY <1>4, <1>5 DEF OnlyOn
<1>9. MoveOf(h, s) /\ Open(h)' /\ calls'[h].at = "event" /\ calls'[h].op = calls[h].op
  <2>1. calls' = [calls EXCEPT ![h].at = "event"]
    BY <1>4
  <2>2. calls[h].at # "idle" /\ "event" # "idle"
    BY <1>1
  <2>. QED
    BY <1>8, <2>1, <2>2, GoMove
<1>10. ASSUME CleanCall(h, s) PROVE LogInv(s)'
  <2>1. RecordsTold(s, Len(acl[s]))
    BY <1>1, <1>2, <1>10, NothingPending
  <2>2. \A n : RecordsTold(s, n)' <=> RecordsTold(s, n)
    BY <1>2, <1>4, ToldFrame
  <2>3. RecordsTold(s, Len(acl[s]))'
    <3>1. PICK n : n = Len(acl[s])
      OBVIOUS
    <3>2. RecordsTold(s, n)'
      BY <2>1, <2>2, <3>1
    <3>. QED
      BY <1>4, <3>1, <3>2
  <2>4. calls'[h].op # "AclAddRecord"
    BY <1>1, <1>3, <1>9
  <2>5. PendingEvent(h, s)'
    BY <1>7, <1>9, <2>3, <2>4 DEF PendingEvent
  <2>6. OpenOn(s)' = {h}
    BY <1>9, <1>10 DEF CleanCall
  <2>. QED
    BY <1>9, <2>5, <2>6 DEF LogInv
<1>. QED
  BY <1>1, <1>9, <1>10, CallLog

LEMMA TransactionsLog ==
    ASSUME IInv, EventInv, NEW h \in Handlers, Share(h) \/ Unshare(h) PROVE EventInv'
<1>1. PICK s : s = calls[h].space
  OBVIOUS
<1>2. PICK limit, outcome :
          /\ Transaction(h, outcome)
          /\ \/ calls[h].at = "share" /\ outcome = MakeShareable(spaces, s, limit)
             \/ calls[h].at = "unshare" /\ outcome = MakeUnshareable(spaces, s)
  BY <1>1 DEF Share, Unshare
<1>3. CASE outcome.err = "ok"
  BY <1>1, <1>2, <1>3, SharingLog
<1>4. CASE outcome.err # "ok"
  BY <1>2, <1>4, RefuseLog DEF Transaction
<1>. QED
  BY <1>3, <1>4

\* A call that begins has nothing to tell; one that is not alone overlaps.
LEMMA StartLog ==
    ASSUME IInv, EventInv, NEW h \in Handlers, NEW s \in Spaces, NEW op, NEW at,
           Start(h, op, s, at), at \in {"append", "share", "check"}
    PROVE  EventInv'
<1>1. PICK others : others = OpenOn(s)
  OBVIOUS
<1>2. PICK new : /\ new.at = at /\ new.space = s
                 /\ calls' = [g \in Handlers |->
                         IF g = h THEN new
                         ELSE IF g \in others THEN [calls[g] EXCEPT !.alone = FALSE]
                         ELSE calls[g]]
  BY <1>1 DEF Start
<1>3. /\ ~Open(h)
      /\ overlapped' = overlapped \cup (IF others = {} THEN {} ELSE {s})
      /\ unrepaired' = unrepaired \cup (IF others = {} THEN {} ELSE {s})
      /\ UNCHANGED <<spaces, acl, events, failed>>
  BY <1>1 DEF Start, stores
<1>4. calls'[h] = new
  BY <1>2
<1>5. ASSUME NEW r \in Spaces \ {s} PROVE LogInv(r)'
  <2>1. ASSUME NEW g \in Handlers
        PROVE  /\ Open(g)' /\ calls'[g].space = r <=> Open(g) /\ calls[g].space = r
               /\ g \in OpenOn(r) => calls'[g] = calls[g]
    <3>1. CASE g = h
      BY <1>2, <1>3, <1>4, <3>1 DEF OpenOn
    <3>2. CASE g \in others
      <4>1. Open(g) /\ calls[g].space = s /\ g # h /\ calls[g] \in Call
        BY <1>1, <1>3, <3>2 DEF OpenOn, IInv, CallInv
      <4>2. calls'[g] = [calls[g] EXCEPT !.alone = FALSE]
        BY <1>2, <3>2, <4>1
      <4>3. calls'[g].space = s
        BY <4>1, <4>2 DEF Call
      <4>. QED
        BY <4>1, <4>3 DEF OpenOn
    <3>3. CASE g # h /\ g \notin others
      BY <1>2, <3>3 DEF Open
    <3>. QED
      BY <3>1, <3>2, <3>3
  <2>2. OpenOn(r)' = OpenOn(r)
    BY <2>1, SameCallsOpen
  <2>3. \A g \in OpenOn(r) : calls'[g] = calls[g]
    BY <2>1 DEF OpenOn
  <2>4. LogInv(r) /\ (Clean(r)' => Clean(r))
    BY <1>3 DEF EventInv, Clean
  <2>. QED
    BY <1>3, <2>2, <2>3, <2>4, LogFrame
<1>6. LogInv(s)'
  <2>1. CASE others # {}
    BY <1>3, <2>1 DEF LogInv, Clean
  <2>2. CASE others = {}
    <3>1. \A g \in OpenOn(s)' : g = h
      <4>1. ASSUME NEW g \in Handlers, g # h PROVE calls'[g] = calls[g]
        BY <1>2, <2>2, <4>1
      <4>. QED
        BY <1>1, <2>2, <4>1 DEF OpenOn, Open
    <3>2. \A g \in OpenOn(s)' : calls'[g].at # "event"
      BY <1>2, <1>4, <3>1
    <3>3. \A g \in OpenOn(s) : calls[g].at # "event"
      BY <1>1, <2>2
    <3>4. LogInv(s) /\ (Clean(s)' => Clean(s))
      BY <1>3 DEF EventInv, Clean
    <3>. QED
      BY <1>3, <3>2, <3>3, <3>4, LogFrame
  <2>. QED
    BY <2>1, <2>2
<1>7. unrepaired' \subseteq overlapped' \cup failed'
  BY <1>3 DEF EventInv
<1>. QED
  BY <1>5, <1>6, <1>7 DEF EventInv

\* Failures leave the log of other spaces as true as it was.
LEMMA CallsFailLog ==
    ASSUME IInv, EventInv, NEW H, \A h \in H : h \in Handlers /\ Open(h), CallsFail(H)
    PROVE  EventInv'
<1>1. PICK hit : hit = {calls[h].space : h \in H}
  OBVIOUS
<1>2. /\ calls' = [h \in Handlers |-> IF h \in H THEN NoCall ELSE calls[h]]
      /\ failed' = failed \cup hit
      /\ unrepaired' = unrepaired \cup hit
      /\ UNCHANGED <<spaces, acl, events, overlapped>>
  BY <1>1 DEF CallsFail, stores
<1>3. ASSUME NEW r \in Spaces \ hit PROVE LogInv(r)'
  <2>1. ASSUME NEW g \in Handlers
        PROVE  calls'[g] = calls[g] \/ (calls'[g] = NoCall /\ calls[g].space # r)
    <3>1. g \in H => calls'[g] = NoCall /\ calls[g].space # r
      BY <1>1, <1>2, <1>3
    <3>2. g \notin H => calls'[g] = calls[g]
      BY <1>2
    <3>. QED
      BY <3>1, <3>2
  <2>2. \A g \in Handlers : Open(g)' /\ calls'[g].space = r <=> Open(g) /\ calls[g].space = r
    BY <2>1 DEF Open
  <2>3. OpenOn(r)' = OpenOn(r)
    BY <2>2, SameCallsOpen
  <2>4. \A g \in OpenOn(r) : calls'[g] = calls[g]
    BY <2>1 DEF OpenOn
  <2>5. LogInv(r) /\ (Clean(r)' => Clean(r))
    BY <1>2 DEF EventInv, Clean
  <2>. QED
    BY <1>2, <2>3, <2>4, <2>5, LogFrame
<1>4. ASSUME NEW r \in hit PROVE LogInv(r)'
  BY <1>2 DEF LogInv, Clean
<1>5. unrepaired' \subseteq overlapped' \cup failed'
  BY <1>2 DEF EventInv
<1>. QED
  BY <1>3, <1>4, <1>5 DEF EventInv

LEMMA CallsStay ==
    ASSUME EventInv,
           UNCHANGED <<acl, events, calls, overlapped, failed, unrepaired>>,
           \A r \in Spaces : spaces'[r].shareable = spaces[r].shareable
    PROVE  EventInv'
<1>1. ASSUME NEW r \in Spaces PROVE LogInv(r)'
  <2>1. OpenOn(r)' = OpenOn(r)
    BY DEF OpenOn, Open
  <2>2. LogInv(r) /\ (Clean(r)' => Clean(r))
    BY DEF EventInv, Clean
  <2>. QED
    BY <2>1, <2>2, LogFrame
<1>. QED
  BY <1>1 DEF EventInv

LEMMA StatusMovesLog ==
    ASSUME IInv, EventInv, NEW s \in Spaces, StatusMoves(s) PROVE EventInv'
<1>1. PICK phase : spaces' = [spaces EXCEPT ![s].status = phase]
  BY DEF StatusMoves
<1>2. UNCHANGED <<acl, events, calls, overlapped, failed, unrepaired>>
  BY DEF StatusMoves, history
<1>3. \A r \in Spaces : spaces'[r].shareable = spaces[r].shareable
  <2>1. spaces \in [Spaces -> Doc]
    BY DEF IInv, TypeOK
  <2>2. spaces'[s] = [spaces[s] EXCEPT !.status = phase] /\ \A r \in Spaces \ {s} : spaces'[r] = spaces[r]
    BY <1>1, <2>1
  <2>3. spaces'[s].shareable = spaces[s].shareable
    BY <2>1, <2>2 DEF Doc
  <2>. QED
    BY <2>2, <2>3
<1>. QED
  BY <1>2, <1>3, CallsStay

LEMMA InitEvents == Init => EventInv
<1> SUFFICES ASSUME Init PROVE EventInv
  OBVIOUS
<1>1. PICK signer \in [Spaces -> Identities] :
          /\ spaces = [s \in Spaces |-> NewDoc(s, signer[s])]
          /\ acl = [s \in Spaces |-> <<[owner |-> signer[s], members |-> {signer[s]}]>>]
  BY DEF Init
<1>2. /\ events = [s \in Spaces |-> <<>>] /\ calls = [h \in Handlers |-> NoCall] /\ unrepaired = {}
  BY DEF Init
<1>3. ASSUME NEW s \in Spaces PROVE LogInv(s)
  <2>1. \A types : EventsOf(s, types) = {}
    BY <1>2 DEF EventsOf
  <2>2. Len(acl[s]) = 1
    BY <1>1
  <2>3. RecordsTold(s, 1)
    BY <2>1 DEF RecordsTold
  <2>4. ~spaces[s].shareable
    BY <1>1 DEF NewDoc, NoDoc
  <2>5. SharingTold(s, spaces[s].shareable)
    BY <2>1, <2>4 DEF SharingTold
  <2>6. OpenOn(s) = {}
    BY <1>2 DEF OpenOn, Open
  <2>. QED
    BY <2>2, <2>3, <2>5, <2>6 DEF LogInv
<1>. QED
  BY <1>2, <1>3 DEF EventInv

LEMMA StepEvents == IInv /\ EventInv /\ [Next]_vars => EventInv'
<1> SUFFICES ASSUME IInv, EventInv, [Next]_vars PROVE EventInv'
  OBVIOUS
<1>1. ASSUME NEW h \in Handlers, NEW s \in Spaces, AclAddRecord(h, s) PROVE EventInv'
  BY <1>1, StartLog DEF AclAddRecord
<1>2. ASSUME NEW h \in Handlers, NEW s \in Spaces, MakeSpaceShareable(h, s) PROVE EventInv'
  BY <1>2, StartLog DEF MakeSpaceShareable
<1>3. ASSUME NEW h \in Handlers, NEW s \in Spaces, MakeSpaceUnshareable(h, s) PROVE EventInv'
  BY <1>3, StartLog DEF MakeSpaceUnshareable
<1>4. ASSUME NEW h \in Handlers, AppendRecord(h) PROVE EventInv'
  BY <1>4, AppendRecordLog
<1>5. ASSUME NEW h \in Handlers, RefuseRecord(h) PROVE EventInv'
  BY <1>5, RefuseLog DEF RefuseRecord
<1>6. ASSUME NEW h \in Handlers, AddEvent(h) PROVE EventInv'
  BY <1>6, AddEventLog
<1>7. ASSUME NEW h \in Handlers, ReadOwner(h) PROVE EventInv'
  BY <1>7, ReadOwnerLog
<1>8. ASSUME NEW h \in Handlers, ChangeOwner(h) PROVE EventInv'
  BY <1>8, ChangeOwnerLog
<1>9. ASSUME NEW h \in Handlers, AddOwnershipChange(h) PROVE EventInv'
  BY <1>9, AddOwnershipChangeLog
<1>10. ASSUME NEW h \in Handlers, Share(h) \/ Unshare(h) PROVE EventInv'
  BY <1>10, TransactionsLog
<1>11. ASSUME NEW h \in Handlers, CheckEmpty(h) PROVE EventInv'
  BY <1>11, CheckEmptyLog
<1>12. ASSUME NEW h \in Handlers, CallFails(h) PROVE EventInv'
  <2>1. \A g \in {h} : g \in Handlers /\ Open(g)
    BY <1>12 DEF CallFails
  <2>. QED
    BY <1>12, <2>1, CallsFailLog DEF CallFails
<1>13. ASSUME Crash PROVE EventInv'
  <2>1. \A g \in {h \in Handlers : Open(h)} : g \in Handlers /\ Open(g)
    OBVIOUS
  <2>. QED
    BY <1>13, <2>1, CallsFailLog DEF Crash
<1>14. ASSUME NEW s \in Spaces, StatusMoves(s) PROVE EventInv'
  BY <1>14, StatusMovesLog
<1>15. ASSUME NEW h \in Handlers, ReadFormerOwner(h) \/ CheckOlderHead(h) PROVE EventInv'
  BY <1>15, MisledLog
<1>16. CASE UNCHANGED vars
  <2>1. UNCHANGED <<spaces, acl, events, calls, overlapped, failed, unrepaired>>
    BY <1>16 DEF vars, stores, history
  <2>. QED
    BY <2>1, CallsStay
<1>. QED
  BY <1>1, <1>2, <1>3, <1>4, <1>5, <1>6, <1>7, <1>8, <1>9, <1>10, <1>11, <1>12, <1>13,
     <1>14, <1>15, <1>16 DEF Next

\* The ACL event log has each record of the ACL once and in order, under the account
\* that owned the space before the record, and its last event about sharing is true,
\* on spaces where no call was overlapped or lost.
THEOREM EventLogHolds == Spec => []EventLogTellsAll
<1>1. IInv /\ EventInv => EventLogTellsAll
  <2>. SUFFICES ASSUME EventInv, NEW s \in Spaces, AtRest(s)
                PROVE  RecordsTold(s, Len(acl[s])) /\ SharingTold(s, spaces[s].shareable)
    BY DEF EventLogTellsAll
  <2>. QED
    BY DEF EventInv, LogInv, AtRest, Clean
<1>2. Spec => []EventInv
  <2>1. IInv /\ EventInv /\ [Next]_vars => EventInv'
    BY StepEvents
  <2>. QED
    BY <2>1, InitEvents, Always, PTL DEF Spec
<1>. QED
  BY <1>1, <1>2, Always, PTL

=============================================================================
