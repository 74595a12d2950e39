----------------------------- MODULE AclEventLog -----------------------------
(****************************************************************************)
(* Package acleventlog with the handlers that write to it and the handler   *)
(* AclEventLog that reads it, and package coordinatorlog, which SpaceSign   *)
(* writes to first.  An account's reader asks page by page for the events   *)
(* of the account, after the last id it has.  The driver draws the id of an *)
(* event before the server inserts it, so an event may appear below the id  *)
(* its reader has passed; `lateEvents` remembers those.                     *)
(****************************************************************************)
EXTENDS LogPaging

CONSTANTS
    Owners,             \* accounts that own spaces
    PageLimits,         \* limits the readers ask with
    MaxEvents           \* bound: events in a behaviour

ASSUME EventsAssumption == PageLimits \subseteq Nat /\ MaxEvents \in Nat

VARIABLES
    signed,             \* SpaceSign calls with a receipt that is not logged yet
    receipts,           \* collection "log" of coordinatorlog
    adding,             \* events with an id that are not inserted yet
    eventLog,           \* collection "aclEventLog"
    eventId,            \* the last ObjectID
    signs,              \* SpaceSign calls that issued a receipt
    eventCursor,        \* the last id each reader has
    eventsRead,         \* the events each reader was given
    lateEvents          \* history: events inserted below a cursor

eventVars == <<signed, receipts, adding, eventLog, eventId, signs, eventCursor, eventsRead, lateEvents>>

EntryTypes == {"SpaceReceipt", "SpaceShared", "SpaceUnshared", "SpaceAclAddRecord"}

\* `sign` is the SpaceSign call of a receipt, 0 for other events.
LogEvent == [id : Nat, owner : Owners, type : EntryTypes, sign : Nat]

Receipt == [sign : Nat, owner : Owners]

EventTypeOK ==
    /\ signed \in SUBSET Receipt
    /\ receipts \in SUBSET Receipt
    /\ adding \in SUBSET LogEvent
    /\ eventLog \in SUBSET LogEvent
    /\ eventId \in 0 .. MaxEvents
    /\ signs \in 0 .. MaxEvents
    /\ eventCursor \in [Owners -> Nat]
    /\ eventsRead \in [Owners -> SUBSET LogEvent]
    /\ lateEvents \in SUBSET LogEvent

EventInit ==
    /\ signed = {}
    /\ receipts = {}
    /\ adding = {}
    /\ eventLog = {}
    /\ eventId = 0
    /\ signs = 0
    /\ eventCursor = [o \in Owners |-> 0]
    /\ eventsRead = [o \in Owners |-> {}]
    /\ lateEvents = {}

readers == <<eventCursor, eventsRead>>

----------------------------------------------------------------------------
(* Writers.                                                                 *)

\* AddLog: the driver draws an id ...
DrawEventId(owner, type, sign) ==
    /\ eventId < MaxEvents
    /\ eventId' = eventId + 1
    /\ adding' = adding \cup {[id |-> eventId', owner |-> owner, type |-> type, sign |-> sign]}

\* ... and the server inserts the event.
InsertEvent(event) ==
    /\ event \in adding
    /\ adding' = adding \ {event}
    /\ eventLog' = eventLog \cup {event}
    /\ lateEvents' = IF event.id <= eventCursor[event.owner]
                     THEN lateEvents \cup {event} ELSE lateEvents
    /\ UNCHANGED <<signed, receipts, eventId, signs, readers>>

\* The insert fails.  SpaceSign does not tell its caller.
LoseEvent(event) ==
    /\ event \in adding
    /\ adding' = adding \ {event}
    /\ UNCHANGED <<signed, receipts, eventLog, eventId, signs, readers, lateEvents>>

\* AclAddRecord, MakeSpaceShareable and MakeSpaceUnshareable: module AclRecords.
AddLog(owner, type) ==
    /\ DrawEventId(owner, type, 0)
    /\ UNCHANGED <<signed, receipts, eventLog, signs, readers, lateEvents>>

\* SpaceSign has a receipt for its caller.
SpaceSign(owner) ==
    /\ signs < MaxEvents
    /\ signs' = signs + 1
    /\ signed' = signed \cup {[sign |-> signs', owner |-> owner]}
    /\ UNCHANGED <<receipts, adding, eventLog, eventId, readers, lateEvents>>

\* Faulty variant for EventHasReceipt: the error of the insert is not looked at.
AddCoordinatorLogTried(receipt) ==
    /\ receipt \in signed
    /\ signed' = signed \ {receipt}
    /\ DrawEventId(receipt.owner, "SpaceReceipt", receipt.sign)
    /\ UNCHANGED <<receipts, eventLog, signs, readers, lateEvents>>

\* addCoordinatorLog: the receipt goes to the coordinator log, then to the event log.
AddCoordinatorLog(receipt) ==
    /\ receipt \in signed
    /\ signed' = signed \ {receipt}
    /\ receipts' = receipts \cup {receipt}
    /\ DrawEventId(receipt.owner, "SpaceReceipt", receipt.sign)
    /\ UNCHANGED <<eventLog, signs, readers, lateEvents>>

\* SpaceReceipt fails: the event is not added either, and the error is only logged.
LoseReceipt(receipt) ==
    /\ receipt \in signed
    /\ signed' = signed \ {receipt}
    /\ UNCHANGED <<receipts, adding, eventLog, eventId, signs, readers, lateEvents>>

----------------------------------------------------------------------------
(* Readers.                                                                 *)

\* Faulty variant for ReadersMissNothing: the query for a later page has no owner.
QueryFirstPageOnly(owner, after) ==
    IF after = 0 THEN {e \in eventLog : e.owner = owner} ELSE eventLog

\* find({owner: owner}), with _id: {$gt: after} for a later page.
Query(owner, after) == {e \in eventLog : e.owner = owner}

\* AclEventLog, asked by a node of the network; other peers are refused.  The handler
\* leaves out entries of an unknown type, of which there are none.
ReadEvents(owner) ==
    \E limit \in PageLimits :
        LET page == GetAfter(Query(owner, eventCursor[owner]), eventCursor[owner], limit).page
        IN  /\ page # {}
            /\ eventsRead' = [eventsRead EXCEPT ![owner] = @ \cup page]
            /\ eventCursor' = [eventCursor EXCEPT ![owner] =
                    CHOOSE i \in {e.id : e \in page} : \A e \in page : e.id <= i]
            /\ UNCHANGED <<signed, receipts, adding, eventLog, eventId, signs, lateEvents>>

EventNext ==
    \/ \E o \in Owners : SpaceSign(o) \/ ReadEvents(o)
    \/ \E o \in Owners, type \in EntryTypes \ {"SpaceReceipt"} : AddLog(o, type)
    \/ \E receipt \in signed : AddCoordinatorLog(receipt) \/ LoseReceipt(receipt)
    \/ \E event \in adding : InsertEvent(event) \/ LoseEvent(event)

EventSpec == EventInit /\ [][EventNext]_eventVars

----------------------------------------------------------------------------
(* Properties.                                                              *)

\* The pages an account's reader is given hold every event of the account up to the
\* reader's id, however they are cut, and no event of another account; only events
\* that were inserted below that id are missing.
ReadersMissNothing ==
    \A o \in Owners :
        eventsRead[o] = {e \in eventLog : e.owner = o /\ e.id <= eventCursor[o]} \ lateEvents

\* An event that tells of a receipt is backed by the receipt in the coordinator log:
\* losses leave receipts without events, never events without receipts.
EventHasReceipt ==
    \A e \in eventLog : e.type = "SpaceReceipt" =>
        \E receipt \in receipts : receipt.sign = e.sign /\ receipt.owner = e.owner

=============================================================================
