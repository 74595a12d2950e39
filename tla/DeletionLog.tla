----------------------------- MODULE DeletionLog -----------------------------
(****************************************************************************)
(* A network node that follows the deletion log: it asks DeletionLog for    *)
(* the records after the last id it has and applies them in order, while    *)
(* handlers and deleter go on writing (SpaceStatus).                        *)
(*                                                                          *)
(* An id is drawn when a transaction inserts its record, the record becomes *)
(* visible when the transaction commits; a record of a change of owner is   *)
(* inserted outside transactions, but the driver draws its id before the    *)
(* server has it.  So a record may appear below the id a reader has passed, *)
(* and no later request returns it: `late` remembers such records.  The     *)
(* records of one transaction have consecutive ids, in an order that Rank   *)
(* chooses.                                                                 *)
(****************************************************************************)
EXTENDS SpaceStatus, LogPaging

CONSTANTS
    Rank,           \* [Spaces -> 0 .. |Spaces| - 1]: order within a transaction
    SharedAtStart,  \* spaces that are shared when a behaviour starts
    Limits          \* limits the reader asks with

ASSUME RankAssumption ==
    /\ Rank \in [Spaces -> Nat]
    /\ \A s, q \in Spaces : Rank[s] < Cardinality(Spaces) /\ (Rank[s] = Rank[q] => s = q)
ASSUME SharedAtStartAssumption == SharedAtStart \subseteq Spaces
ASSUME LimitsOfReaderAssumption == Limits \subseteq Nat

VARIABLES
    cursor,         \* the last id the reader has
    told,           \* the status it was told last of each space
    late            \* history: records that appeared below the cursor

readerVars == <<cursor, told, late>>

logVars == <<vars, readerVars>>

ObjectId(r) == r.id * Cardinality(Spaces) + Rank[r.space]

Visible == {[r EXCEPT !.id = ObjectId(r)] : r \in deletionLog}

EstablishedDocs(s) ==
    {[NoDoc EXCEPT !.identity = i, !.status = "created", !.type = TypeOf[s],
                   !.shareable = s \in SharedAtStart] : i \in Signers[s]}

ReaderTypeOK ==
    /\ cursor \in Nat
    /\ told \in [Spaces -> LogStatuses \cup {"silent"}]
    /\ late \in SUBSET (Record \cup OwnershipRecord)

\* Spaces this version created earlier.
ReaderInit ==
    /\ spaces \in [Spaces -> UNION {EstablishedDocs(s) : s \in Spaces}]
    /\ \A s \in Spaces : spaces[s] \in EstablishedDocs(s)
    /\ Quiet
    /\ cursor = 0
    /\ told = [s \in Spaces |-> "silent"]
    /\ late = {}

Youngest(page) == CHOOSE r \in page : \A q \in page : q.id <= r.id

\* The reader applies status records; what it does on a change of owner is its own.
StatusRecordsOf(page, s) == {r \in page : r.space = s /\ r.status \in LogStatuses}

\* One request to DeletionLog.  The handler serves nodes of the network only; other
\* peers get ErrForbidden and no record.
ReadPage(answer) ==
    /\ answer.page # {}
    /\ cursor' = Youngest(answer.page).id
    /\ told' = [s \in Spaces |->
            LET of == StatusRecordsOf(answer.page, s)
            IN  IF of = {} THEN told[s] ELSE Youngest(of).status]
    /\ UNCHANGED <<vars, late>>

DeletionLogRequest == \E limit \in Limits : ReadPage(GetAfter(Visible, cursor, limit))

\* Everything else goes on without the reader.
CoordinatorStep ==
    /\ Next
    /\ late' = late \cup {r \in deletionLog' \ deletionLog : ObjectId(r) <= cursor}
    /\ UNCHANGED <<cursor, told>>

LogNext == CoordinatorStep \/ DeletionLogRequest

LogSpec == ReaderInit /\ [][LogNext]_logVars

----------------------------------------------------------------------------
(* Properties.                                                              *)

\* A reader that has received the last status record of a space knows the status of
\* its document, whatever order transactions of other spaces committed in, whatever
\* records of changes of owner are between and wherever the pages were cut: only a space
\* whose last status record is ahead of the cursor, or appeared late, is not known.
ReaderIsRight ==
    \A s \in Spaces : \A r \in RecordsOf(s) :
        IsLast(r) /\ ObjectId(r) <= cursor /\ r \notin late =>
            told[s] = LogStatus(spaces[s].status)

\* A page with which the log says there is no more leaves nothing ahead of the
\* reader: what it was not given then it will not be given by asking again.
LastPageIsLast ==
    [][\A limit \in Limits :
          LET answer == GetAfter(Visible, cursor, limit)
          IN  ReadPage(answer) /\ ~answer.more =>
                \A r \in deletionLog : ObjectId(r) <= cursor']_logVars

\* A status record is filed under the account that owns the space when the record
\* becomes visible, although the owner is written outside any transaction: the file nodes
\* free the storage of that account.  (The record of a change of owner names the former
\* owner instead: FormerOwnerComesFirst says what that means for the order of both.)
RecordsNameTheOwner ==
    [][\A r \in statusRecords' \ statusRecords : r.group = spaces[r.space].identity]_logVars

=============================================================================
