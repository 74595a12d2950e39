------------------------------ MODULE LogPaging ------------------------------
(****************************************************************************)
(* The paging of GetAfter, which packages deletionlog and acleventlog have  *)
(* in common: the records after an id, in the order of their ids, one more  *)
(* than asked for, so that the last one tells whether there are more.       *)
(****************************************************************************)
EXTENDS Integers, FiniteSets

CONSTANT DefaultLimit   \* the default page size, and the largest

ASSUME DefaultLimitAssumption == DefaultLimit \in Nat \ {0}

PageSize(limit) == IF limit = 0 \/ limit > DefaultLimit THEN DefaultLimit ELSE limit

\* Faulty variant for ReaderIsRight: sorted by _id descending.
LastAfter(records, after, n) ==
    LET rest == {r \in records : r.id > after}
    IN  {r \in rest : Cardinality({q \in rest : q.id >= r.id}) <= n}

\* find({_id: {$gt: after}}), sorted by _id, limited to n.
FirstAfter(records, after, n) ==
    LET rest == {r \in records : r.id > after}
    IN  {r \in rest : Cardinality({q \in rest : q.id <= r.id}) <= n}

\* Faulty variant for LastPageIsLast: no record more is fetched.
FetchedNoExtra(records, after, limit) == FirstAfter(records, after, PageSize(limit))

\* One record more than the page.
Fetched(records, after, limit) == FirstAfter(records, after, PageSize(limit) + 1)

GetAfter(records, after, limit) ==
    LET fetched == Fetched(records, after, limit)
        more    == Cardinality(fetched) = PageSize(limit) + 1
        surplus == {r \in fetched : more /\ \A q \in fetched : q.id <= r.id}
    IN  [page |-> fetched \ surplus, more |-> more]

=============================================================================
