----------------------------- MODULE IdentityRepo -----------------------------
(****************************************************************************)
(* Package identityrepo: an account publishes data of several kinds, in one *)
(* document per account, and anybody reads the data of a list of accounts.  *)
(* A write is one update of one document; a read goes through a cursor and  *)
(* meets the documents one after another, while they change.                *)
(*                                                                          *)
(* The kind a client names is any string, and becomes the field "data."+kind*)
(* of the update.  Kinds are plain here; a request also reaches inside some:*)
(* those that its dotted kinds begin with.  What is written there is never  *)
(* returned, since no key of the document has a dot, and may spoil the datum*)
(* that the field is put into or cut from.                                  *)
(****************************************************************************)
EXTENDS Integers, FiniteSets

CONSTANTS
    Authors,            \* accounts
    Kinds,
    Versions,           \* data an account publishes
    NoData,             \* a document without data of that kind
    Blank,              \* a datum without data or without signature
    Unreadable,         \* a datum that does not decode, nor does its document
    NoDocument,         \* no document
    PullLimit,          \* thresholdIdentityPerReq
    MaxUpdates          \* bound: writes in a behaviour

Datum == [by : Authors, version : Versions]

Document == [Kinds -> Datum \cup {NoData, Blank, Unreadable}]

ASSUME RepoAssumption == PullLimit \in Nat /\ MaxUpdates \in Nat /\ NoDocument \notin Document

VARIABLES
    identityRepo,       \* the collection
    pull,               \* a DataPull: the accounts asked for, those its cursor has
                        \* yet to come to, and what it has
    updates,            \* writes received
    unsteady            \* history: accounts whose document came or went in the pull

repoVars == <<identityRepo, pull, updates, unsteady>>

NoPull == [open |-> FALSE, asked |-> {}, left |-> {}, answer |-> {}]

RepoTypeOK ==
    /\ identityRepo \in [Authors -> Document \cup {NoDocument}]
    /\ pull \in [open : BOOLEAN, asked : SUBSET Authors, left : SUBSET Authors,
                 answer : SUBSET [identity : Authors, data : Document]]
    /\ updates \in 0 .. MaxUpdates
    /\ unsteady \in SUBSET Authors

RepoInit ==
    /\ identityRepo = [i \in Authors |-> NoDocument]
    /\ pull = NoPull
    /\ updates = 0
    /\ unsteady = {}

Exists(i) == identityRepo[i] # NoDocument

\* One write of one document.
Update(i, document) ==
    /\ updates < MaxUpdates
    /\ updates' = updates + 1
    /\ identityRepo' = [identityRepo EXCEPT ![i] = document]
    /\ unsteady' = IF pull.open /\ (Exists(i) # (document # NoDocument))
                   THEN unsteady \cup {i} ELSE unsteady
    /\ UNCHANGED pull

\* Faulty variant for PulledIsTheirs: whoever signed the data may write.
ValidFromAnybody(caller, i, data) == \A k \in DOMAIN data : data[k].by = caller

\* validateRequest: the caller writes to its own document what it has signed.
Valid(caller, i, data) == caller = i /\ \A k \in DOMAIN data : data[k].by = caller

\* Faulty variant for RepoIsAStore: $set of the whole data in place of its fields.
MergedWhole(i, data, inside) ==
    {[k \in Kinds |-> IF k \in DOMAIN data THEN data[k] ELSE NoData]}

\* Faulty variant for StoresTypeOK: the document is replaced by the fields of the request.
MergedReplaced(i, data, inside) == {data}

Kept(i, k) == IF Exists(i) THEN identityRepo[i][k] ELSE NoData

\* What a field that is set inside a datum makes of it: another field, which is not
\* read, or a document where the bytes of data or signature should be.
SetInside(v) == IF v = NoData THEN {Blank, Unreadable} ELSE {v, Unreadable}

\* $set of one field per kind, with upsert.
Merged(i, data, inside) ==
    {document \in Document : \A k \in Kinds :
        IF k \in DOMAIN data THEN document[k] = data[k]
        ELSE IF k \in inside THEN document[k] \in SetInside(Kept(i, k))
        ELSE document[k] = Kept(i, k)}

\* Fields that overlap, and paths that MongoDB does not take, fail the request.
Push(caller, i) ==
    \E kinds \in SUBSET Kinds : \E data \in [kinds -> Datum], inside \in SUBSET (Kinds \ kinds) :
        /\ Valid(caller, i, data)
        /\ \E document \in Merged(i, data, inside) : Update(i, document)

NoKinds == [k \in {} |-> NoData]

\* Delete with no kinds removes the document ...
DeleteAll(caller, i) ==
    /\ Valid(caller, i, NoKinds)
    /\ Exists(i)
    /\ Update(i, NoDocument)

\* What is left of a datum when a field inside it is removed, if it has the field.
UnsetInside(v) == IF v = NoData THEN {NoData} ELSE {v, Blank}

Stripped(i, kinds, inside) ==
    {document \in Document : \A k \in Kinds :
        IF k \in kinds THEN document[k] = NoData
        ELSE IF k \in inside THEN document[k] \in UnsetInside(Kept(i, k))
        ELSE document[k] = Kept(i, k)}

\* ... and with kinds their fields: $unset, without upsert, which leaves a document
\* that may have no data.
DeleteKinds(caller, i) ==
    \E kinds \in SUBSET Kinds : \E inside \in SUBSET (Kinds \ kinds) :
        /\ kinds \cup inside # {}
        /\ Valid(caller, i, NoKinds)
        /\ Exists(i)
        /\ \E document \in Stripped(i, kinds, inside) : Update(i, document)

\* Pull: a request for too many accounts is refused ...
Pull(asked) ==
    /\ ~pull.open
    /\ Cardinality(asked) <= PullLimit
    /\ pull' = [open |-> TRUE, asked |-> asked, left |-> asked, answer |-> {}]
    /\ unsteady' = {}
    /\ UNCHANGED <<identityRepo, updates>>

\* An account without a document is left out.
Decoded(i) == IF Exists(i) THEN {identityRepo[i]} ELSE {}

Garbled(i) == Exists(i) /\ \E k \in Kinds : identityRepo[i][k] = Unreadable

\* ... the cursor comes to the next document ...
PullNext(i) ==
    /\ i \in pull.left
    /\ ~Garbled(i)
    /\ pull' = [pull EXCEPT !.left = @ \ {i},
                            !.answer = @ \cup {[identity |-> i, data |-> d] : d \in Decoded(i)}]
    /\ UNCHANGED <<identityRepo, updates, unsteady>>

\* ... which may not decode: there is no answer, about no account ...
PullFails(i) ==
    /\ i \in pull.left
    /\ Garbled(i)
    /\ pull' = NoPull
    /\ UNCHANGED <<identityRepo, updates, unsteady>>

\* ... and the answer is complete.
PullDone ==
    /\ pull.open
    /\ pull.left = {}
    /\ pull' = NoPull
    /\ UNCHANGED <<identityRepo, updates, unsteady>>

RepoNext ==
    \/ \E caller, i \in Authors : Push(caller, i) \/ DeleteAll(caller, i) \/ DeleteKinds(caller, i)
    \/ \E asked \in SUBSET Authors : Pull(asked)
    \/ \E i \in Authors : PullNext(i) \/ PullFails(i)
    \/ PullDone

RepoSpec == RepoInit /\ [][RepoNext]_repoVars

----------------------------------------------------------------------------
(* Properties.                                                              *)

\* A complete answer has each account asked for whose document was there all the
\* time, none whose document never was, and nothing that another account has signed
\* or that does not decode, although the documents change while the cursor goes
\* through them.
PulledIsTheirs ==
    pull.open /\ pull.left = {} =>
        /\ \A i \in pull.asked \ unsteady : Exists(i) <=> \E e \in pull.answer : e.identity = i
        /\ \A e \in pull.answer : \A k \in Kinds :
               e.data[k] \in {NoData, Blank} \/ e.data[k] \in [by : {e.identity}, version : Versions]

\* The documents are a store of values by account and kind, whether an account has no
\* document or one without data: a Push leaves alone the kinds that it neither names
\* nor reaches into, keeps or spoils those it reaches into, and a Delete without kinds
\* removes all.
Store == INSTANCE IdentityStore WITH
    value <- [i \in Authors |-> IF Exists(i) THEN identityRepo[i] ELSE [k \in Kinds |-> NoData]]

RepoIsAStore == Store!Spec

=============================================================================
