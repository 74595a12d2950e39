---------------------------- MODULE IdentityStore ----------------------------
(****************************************************************************)
(* What the identity repository promises: one value per account and kind,   *)
(* several kinds of an account set or removed at once, and values of an     *)
(* account that come from the account itself.  A request that names kinds   *)
(* with dots may spoil the values it reaches into, and no others.           *)
(****************************************************************************)
CONSTANTS
    Authors,            \* accounts
    Kinds,
    Versions,           \* data an account publishes
    NoData,             \* nothing is stored
    Blank, Unreadable   \* a spoilt value

VARIABLE value          \* [Authors -> [Kinds -> data]]

Signed(author) == {[by |-> author, version |-> v] : v \in Versions}

Init == value = [i \in Authors |-> [k \in Kinds |-> NoData]]

\* A request sets the values of `kinds`, and spoils those of `spoilt`; others stay.
Put(i, kinds, spoilt) ==
    \E data \in [kinds -> Signed(i)], rest \in [spoilt -> {Blank, Unreadable}] :
        value' = [value EXCEPT ![i] = [k \in Kinds |->
            IF k \in kinds THEN data[k] ELSE IF k \in spoilt THEN rest[k] ELSE @[k]]]

Remove(i, kinds, spoilt) ==
    \E rest \in [spoilt -> {Blank, Unreadable}] :
        value' = [value EXCEPT ![i] = [k \in Kinds |->
            IF k \in kinds THEN NoData ELSE IF k \in spoilt THEN rest[k] ELSE @[k]]]

Next ==
    \E i \in Authors, kinds \in SUBSET Kinds : \E spoilt \in SUBSET (Kinds \ kinds) :
        Put(i, kinds, spoilt) \/ Remove(i, kinds, spoilt)

Spec == Init /\ [][Next]_value

=============================================================================
