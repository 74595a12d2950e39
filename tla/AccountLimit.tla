----------------------------- MODULE AccountLimit -----------------------------
(****************************************************************************)
(* Package accountlimit: the payment processing node sets the limits of an  *)
(* account: the storage goes to a file node first, and all of them to the   *)
(* database then.  The two are kept by different systems; nothing but the   *)
(* order of the writes holds them together.                                 *)
(****************************************************************************)
EXTENDS Integers, FiniteSets

CONSTANTS
    LimitAccounts,
    Tariffs,            \* limits that are set
    NoTariff,           \* no limit is stored: the default limits hold
    Setters,            \* AccountLimitsSet calls that may be open at once
    MaxSetCalls,        \* bound: calls in a behaviour
    MaxSetFaults        \* bound: failures and restarts in a behaviour

ASSUME TariffsAssumption == NoTariff \notin Tariffs
ASSUME SetBoundsAssumption == MaxSetCalls \in Nat /\ MaxSetFaults \in Nat

VARIABLES
    fileLimits,         \* the tariff whose storage, fileStorageBytes, the file nodes keep
    dbLimits,           \* collection "accountLimit": the tariff with all its limits
    setCalls,           \* the call each handler works on
    setCount,           \* calls received
    setFaults,          \* faults happened
    unequal             \* history: accounts with an overlap or failure and no whole
                        \*          call since

limitVars == <<fileLimits, dbLimits, setCalls, setCount, setFaults, unequal>>

NoSetCall == [at |-> "idle"]

SetCall == [at : {"file", "db"}, account : LimitAccounts, tariff : Tariffs, alone : BOOLEAN]

LimitTypeOK ==
    /\ fileLimits \in [LimitAccounts -> Tariffs \cup {NoTariff}]
    /\ dbLimits \in [LimitAccounts -> Tariffs \cup {NoTariff}]
    /\ setCalls \in [Setters -> SetCall \cup {NoSetCall}]
    /\ setCount \in 0 .. MaxSetCalls
    /\ setFaults \in 0 .. MaxSetFaults
    /\ unequal \in SUBSET LimitAccounts

LimitInit ==
    /\ fileLimits = [i \in LimitAccounts |-> NoTariff]
    /\ dbLimits = [i \in LimitAccounts |-> NoTariff]
    /\ setCalls = [h \in Setters |-> NoSetCall]
    /\ setCount = 0
    /\ setFaults = 0
    /\ unequal = {}

SettersOf(i) == {h \in Setters : setCalls[h] # NoSetCall /\ setCalls[h].account = i}

\* AccountLimitsSet of a payment processing node; any other peer is refused.
AccountLimitsSet(h, i, tariff) ==
    LET others == SettersOf(i)
    IN  /\ setCalls[h] = NoSetCall
        /\ setCount < MaxSetCalls
        /\ setCount' = setCount + 1
        /\ setCalls' = [g \in Setters |->
                IF g = h THEN [at |-> "file", account |-> i, tariff |-> tariff,
                               alone |-> others = {}]
                ELSE IF g \in others THEN [setCalls[g] EXCEPT !.alone = FALSE]
                ELSE setCalls[g]]
        /\ unequal' = IF others = {} THEN unequal ELSE unequal \cup {i}
        /\ UNCHANGED <<fileLimits, dbLimits, setFaults>>

\* A file node takes the storage of the tariff; the other limits stay here.
UpdateFileLimits(h) ==
    LET call == setCalls[h]
    IN  /\ call.at = "file"
        /\ fileLimits' = [fileLimits EXCEPT ![call.account] = call.tariff]
        /\ setCalls' = [setCalls EXCEPT ![h].at = "db"]
        /\ UNCHANGED <<dbLimits, setCount, setFaults, unequal>>

\* Faulty variant for LimitsAgree: an update of a document that does not exist.
StoredNoUpsert(i, tariff) == IF dbLimits[i] = NoTariff THEN NoTariff ELSE tariff

\* An upsert.
Stored(i, tariff) == tariff

UpdateDbLimits(h) ==
    LET call == setCalls[h]
    IN  /\ call.at = "db"
        /\ dbLimits' = [dbLimits EXCEPT ![call.account] = Stored(call.account, call.tariff)]
        /\ setCalls' = [setCalls EXCEPT ![h] = NoSetCall]
        /\ unequal' = IF call.alone THEN unequal \ {call.account} ELSE unequal
        /\ UNCHANGED <<fileLimits, setCount, setFaults>>

\* Calls end half-way: the file node or the database does not answer, or the
\* coordinator stops.  The payment node calls again, or does not.
SetCallsFail(H) ==
    /\ H # {}
    /\ setFaults < MaxSetFaults
    /\ setFaults' = setFaults + 1
    /\ setCalls' = [h \in Setters |-> IF h \in H THEN NoSetCall ELSE setCalls[h]]
    /\ unequal' = unequal \cup {setCalls[h].account : h \in H}
    /\ UNCHANGED <<fileLimits, dbLimits, setCount>>

LimitNext ==
    \/ \E h \in Setters, i \in LimitAccounts, tariff \in Tariffs : AccountLimitsSet(h, i, tariff)
    \/ \E h \in Setters : UpdateFileLimits(h) \/ UpdateDbLimits(h)
    \/ \E H \in SUBSET {h \in Setters : setCalls[h] # NoSetCall} : SetCallsFail(H)

LimitSpec == LimitInit /\ [][LimitNext]_limitVars

----------------------------------------------------------------------------
(* Properties.                                                              *)

\* File nodes and database agree on the tariff of an account, except while a call
\* sets them, and after calls that overlapped or failed, which the next call that
\* runs alone and to its end repairs.
LimitsAgree ==
    \A i \in LimitAccounts \ unequal :
        dbLimits[i] = fileLimits[i] \/ SettersOf(i) # {}

=============================================================================
