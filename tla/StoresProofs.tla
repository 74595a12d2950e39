----------------------------- MODULE StoresProofs -----------------------------
(****************************************************************************)
(* Theorems about the small stores: the limits of accounts (AccountLimit),  *)
(* the ACL event log and who pages through it (AclEventLog), the network    *)
(* configurations (NodeConf) and the identity repository (IdentityRepo).    *)
(* For any callers, clients, coordinators, calls, page sizes and failures.  *)
(****************************************************************************)
EXTENDS MCStores, FiniteSetTheorems, WellFoundedInduction, TLAPS

----------------------------------------------------------------------------
(* Account limits.                                                          *)

Busy(h) == setCalls[h] # NoSetCall

\* What a call that has come to the database relies on.
DbStage ==
    \A h \in Setters : Busy(h) /\ setCalls[h].at = "db" /\ setCalls[h].alone =>
        fileLimits[setCalls[h].account] = setCalls[h].tariff

\* A call that is alone is the only one of its account; the others are on record.
AloneIsOnly ==
    \A h \in Setters : Busy(h) =>
        IF setCalls[h].alone
        THEN \A g \in Setters : Busy(g) /\ setCalls[g].account = setCalls[h].account => g = h
        ELSE setCalls[h].account \in unequal

\* Until a call has reached the file node, the two stores agree.
EqualBefore ==
    \A i \in LimitAccounts \ unequal :
        (\A h \in Setters : Busy(h) /\ setCalls[h].account = i => setCalls[h].at = "file")
            => dbLimits[i] = fileLimits[i]

LimitInv == LimitTypeOK /\ DbStage /\ AloneIsOnly /\ EqualBefore

LEMMA BusyType ==
    ASSUME LimitTypeOK, NEW h \in Setters
    PROVE  /\ Busy(h) => setCalls[h] \in SetCall
           /\ Busy(h) <=> setCalls[h].at # "idle"
BY DEF LimitTypeOK, Busy, NoSetCall, SetCall

LEMMA LimitInitInv == LimitInit => LimitInv
BY TariffsAssumption, SetBoundsAssumption
DEF LimitInit, LimitInv, LimitTypeOK, DbStage, AloneIsOnly, EqualBefore, Busy

LEMMA SetStep ==
    ASSUME LimitInv, NEW h \in Setters, NEW i \in LimitAccounts, NEW tariff \in Tariffs,
           AccountLimitsSet(h, i, tariff)
    PROVE  LimitInv'
<1>. DEFINE new == [at |-> "file", account |-> i, tariff |-> tariff, alone |-> SettersOf(i) = {}]
<1>1. /\ UNCHANGED <<fileLimits, dbLimits>>
      /\ setCalls' = [g \in Setters |->
            IF g = h THEN new
            ELSE IF g \in SettersOf(i) THEN [setCalls[g] EXCEPT !.alone = FALSE]
            ELSE setCalls[g]]
      /\ ~Busy(h)
  BY DEF AccountLimitsSet, Busy
<1>2. /\ new \in SetCall /\ new.at = "file" /\ new.account = i
      /\ new.alone = (SettersOf(i) = {})
  BY DEF SetCall
<1>3. ASSUME NEW g \in Setters, g # h
      PROVE  /\ Busy(g)' <=> Busy(g)
             /\ Busy(g) => /\ setCalls'[g] \in SetCall
                           /\ setCalls'[g].at = setCalls[g].at
                           /\ setCalls'[g].account = setCalls[g].account
                           /\ setCalls'[g].tariff = setCalls[g].tariff
                           /\ setCalls[g].account = i => ~setCalls'[g].alone
                           /\ setCalls[g].account # i => setCalls'[g].alone = setCalls[g].alone
  <2>1. CASE g \in SettersOf(i)
    <3>1. Busy(g) /\ setCalls[g] \in SetCall /\ setCalls[g].account = i
      BY <2>1, BusyType DEF SettersOf, Busy, LimitInv
    <3>2. setCalls'[g] = [setCalls[g] EXCEPT !.alone = FALSE]
      BY <1>1, <1>3, <2>1
    <3>3. setCalls'[g].at = setCalls[g].at /\ setCalls'[g] \in SetCall
      BY <3>1, <3>2 DEF SetCall
    <3>4. Busy(g)'
      BY <3>1, <3>3 DEF Busy, NoSetCall, SetCall
    <3>. QED
      BY <3>1, <3>2, <3>3, <3>4 DEF SetCall
  <2>2. CASE g \notin SettersOf(i)
    BY <1>1, <1>3, <2>2, BusyType DEF SettersOf, Busy, LimitInv
  <2>. QED
    BY <2>1, <2>2
<1>4. Busy(h)' /\ setCalls'[h] = new
  BY <1>1, <1>2 DEF Busy, NoSetCall, SetCall
<1>5. SettersOf(i) = {g \in Setters : Busy(g) /\ setCalls[g].account = i}
  BY DEF SettersOf, Busy
<1>6. unequal' = IF SettersOf(i) = {} THEN unequal ELSE unequal \cup {i}
  BY DEF AccountLimitsSet
<1>7. LimitTypeOK'
  <2>1. setCalls' \in [Setters -> SetCall \cup {NoSetCall}]
    <3>1. ASSUME NEW g \in Setters PROVE setCalls'[g] \in SetCall \cup {NoSetCall}
      BY <1>1, <1>2, <1>3, <1>4 DEF Busy
    <3>. QED
      BY <1>1, <3>1
  <2>2. unequal' \in SUBSET LimitAccounts
    BY <1>6 DEF LimitInv, LimitTypeOK
  <2>3. setCount' \in 0 .. MaxSetCalls
    BY SetBoundsAssumption DEF AccountLimitsSet, LimitInv, LimitTypeOK
  <2>. QED
    BY <1>1, <2>1, <2>2, <2>3 DEF AccountLimitsSet, LimitInv, LimitTypeOK
<1>9. DbStage'
  <2>. SUFFICES ASSUME NEW g \in Setters, Busy(g)', setCalls'[g].at = "db", setCalls'[g].alone
                PROVE  fileLimits[setCalls'[g].account] = setCalls'[g].tariff
    BY <1>1 DEF DbStage
  <2>1. g # h
    BY <1>2, <1>4
  <2>2. Busy(g) /\ setCalls[g].at = "db"
    BY <1>3, <2>1
  <2>. QED
    BY <1>3, <2>1, <2>2 DEF LimitInv, DbStage
<1>10. AloneIsOnly'
  <2>. SUFFICES ASSUME NEW g \in Setters, Busy(g)'
                PROVE  IF setCalls'[g].alone
                       THEN \A f \in Setters :
                                Busy(f)' /\ setCalls'[f].account = setCalls'[g].account => f = g
                       ELSE setCalls'[g].account \in unequal'
    BY DEF AloneIsOnly
  <2>1. CASE g = h
    <3>1. /\ setCalls'[g].account = i
          /\ setCalls'[g].alone <=> SettersOf(i) = {}
      BY <1>2, <1>4, <2>1
    <3>2. \A f \in Setters \ {h} :
              Busy(f)' /\ setCalls'[f].account = i => f \in SettersOf(i)
      BY <1>3, <1>5
    <3>. QED
      BY <1>6, <2>1, <3>1, <3>2
  <2>2. CASE g # h /\ setCalls[g].account = i
    BY <1>3, <1>5, <1>6, <2>2
  <2>3. CASE g # h /\ setCalls[g].account # i
    BY <1>2, <1>3, <1>4, <1>6, <2>3 DEF LimitInv, AloneIsOnly
  <2>. QED
    BY <2>1, <2>2, <2>3
<1>11. EqualBefore'
  <2>. SUFFICES ASSUME NEW j \in LimitAccounts \ unequal',
                       \A g \in Setters :
                           Busy(g)' /\ setCalls'[g].account = j => setCalls'[g].at = "file"
                PROVE  dbLimits[j] = fileLimits[j]
    BY <1>1 DEF EqualBefore
  <2>1. j \in LimitAccounts \ unequal
    BY <1>6
  <2>2. \A g \in Setters : Busy(g) /\ setCalls[g].account = j => setCalls[g].at = "file"
    BY <1>1, <1>3
  <2>. QED
    BY <2>1, <2>2 DEF LimitInv, EqualBefore
<1>. QED
  BY <1>7, <1>9, <1>10, <1>11 DEF LimitInv

LEMMA FileStep ==
    ASSUME LimitInv, NEW h \in Setters, UpdateFileLimits(h)
    PROVE  LimitInv'
<1>. DEFINE i == setCalls[h].account
            new == [setCalls[h] EXCEPT !.at = "db"]
<1>1. /\ Busy(h) /\ setCalls[h] \in SetCall /\ setCalls[h].at = "file" /\ i \in LimitAccounts
      /\ setCalls[h].tariff \in Tariffs
  BY BusyType DEF UpdateFileLimits, LimitInv, SetCall
<1>2. /\ setCalls' = [setCalls EXCEPT ![h] = new]
      /\ fileLimits' = [fileLimits EXCEPT ![i] = setCalls[h].tariff]
      /\ UNCHANGED <<dbLimits, setCount, setFaults, unequal>>
  BY DEF UpdateFileLimits
<1>3. /\ new \in SetCall /\ new.at = "db" /\ new.account = i
      /\ new.tariff = setCalls[h].tariff /\ new.alone = setCalls[h].alone
  BY <1>1 DEF SetCall
<1>4. LimitTypeOK'
  BY <1>1, <1>2, <1>3 DEF LimitInv, LimitTypeOK
<1>5. /\ setCalls'[h] = new
      /\ \A g \in Setters \ {h} : setCalls'[g] = setCalls[g] /\ (Busy(g)' <=> Busy(g))
      /\ Busy(h)'
  <2>1. setCalls'[h] = new /\ \A g \in Setters \ {h} : setCalls'[g] = setCalls[g]
    BY <1>2 DEF LimitInv, LimitTypeOK
  <2>. QED
    BY <1>3, <2>1 DEF Busy, NoSetCall, SetCall
<1>7. AloneIsOnly'
  BY <1>1, <1>2, <1>3, <1>5 DEF LimitInv, AloneIsOnly
<1>8. DbStage'
  <2>. SUFFICES ASSUME NEW g \in Setters, Busy(g)', setCalls'[g].at = "db", setCalls'[g].alone
                PROVE  fileLimits'[setCalls'[g].account] = setCalls'[g].tariff
    BY DEF DbStage
  <2>1. CASE g = h
    BY <1>1, <1>2, <1>3, <1>5, <2>1 DEF LimitInv, LimitTypeOK
  <2>2. CASE g # h /\ setCalls[g].account # i
    <3>1. Busy(g) /\ setCalls'[g] = setCalls[g] /\ setCalls[g].account \in LimitAccounts
      BY <1>5, <2>2, BusyType DEF LimitInv, SetCall
    <3>. QED
      BY <1>2, <2>2, <3>1 DEF LimitInv, LimitTypeOK, DbStage
  <2>3. CASE g # h /\ setCalls[g].account = i
    <3>1. Busy(g) /\ setCalls'[g] = setCalls[g]
      BY <1>5, <2>3
    <3>2. ~setCalls[g].alone
      BY <1>1, <2>3, <3>1 DEF LimitInv, AloneIsOnly
    <3>. QED
      BY <1>1, <1>2, <2>3, <3>1, <3>2 DEF LimitInv, LimitTypeOK, DbStage
  <2>. QED
    BY <2>1, <2>2, <2>3
<1>9. EqualBefore'
  <2>. SUFFICES ASSUME NEW j \in LimitAccounts \ unequal,
                       \A g \in Setters :
                           Busy(g)' /\ setCalls'[g].account = j => setCalls'[g].at = "file"
                PROVE  dbLimits[j] = fileLimits'[j]
    BY <1>2 DEF EqualBefore
  <2>1. j # i
    BY <1>3, <1>5
  <2>2. \A g \in Setters : Busy(g) /\ setCalls[g].account = j => setCalls[g].at = "file"
    BY <1>1, <1>5, <2>1
  <2>. QED
    BY <1>2, <2>1, <2>2 DEF LimitInv, LimitTypeOK, EqualBefore
<1>. QED
  BY <1>4, <1>7, <1>8, <1>9 DEF LimitInv

LEMMA DbStep ==
    ASSUME LimitInv, NEW h \in Setters, UpdateDbLimits(h)
    PROVE  LimitInv'
<1>. DEFINE i == setCalls[h].account
<1>1. /\ Busy(h) /\ setCalls[h] \in SetCall /\ setCalls[h].at = "db" /\ i \in LimitAccounts
      /\ setCalls[h].tariff \in Tariffs
  BY BusyType DEF UpdateDbLimits, LimitInv, SetCall
<1>2. /\ setCalls' = [setCalls EXCEPT ![h] = NoSetCall]
      /\ dbLimits' = [dbLimits EXCEPT ![i] = setCalls[h].tariff]
      /\ unequal' = IF setCalls[h].alone THEN unequal \ {i} ELSE unequal
      /\ UNCHANGED <<fileLimits, setCount, setFaults>>
  BY DEF UpdateDbLimits, Stored
<1>3. LimitTypeOK'
  BY <1>1, <1>2 DEF LimitInv, LimitTypeOK
<1>4. /\ ~Busy(h)'
      /\ \A g \in Setters \ {h} : setCalls'[g] = setCalls[g] /\ (Busy(g)' <=> Busy(g))
  BY <1>2 DEF LimitInv, LimitTypeOK, Busy
<1>6. DbStage'
  BY <1>2, <1>4 DEF LimitInv, DbStage
<1>7. AloneIsOnly'
  <2>. SUFFICES ASSUME NEW g \in Setters, Busy(g)'
                PROVE  IF setCalls'[g].alone
                       THEN \A f \in Setters :
                                Busy(f)' /\ setCalls'[f].account = setCalls'[g].account => f = g
                       ELSE setCalls'[g].account \in unequal'
    BY DEF AloneIsOnly
  <2>1. g # h /\ Busy(g) /\ setCalls'[g] = setCalls[g]
    BY <1>4
  <2>2. setCalls[h].alone => setCalls[g].account # i
    BY <1>1, <2>1 DEF LimitInv, AloneIsOnly
  <2>. QED
    BY <1>2, <1>4, <2>1, <2>2 DEF LimitInv, AloneIsOnly
<1>8. EqualBefore'
  <2>. SUFFICES ASSUME NEW j \in LimitAccounts \ unequal',
                       \A g \in Setters :
                           Busy(g)' /\ setCalls'[g].account = j => setCalls'[g].at = "file"
                PROVE  dbLimits'[j] = fileLimits[j]
    BY <1>2 DEF EqualBefore
  <2>1. CASE j = i
    <3>1. setCalls[h].alone
      BY <1>1, <1>2, <2>1 DEF LimitInv, AloneIsOnly
    <3>. QED
      BY <1>1, <1>2, <2>1, <3>1 DEF LimitInv, LimitTypeOK, DbStage
  <2>2. CASE j # i
    <3>1. \A g \in Setters : Busy(g) /\ setCalls[g].account = j => setCalls[g].at = "file"
      BY <1>4, <2>2
    <3>. QED
      BY <1>2, <2>2, <3>1 DEF LimitInv, LimitTypeOK, EqualBefore
  <2>. QED
    BY <2>1, <2>2
<1>. QED
  BY <1>3, <1>6, <1>7, <1>8 DEF LimitInv

LEMMA FailStep ==
    ASSUME LimitInv, NEW H \in SUBSET {h \in Setters : setCalls[h] # NoSetCall}, SetCallsFail(H)
    PROVE  LimitInv'
<1>1. /\ setCalls' = [h \in Setters |-> IF h \in H THEN NoSetCall ELSE setCalls[h]]
      /\ unequal' = unequal \cup {setCalls[h].account : h \in H}
      /\ UNCHANGED <<fileLimits, dbLimits, setCount>>
  BY DEF SetCallsFail
<1>2. LimitTypeOK'
  <2>1. \A h \in H : setCalls[h].account \in LimitAccounts
    BY BusyType DEF LimitInv, Busy, SetCall
  <2>. QED
    BY <1>1, <2>1, SetBoundsAssumption DEF SetCallsFail, LimitInv, LimitTypeOK
<1>3. \A g \in Setters : Busy(g)' => g \notin H /\ Busy(g) /\ setCalls'[g] = setCalls[g]
  BY <1>1 DEF Busy
<1>5. DbStage'
  BY <1>1, <1>3 DEF LimitInv, DbStage
<1>6. AloneIsOnly'
  BY <1>1, <1>3 DEF LimitInv, AloneIsOnly
<1>7. EqualBefore'
  <2>. SUFFICES ASSUME NEW j \in LimitAccounts \ unequal',
                       \A g \in Setters :
                           Busy(g)' /\ setCalls'[g].account = j => setCalls'[g].at = "file"
                PROVE  dbLimits[j] = fileLimits[j]
    BY <1>1 DEF EqualBefore
  <2>1. \A g \in Setters : Busy(g) /\ setCalls[g].account = j =>
            Busy(g)' /\ setCalls'[g] = setCalls[g]
    BY <1>1 DEF Busy
  <2>. QED
    BY <1>1, <2>1 DEF LimitInv, EqualBefore
<1>. QED
  BY <1>2, <1>5, <1>6, <1>7 DEF LimitInv

LEMMA LimitStep == LimitInv /\ [LimitNext]_limitVars => LimitInv'
<1>. SUFFICES ASSUME LimitInv, [LimitNext]_limitVars PROVE LimitInv'
  OBVIOUS
<1>1. CASE LimitNext
  BY <1>1, SetStep, FileStep, DbStep, FailStep DEF LimitNext
<1>2. CASE UNCHANGED limitVars
  BY <1>2 DEF limitVars, LimitInv, LimitTypeOK, DbStage, AloneIsOnly, EqualBefore, Busy
<1>. QED
  BY <1>1, <1>2

LEMMA EqualBeforeSuffices == LimitInv => LimitsAgree
<1>. SUFFICES ASSUME LimitInv, NEW i \in LimitAccounts \ unequal, SettersOf(i) = {}
              PROVE  dbLimits[i] = fileLimits[i]
  BY DEF LimitsAgree
<1>1. \A h \in Setters : ~(Busy(h) /\ setCalls[h].account = i)
  BY DEF SettersOf, Busy
<1>. QED
  BY <1>1 DEF LimitInv, EqualBefore

\* File nodes and database agree when nothing is under way, and one whole call repairs
\* what overlapping or failing calls of SetLimits left behind.
THEOREM LimitsComeToAgree == LimitSpec => []LimitsAgree
BY EqualBeforeSuffices, LimitInitInv, LimitStep, PTL DEF LimitSpec

----------------------------------------------------------------------------
(* Pages.                                                                   *)

\* What comes before a record that is returned is returned.
LEMMA FirstIsInitial ==
    ASSUME NEW records, IsFiniteSet(records), \A x \in records : x.id \in Nat,
           NEW after \in Nat, NEW n \in Nat, NEW r \in FirstAfter(records, after, n),
           NEW q \in records, q.id > after, q.id <= r.id
    PROVE  q \in FirstAfter(records, after, n)
<1> DEFINE rest == {x \in records : x.id > after}
           Upto(x) == {y \in rest : y.id <= x.id}
<1>1. r \in rest /\ Cardinality(Upto(r)) <= n
  BY DEF FirstAfter
<1>2. Upto(q) \subseteq Upto(r) /\ Upto(r) \subseteq records
  BY <1>1
<1>3. IsFiniteSet(Upto(r))
  BY <1>2, FS_Subset
<1>4. /\ Cardinality(Upto(q)) <= Cardinality(Upto(r))
      /\ Cardinality(Upto(q)) \in Nat /\ Cardinality(Upto(r)) \in Nat
  BY <1>2, <1>3, FS_Subset, FS_CardinalityType
<1>5. Cardinality(Upto(q)) <= n
  BY <1>1, <1>4
<1>. QED
  BY <1>5 DEF FirstAfter

LEMMA PageSizeType == ASSUME NEW limit \in Nat PROVE PageSize(limit) \in Nat \ {0}
  BY DefaultLimitAssumption DEF PageSize

LEMMA PageIsNewer ==
    ASSUME NEW records, NEW after, NEW limit
    PROVE  GetAfter(records, after, limit).page \subseteq {r \in records : r.id > after}
  BY DEF GetAfter, Fetched, FirstAfter

\* A page has no gap: taking the extra record off leaves an initial part.
LEMMA PageIsInitial ==
    ASSUME NEW records, IsFiniteSet(records), \A x \in records : x.id \in Nat,
           NEW after \in Nat, NEW limit \in Nat, NEW r \in GetAfter(records, after, limit).page,
           NEW q \in records, q.id > after, q.id <= r.id
    PROVE  q \in GetAfter(records, after, limit).page
<1> DEFINE fetched == Fetched(records, after, limit)
           more    == Cardinality(fetched) = PageSize(limit) + 1
           surplus == {x \in fetched : more /\ \A y \in fetched : y.id <= x.id}
<1>1. GetAfter(records, after, limit).page = fetched \ surplus
  BY DEF GetAfter
<1>2. fetched = FirstAfter(records, after, PageSize(limit) + 1) /\ fetched \subseteq records
  BY DEF Fetched, FirstAfter
<1>3. q \in fetched
  <2>1. r \in FirstAfter(records, after, PageSize(limit) + 1)
    BY <1>1, <1>2
  <2>2. PageSize(limit) + 1 \in Nat
    BY PageSizeType
  <2>. QED
    BY <1>2, <2>1, <2>2, FirstIsInitial
<1>4. ASSUME q \in surplus PROVE FALSE
  <2>1. r \in fetched /\ r \in records /\ more
    BY <1>1, <1>2, <1>4
  <2>2. r.id = q.id
    BY <1>4, <2>1
  <2>3. r \in surplus
    BY <1>4, <2>1, <2>2
  <2>. QED
    BY <1>1, <2>3
<1>. QED
  BY <1>1, <1>3, <1>4

\* Among subsets of a finite set there is a smallest one.
LEMMA SomeIsMinimal ==
    ASSUME NEW M, IsFiniteSet(M), M # {}, NEW f \in [M -> SUBSET M]
    PROVE  \E m \in M : \A n \in M : f[n] \subseteq f[m] => f[n] = f[m]
<1> DEFINE All == {f[m] : m \in M}
<1>1. All \subseteq FiniteSubsetsOf(M) /\ All # {}
  <2>1. \A m \in M : f[m] \in FiniteSubsetsOf(M)
    BY FS_Subset DEF FiniteSubsetsOf
  <2>. QED
    BY <2>1
<1>2. PICK U \in All : \A V \in All : <<V, U>> \notin StrictSubsetOrdering(M)
  BY <1>1, FS_StrictSubsetOrderingWellFounded, WFMin
<1>3. PICK m \in M : U = f[m]
  BY <1>2
<1>4. \A n \in M : f[n] \subseteq f[m] => f[n] = f[m]
  BY <1>2, <1>3 DEF StrictSubsetOrdering
<1>. QED
  BY <1>4

\* A finite set of records has one with the highest id, and one with the lowest.
LEMMA SetHasLast ==
    ASSUME NEW M, IsFiniteSet(M), M # {}, \A m \in M : m.id \in Nat
    PROVE  \E m \in M : \A n \in M : n.id <= m.id
<1> DEFINE above == [m \in M |-> {n \in M : n.id > m.id}]
<1>1. above \in [M -> SUBSET M]
  OBVIOUS
<1>2. PICK m \in M : \A n \in M : above[n] \subseteq above[m] => above[n] = above[m]
  <2>. HIDE DEF above
  <2>. QED
    BY <1>1, SomeIsMinimal
<1>3. ASSUME NEW n \in M, n.id > m.id PROVE FALSE
  <2>1. above[n] \subseteq above[m] /\ n \in above[m] /\ n \notin above[n]
    BY <1>3
  <2>. QED
    BY <1>2, <2>1
<1>. QED
  BY <1>3

LEMMA SetHasFirst ==
    ASSUME NEW M, IsFiniteSet(M), M # {}, \A m \in M : m.id \in Nat
    PROVE  \E m \in M : \A n \in M : m.id <= n.id
<1> DEFINE below == [m \in M |-> {n \in M : n.id < m.id}]
<1>1. below \in [M -> SUBSET M]
  OBVIOUS
<1>2. PICK m \in M : \A n \in M : below[n] \subseteq below[m] => below[n] = below[m]
  <2>. HIDE DEF below
  <2>. QED
    BY <1>1, SomeIsMinimal
<1>3. ASSUME NEW n \in M, n.id < m.id PROVE FALSE
  <2>1. below[n] \subseteq below[m] /\ n \in below[m] /\ n \notin below[n]
    BY <1>3
  <2>. QED
    BY <1>2, <2>1
<1>. QED
  BY <1>3

----------------------------------------------------------------------------
(* The ACL event log.                                                       *)

Backed(e) == e.type = "SpaceReceipt" =>
                 \E receipt \in receipts : receipt.sign = e.sign /\ receipt.owner = e.owner

EventInv ==
    /\ signed \in SUBSET Receipt
    /\ adding \in SUBSET LogEvent
    /\ eventLog \in SUBSET LogEvent
    /\ eventId \in Nat
    /\ signs \in Nat
    /\ eventCursor \in [Owners -> Nat]
    /\ eventsRead \in [Owners -> SUBSET LogEvent]
    /\ IsFiniteSet(eventLog)
    /\ adding \cap eventLog = {}
    /\ \A e \in adding \cup eventLog : e.id <= eventId /\ Backed(e)
    /\ lateEvents \subseteq eventLog
    /\ \A e \in lateEvents : e.id <= eventCursor[e.owner]
    /\ ReadersMissNothing

LEMMA EventInitInv == EventInit => EventInv
<1>. SUFFICES ASSUME EventInit PROVE EventInv
  OBVIOUS
<1>1. IsFiniteSet(eventLog)
  BY FS_EmptySet DEF EventInit
<1>. QED
  BY <1>1 DEF EventInit, EventInv, ReadersMissNothing

\* An event that gets an id is younger than all there are.
LEMMA DrawStep ==
    ASSUME EventInv, NEW owner \in Owners, NEW type \in EntryTypes, NEW sign \in Nat,
           DrawEventId(owner, type, sign), receipts \subseteq receipts', signed' \subseteq signed,
           type = "SpaceReceipt" =>
               \E receipt \in receipts' : receipt.sign = sign /\ receipt.owner = owner,
           UNCHANGED <<eventLog, signs, readers, lateEvents>>
    PROVE  EventInv'
<1> DEFINE e == [id |-> eventId + 1, owner |-> owner, type |-> type, sign |-> sign]
<1>1. /\ eventId' = eventId + 1 /\ adding' = adding \cup {e}
      /\ UNCHANGED <<eventLog, signs, eventCursor, eventsRead, lateEvents>>
  BY DEF DrawEventId, readers
<1>2. e \in LogEvent /\ eventId + 1 \in Nat
  BY DEF LogEvent, EventInv
<1>3. e.id = eventId + 1 /\ e.type = type /\ e.sign = sign /\ e.owner = owner
  OBVIOUS
<1>. HIDE DEF e
<1>4. \A x \in adding \cup eventLog : x.id \in Nat /\ x.id <= eventId /\ x # e
  <2>1. \A x \in adding \cup eventLog : x.id \in Nat /\ x.id <= eventId
    BY DEF EventInv, LogEvent
  <2>. QED
    BY <1>3, <2>1 DEF EventInv
<1>5. \A x \in adding' \cup eventLog' : x.id <= eventId'
  BY <1>1, <1>3, <1>4 DEF EventInv
<1>6. \A x \in adding' \cup eventLog' : Backed(x)'
  BY <1>1, <1>3 DEF EventInv, Backed
<1>7. adding' \cap eventLog' = {}
  BY <1>1, <1>4 DEF EventInv
<1>8. adding' \in SUBSET LogEvent /\ eventId' \in Nat
  BY <1>1, <1>2 DEF EventInv
<1>. QED
  BY <1>1, <1>5, <1>6, <1>7, <1>8 DEF EventInv, ReadersMissNothing

LEMMA InsertStep == ASSUME EventInv, NEW e \in adding, InsertEvent(e) PROVE EventInv'
<1>1. /\ adding' = adding \ {e} /\ eventLog' = eventLog \cup {e}
      /\ lateEvents' = IF e.id <= eventCursor[e.owner] THEN lateEvents \cup {e} ELSE lateEvents
      /\ UNCHANGED <<signed, receipts, eventId, signs, eventCursor, eventsRead>>
  BY DEF InsertEvent, readers
<1>2. e \notin eventLog /\ e \in LogEvent
  BY DEF EventInv
<1>3. IsFiniteSet(eventLog')
  BY <1>1, FS_AddElement DEF EventInv
<1>4. ReadersMissNothing'
  <2>. SUFFICES ASSUME NEW o \in Owners
                PROVE  eventsRead[o] =
                         {x \in eventLog' : x.owner = o /\ x.id <= eventCursor[o]} \ lateEvents'
    BY <1>1 DEF ReadersMissNothing
  <2>1. eventsRead[o] = {x \in eventLog : x.owner = o /\ x.id <= eventCursor[o]} \ lateEvents
    BY DEF EventInv, ReadersMissNothing
  <2>2. lateEvents' \cap eventLog = lateEvents \cap eventLog
    BY <1>1, <1>2
  <2>3. e.owner = o /\ e.id <= eventCursor[o] => e \in lateEvents'
    BY <1>1
  <2>. QED
    BY <1>1, <1>2, <2>1, <2>2, <2>3
<1>5. \A x \in adding' \cup eventLog' : x.id <= eventId' /\ Backed(x)'
  BY <1>1 DEF EventInv, Backed
<1>6. lateEvents' \subseteq eventLog' /\ \A x \in lateEvents' : x.id <= eventCursor'[x.owner]
  BY <1>1 DEF EventInv
<1>. QED
  BY <1>1, <1>2, <1>3, <1>4, <1>5, <1>6 DEF EventInv

\* A page moves the reader's id over its events, and nothing lies between.
LEMMA ReadStep == ASSUME EventInv, NEW o \in Owners, ReadEvents(o) PROVE EventInv'
<1>1. PICK limit \in PageLimits :
         LET page == GetAfter(Query(o, eventCursor[o]), eventCursor[o], limit).page
         IN  /\ page # {}
             /\ eventsRead' = [eventsRead EXCEPT ![o] = @ \cup page]
             /\ eventCursor' = [eventCursor EXCEPT ![o] =
                     CHOOSE i \in {e.id : e \in page} : \A e \in page : e.id <= i]
             /\ UNCHANGED <<signed, receipts, adding, eventLog, eventId, signs, lateEvents>>
  BY DEF ReadEvents
<1> DEFINE mine == Query(o, eventCursor[o])
           page == GetAfter(mine, eventCursor[o], limit).page
           last == CHOOSE i \in {e.id : e \in page} : \A e \in page : e.id <= i
<1>2. limit \in Nat /\ eventCursor[o] \in Nat
  BY EventsAssumption DEF EventInv
<1>3. /\ mine = {e \in eventLog : e.owner = o} /\ IsFiniteSet(mine)
      /\ \A e \in mine : e.id \in Nat
  <2>1. mine = {e \in eventLog : e.owner = o}
    BY DEF Query
  <2>2. mine \subseteq eventLog
    BY <2>1
  <2>. HIDE DEF mine
  <2>. QED
    BY <2>1, <2>2, FS_Subset DEF EventInv, LogEvent
<1>4. page \subseteq {e \in mine : e.id > eventCursor[o]}
  BY PageIsNewer
<1>5. \A r \in page : \A q \in mine : q.id > eventCursor[o] /\ q.id <= r.id => q \in page
  BY <1>2, <1>3, PageIsInitial
<1>6. /\ page # {} /\ eventsRead' = [eventsRead EXCEPT ![o] = @ \cup page]
      /\ eventCursor' = [eventCursor EXCEPT ![o] = last]
      /\ UNCHANGED <<signed, receipts, adding, eventLog, eventId, signs, lateEvents>>
  BY <1>1
<1>. HIDE DEF page, mine
<1>7. PICK m \in page : last = m.id /\ \A e \in page : e.id <= m.id
  <2>1. IsFiniteSet(page)
    BY <1>3, <1>4, FS_Subset
  <2>2. \E m \in page : \A n \in page : n.id <= m.id
    BY <1>3, <1>4, <1>6, <2>1, SetHasLast
  <2>. QED
    BY <2>2
<1>. HIDE DEF last
<1>8. m \in mine /\ m.id \in Nat /\ m.id > eventCursor[o] /\ page \subseteq LogEvent
  BY <1>3, <1>4, <1>7 DEF EventInv
<1>9. /\ eventCursor'[o] = m.id /\ eventsRead'[o] = eventsRead[o] \cup page
      /\ eventCursor' \in [Owners -> Nat] /\ eventsRead' \in [Owners -> SUBSET LogEvent]
      /\ \A x \in Owners \ {o} : eventCursor'[x] = eventCursor[x] /\ eventsRead'[x] = eventsRead[x]
  BY <1>6, <1>7, <1>8 DEF EventInv
<1>10. \A e \in eventLog : e.id \in Nat /\ e.owner \in Owners
  BY DEF EventInv, LogEvent
<1>11. \A e \in lateEvents : e.id <= eventCursor'[e.owner] /\ e \notin page
  <2>. SUFFICES ASSUME NEW e \in lateEvents PROVE e.id <= eventCursor'[e.owner] /\ e \notin page
    OBVIOUS
  <2>1. e \in eventLog /\ e.id \in Nat /\ e.owner \in Owners /\ e.id <= eventCursor[e.owner]
    BY <1>10 DEF EventInv
  <2>2. CASE e.owner = o
    BY <1>2, <1>4, <1>8, <1>9, <2>1, <2>2
  <2>3. CASE e.owner # o
    BY <1>3, <1>4, <1>9, <2>1, <2>3
  <2>. QED
    BY <2>2, <2>3
<1>12. ReadersMissNothing'
  <2>1. eventsRead'[o] = {e \in eventLog : e.owner = o /\ e.id <= m.id} \ lateEvents
    <3>1. eventsRead[o] = {e \in eventLog : e.owner = o /\ e.id <= eventCursor[o]} \ lateEvents
      BY DEF EventInv, ReadersMissNothing
    <3>2. page = {e \in eventLog : e.owner = o /\ e.id > eventCursor[o] /\ e.id <= m.id}
      BY <1>3, <1>4, <1>5, <1>7
    <3>. QED
      BY <1>2, <1>8, <1>9, <1>10, <1>11, <3>1, <3>2
  <2>2. \A x \in Owners \ {o} : eventsRead'[x] =
            {e \in eventLog : e.owner = x /\ e.id <= eventCursor'[x]} \ lateEvents
    BY <1>9 DEF EventInv, ReadersMissNothing
  <2>. QED
    BY <1>6, <1>9, <2>1, <2>2 DEF ReadersMissNothing
<1>. QED
  BY <1>6, <1>9, <1>11, <1>12 DEF EventInv, Backed

LEMMA EventStep == EventInv /\ [EventNext]_eventVars => EventInv'
<1>. SUFFICES ASSUME EventInv, [EventNext]_eventVars PROVE EventInv'
  OBVIOUS
<1>1. ASSUME NEW o \in Owners, SpaceSign(o) PROVE EventInv'
  BY <1>1 DEF SpaceSign, readers, EventInv, Backed, ReadersMissNothing, Receipt
<1>2. ASSUME NEW o \in Owners, ReadEvents(o) PROVE EventInv'
  BY <1>2, ReadStep
<1>3. ASSUME NEW o \in Owners, NEW type \in EntryTypes \ {"SpaceReceipt"}, AddLog(o, type)
      PROVE  EventInv'
  BY <1>3, DrawStep DEF AddLog
<1>4. ASSUME NEW receipt \in signed, AddCoordinatorLog(receipt) PROVE EventInv'
  <2>1. receipt.owner \in Owners /\ receipt.sign \in Nat /\ "SpaceReceipt" \in EntryTypes
    BY DEF EventInv, Receipt, EntryTypes
  <2>2. /\ receipts' = receipts \cup {receipt} /\ signed' = signed \ {receipt}
        /\ DrawEventId(receipt.owner, "SpaceReceipt", receipt.sign)
        /\ UNCHANGED <<eventLog, signs, readers, lateEvents>>
    BY <1>4 DEF AddCoordinatorLog
  <2>. QED
    BY <2>1, <2>2, DrawStep
<1>5. ASSUME NEW receipt \in signed, LoseReceipt(receipt) PROVE EventInv'
  BY <1>5 DEF LoseReceipt, readers, EventInv, Backed, ReadersMissNothing
<1>6. ASSUME NEW event \in adding, InsertEvent(event) PROVE EventInv'
  BY <1>6, InsertStep
<1>7. ASSUME NEW event \in adding, LoseEvent(event) PROVE EventInv'
  BY <1>7 DEF LoseEvent, readers, EventInv, Backed, ReadersMissNothing
<1>8. CASE UNCHANGED eventVars
  BY <1>8 DEF eventVars, EventInv, Backed, ReadersMissNothing
<1>. QED
  BY <1>1, <1>2, <1>3, <1>4, <1>5, <1>6, <1>7, <1>8 DEF EventNext

LEMMA EventAlways == EventSpec => []EventInv
  BY EventInitInv, EventStep, PTL DEF EventSpec

\* For any page sizes, owners and writers: what an account's reader was given is all
\* there is up to its id, but for events inserted below it.
THEOREM EventReadersMissNothing == EventSpec => []ReadersMissNothing
<1>1. EventInv => ReadersMissNothing
  BY DEF EventInv
<1>. QED
  BY <1>1, EventAlways, PTL

\* For any losses: an event about a receipt has its receipt in the coordinator log.
THEOREM EventsAreBacked == EventSpec => []EventHasReceipt
<1>1. EventInv => EventHasReceipt
  BY DEF EventInv, EventHasReceipt, Backed
<1>. QED
  BY <1>1, EventAlways, PTL

\* What EventInv leaves of the type invariant.
EventBounds ==
    /\ receipts \in SUBSET Receipt
    /\ eventId \in 0 .. MaxEvents
    /\ signs \in 0 .. MaxEvents

LEMMA EventBoundsStep == EventInv /\ EventBounds /\ [EventNext]_eventVars => EventBounds'
<1>. SUFFICES ASSUME EventInv, EventBounds, [EventNext]_eventVars PROVE EventBounds'
  OBVIOUS
<1>1. MaxEvents \in Nat /\ signed \subseteq Receipt
  BY EventsAssumption DEF EventInv
<1>2. /\ receipts' = receipts \/ \E receipt \in signed : receipts' = receipts \cup {receipt}
      /\ eventId' = eventId \/ (eventId < MaxEvents /\ eventId' = eventId + 1)
      /\ signs' = signs \/ (signs < MaxEvents /\ signs' = signs + 1)
  <2>1. CASE \E o \in Owners : SpaceSign(o) \/ ReadEvents(o)
    BY <2>1 DEF SpaceSign, ReadEvents
  <2>2. CASE \E o \in Owners, type \in EntryTypes \ {"SpaceReceipt"} : AddLog(o, type)
    BY <2>2 DEF AddLog, DrawEventId
  <2>3. CASE \E receipt \in signed : AddCoordinatorLog(receipt) \/ LoseReceipt(receipt)
    BY <2>3 DEF AddCoordinatorLog, LoseReceipt, DrawEventId
  <2>4. CASE \E event \in adding : InsertEvent(event) \/ LoseEvent(event)
    BY <2>4 DEF InsertEvent, LoseEvent
  <2>5. CASE UNCHANGED eventVars
    BY <2>5 DEF eventVars
  <2>. QED
    BY <2>1, <2>2, <2>3, <2>4, <2>5 DEF EventNext
<1>. QED
  BY <1>1, <1>2 DEF EventBounds

LEMMA EventTypes == EventInv /\ EventBounds => EventTypeOK
  BY DEF EventInv, EventBounds, EventTypeOK

----------------------------------------------------------------------------
(* Network configurations.                                                  *)

\* A configuration that coordinators and clients may go by.
Usable(i) == i = 0 \/ \E conf \in nodeConf : conf.id = i /\ conf.nodes /\ conf.enable

ConfInv ==
    /\ nodeConf \in SUBSET Conf /\ inserting \in SUBSET Conf
    /\ IsFiniteSet(nodeConf)
    /\ confId \in 0 .. MaxConfs
    /\ served \in [Coordinators -> Nat]
    /\ known \in [Clients -> Nat]
    /\ \A conf \in nodeConf \cup inserting : conf.nodes
    /\ \A c \in Coordinators : Usable(served[c])
    /\ \A c \in Clients : Usable(known[c])

\* A finite set of configurations has a youngest one: the fewer are younger, the
\* younger it is.
LEMMA SomeIsYoungest ==
    ASSUME NEW M, IsFiniteSet(M), M # {}, \A m \in M : m.id \in Nat
    PROVE  \E m \in M : \A n \in M : n.id <= m.id
<1> DEFINE younger(m) == {n \in M : n.id > m.id}
           All == {younger(m) : m \in M}
<1>1. All \subseteq FiniteSubsetsOf(M) /\ All # {}
  <2>1. \A m \in M : younger(m) \in FiniteSubsetsOf(M)
    BY FS_Subset DEF FiniteSubsetsOf
  <2>. QED
    BY <2>1
<1>2. PICK U \in All : \A V \in All : <<V, U>> \notin StrictSubsetOrdering(M)
  BY <1>1, FS_StrictSubsetOrderingWellFounded, WFMin
<1>3. PICK m \in M : U = younger(m)
  BY <1>2
<1>4. ASSUME NEW n \in M, n.id > m.id PROVE FALSE
  <2>1. younger(n) \subseteq younger(m) /\ n \in younger(m) /\ n \notin younger(n)
    BY <1>4
  <2>2. <<younger(n), U>> \in StrictSubsetOrdering(M)
    BY <1>3, <2>1 DEF StrictSubsetOrdering
  <2>. QED
    BY <1>2, <2>2
<1>. QED
  BY <1>4

\* What find({enable: true}).sort({_id: -1}) returns.
LEMMA LastEnabled ==
    ASSUME ConfInv, Enabled # {}
    PROVE  LET last == LastOf({conf.id : conf \in Enabled})
           IN  /\ last \in Nat /\ last # 0 => Usable(last)
               /\ \A conf \in Enabled : conf.id <= last
               /\ \E conf \in Enabled : conf.id = last
<1> DEFINE ids == {conf.id : conf \in Enabled}
           last == LastOf(ids)
<1>1. IsFiniteSet(Enabled) /\ \A conf \in Enabled : conf.id \in Nat /\ conf.nodes /\ conf.enable
  BY FS_Subset DEF ConfInv, Enabled, Conf
<1>2. PICK m \in Enabled : \A n \in Enabled : n.id <= m.id
  BY <1>1, SomeIsYoungest
<1>3. m.id \in ids /\ \A i \in ids : m.id >= i
  BY <1>1, <1>2
<1>4. last \in ids /\ \A i \in ids : last >= i
  BY <1>3 DEF LastOf, Max
<1>5. PICK conf \in Enabled : conf.id = last
  BY <1>4
<1>6. \A n \in Enabled : n.id <= last
  BY <1>1, <1>4, <1>5
<1>7. Usable(last)
  BY <1>1, <1>5 DEF Usable, Enabled
<1>. QED
  BY <1>1, <1>5, <1>6, <1>7

LEMMA ConfInitInv == ConfInit => ConfInv
BY MaxConfsAssumption, FS_EmptySet DEF ConfInit, ConfInv, Usable

LEMMA ConfStep == ConfInv /\ [ConfNext]_confVars => ConfInv'
<1>. SUFFICES ASSUME ConfInv, [ConfNext]_confVars PROVE ConfInv'
  OBVIOUS
<1>1. ASSUME NEW nodes \in BOOLEAN, NEW enable \in BOOLEAN, AddConf(nodes, enable) PROVE ConfInv'
  <2>1. confId' \in 0 .. MaxConfs
    BY <1>1, MaxConfsAssumption DEF AddConf, ConfInv
  <2> DEFINE new == [id |-> confId', nodes |-> nodes, enable |-> enable]
  <2>2. new \in Conf /\ new.nodes
    BY <1>1, <2>1, MaxConfsAssumption DEF AddConf, Conf
  <2>3. /\ inserting' = inserting \cup {new}
        /\ UNCHANGED <<nodeConf, served, known>>
    BY <1>1 DEF AddConf
  <2>. QED
    BY <2>1, <2>2, <2>3 DEF ConfInv, Usable
<1>2. ASSUME NEW conf \in inserting, InsertConf(conf) PROVE ConfInv'
  <2>1. IsFiniteSet(nodeConf')
    BY <1>2, FS_AddElement DEF InsertConf, ConfInv
  <2>2. \A i : Usable(i) => Usable(i)'
    BY <1>2 DEF InsertConf, Usable
  <2>3. \A c \in Coordinators : Usable(served[c])'
    BY <1>2, <2>2 DEF InsertConf, ConfInv, Usable
  <2>4. \A c \in Clients : Usable(known[c])'
    BY <1>2, <2>2 DEF InsertConf, ConfInv, Usable
  <2>. QED
    BY <1>2, <2>1, <2>3, <2>4 DEF InsertConf, ConfInv
<1>3. ASSUME NEW conf \in inserting, LoseConf(conf) PROVE ConfInv'
  BY <1>3 DEF LoseConf, ConfInv, Usable
<1>4. ASSUME NEW c \in Coordinators, PollLast(c) PROVE ConfInv'
  <2>1. Enabled # {}
    BY <1>4 DEF PollLast
  <2>2. PICK conf \in Enabled : conf.id = LastOf({f.id : f \in Enabled})
    BY <2>1, LastEnabled
  <2>3. conf \in nodeConf /\ conf.id \in Nat /\ conf.nodes /\ conf.enable
    BY <2>2 DEF ConfInv, Enabled, Conf
  <2>4. served' = [served EXCEPT ![c] = conf.id]
    BY <1>4, <2>2 DEF PollLast
  <2>. QED
    BY <1>4, <2>3, <2>4 DEF PollLast, ConfInv, Usable
<1>5. ASSUME NEW client \in Clients, NEW c \in Coordinators, NetworkConfiguration(client, c)
      PROVE ConfInv'
  BY <1>5 DEF NetworkConfiguration, ConfInv, Usable
<1>6. CASE UNCHANGED confVars
  BY <1>6 DEF confVars, ConfInv, Usable
<1>. QED
  BY <1>1, <1>2, <1>3, <1>4, <1>5, <1>6 DEF ConfNext

\* A coordinator that goes by a configuration finds it, or a younger one, when it polls.
LEMMA PollStep == ConfInv /\ [ConfNext]_confVars => [\A c \in Coordinators : served[c] <= served'[c]]_confVars
<1>. SUFFICES ASSUME ConfInv, [ConfNext]_confVars, NEW x \in Coordinators
              PROVE  served[x] <= served'[x]
  OBVIOUS
<1>1. ASSUME NEW c \in Coordinators, PollLast(c) PROVE served[x] <= served'[x]
  <2> DEFINE last == LastOf({conf.id : conf \in Enabled})
  <2>1. /\ Enabled # {}
        /\ served' = [served EXCEPT ![c] = last]
    BY <1>1 DEF PollLast
  <2>2. last \in Nat /\ \A conf \in Enabled : conf.id <= last
    <3>1. \E conf \in Enabled : conf.id = last
      BY <2>1, LastEnabled
    <3>2. \A conf \in Enabled : conf.id \in Nat
      BY DEF ConfInv, Enabled, Conf
    <3>. QED
      BY <2>1, <3>1, <3>2, LastEnabled
  <2>. HIDE DEF last
  <2>3. served[x] = 0 \/ \E conf \in Enabled : conf.id = served[x]
    BY DEF ConfInv, Usable, Enabled
  <2>4. served[x] <= last /\ served[x] \in Nat
    BY <2>2, <2>3 DEF ConfInv
  <2>5. CASE x = c
    BY <2>1, <2>4, <2>5 DEF ConfInv
  <2>6. CASE x # c
    BY <2>1, <2>4, <2>6 DEF ConfInv
  <2>. QED
    BY <2>5, <2>6
<1>2. CASE UNCHANGED served
  BY <1>2 DEF ConfInv
<1>. QED
  BY <1>1, <1>2 DEF ConfNext, AddConf, InsertConf, LoseConf, NetworkConfiguration, confVars

\* Whoever serves or uses a configuration (nodeconfsource.GetLast, networkconfiguration)
\* has one that is in the collection, with nodes, and enabled.
THEOREM OnlyEnabledIsUsed == ConfSpec => []DisabledIsNotUsed
<1>1. ConfInv => DisabledIsNotUsed
  BY DEF ConfInv, DisabledIsNotUsed, Usable
<1>. QED
  BY <1>1, ConfInitInv, ConfStep, PTL DEF ConfSpec

\* A coordinator never goes back to an older configuration, although configurations
\* are inserted in another order than that of their ids.
THEOREM NeverBackToOlder == ConfSpec => ServedIsNewer
BY PollStep, ConfInitInv, ConfStep, PTL DEF ConfSpec, ServedIsNewer

----------------------------------------------------------------------------
(* The identity repository.                                                 *)

\* A document with data of its own account only, or spoilt.
OwnedBy(document, i) ==
    \A k \in Kinds : document[k] \in {NoData, Blank, Unreadable} \cup [by : {i}, version : Versions]

\* ... and one that decodes.
Readable(document, i) ==
    \A k \in Kinds : document[k] \in {NoData, Blank} \cup [by : {i}, version : Versions]

\* A pull has, of what its cursor has come to, what was there all the time.
RepoInv ==
    /\ RepoTypeOK
    /\ \A i \in Authors : Exists(i) => OwnedBy(identityRepo[i], i)
    /\ \A e \in pull.answer : Readable(e.data, e.identity)
    /\ \A e \in pull.answer : e.identity \notin pull.left
    /\ pull.open => \A i \in (pull.asked \ pull.left) \ unsteady :
                        Exists(i) <=> \E e \in pull.answer : e.identity = i

LEMMA RepoInitInv == RepoInit => RepoInv
BY RepoAssumption DEF RepoInit, RepoInv, RepoTypeOK, Exists, NoPull

\* A write that leaves the account a document of its own data, or none, is harmless to
\* a pull: it either keeps the document there, or away, or makes the account unsteady.
LEMMA UpdateStep ==
    ASSUME RepoInv, NEW i \in Authors, NEW document, Update(i, document),
           document = NoDocument \/ (document \in Document /\ OwnedBy(document, i))
    PROVE  RepoInv'
<1>1. /\ updates' \in 0 .. MaxUpdates
      /\ pull' = pull
      /\ identityRepo' = [identityRepo EXCEPT ![i] = document]
      /\ unsteady' = IF pull.open /\ (Exists(i) # (document # NoDocument))
                     THEN unsteady \cup {i} ELSE unsteady
  BY RepoAssumption DEF Update, RepoInv, RepoTypeOK
<1>2. RepoTypeOK'
  BY <1>1 DEF RepoInv, RepoTypeOK
<1>3. /\ identityRepo'[i] = document
      /\ \A j \in Authors \ {i} : identityRepo'[j] = identityRepo[j]
  BY <1>1 DEF RepoInv, RepoTypeOK
<1>4. \A j \in Authors : Exists(j)' => OwnedBy(identityRepo'[j], j)
  BY <1>3 DEF RepoInv, Exists, OwnedBy
<1>5. pull.open => \A j \in (pull.asked \ pull.left) \ unsteady' : Exists(j)' <=> Exists(j)
  BY <1>1, <1>3 DEF RepoInv, RepoTypeOK, Exists
<1>6. pull.open => \A j \in (pull.asked \ pull.left) \ unsteady' :
                       Exists(j)' <=> \E e \in pull.answer : e.identity = j
  <2>1. unsteady \subseteq unsteady'
    BY <1>1
  <2>. QED
    BY <1>5, <2>1 DEF RepoInv
<1>. QED
  BY <1>1, <1>2, <1>4, <1>6 DEF RepoInv, OwnedBy, Readable

\* What Push and Delete write is a document of the account's own data, or spoilt.
LEMMA WrittenIsOwned ==
    ASSUME RepoInv, NEW i \in Authors, NEW document
    PROVE  /\ \A kinds \in SUBSET Kinds : \A data \in [kinds -> Datum], inside \in SUBSET Kinds :
                  document \in Merged(i, data, inside) /\ (\A k \in kinds : data[k].by = i)
                      => document \in Document /\ OwnedBy(document, i)
           /\ \A kinds, inside \in SUBSET Kinds :
                  document \in Stripped(i, kinds, inside)
                      => document \in Document /\ OwnedBy(document, i)
<1>1. \A k \in Kinds : Kept(i, k) \in {NoData, Blank, Unreadable} \cup [by : {i}, version : Versions]
  BY DEF RepoInv, OwnedBy, Kept
<1>2. ASSUME NEW kinds \in SUBSET Kinds, NEW data \in [kinds -> Datum], NEW inside \in SUBSET Kinds,
             document \in Merged(i, data, inside), \A k \in kinds : data[k].by = i
      PROVE  document \in Document /\ OwnedBy(document, i)
  <2>1. \A k \in kinds : data[k] \in [by : {i}, version : Versions]
    BY <1>2 DEF Datum
  <2>. QED
    BY <1>1, <1>2, <2>1 DEF Merged, SetInside, OwnedBy
<1>3. ASSUME NEW kinds \in SUBSET Kinds, NEW inside \in SUBSET Kinds,
             document \in Stripped(i, kinds, inside)
      PROVE  document \in Document /\ OwnedBy(document, i)
  BY <1>1, <1>3 DEF Stripped, UnsetInside, OwnedBy
<1>. QED
  BY <1>2, <1>3

LEMMA RepoStep == RepoInv /\ [RepoNext]_repoVars => RepoInv'
<1>. SUFFICES ASSUME RepoInv, [RepoNext]_repoVars PROVE RepoInv'
  OBVIOUS
<1>1. ASSUME NEW caller \in Authors, NEW i \in Authors, Push(caller, i) PROVE RepoInv'
  <2>1. PICK kinds \in SUBSET Kinds :
            \E data \in [kinds -> Datum], inside \in SUBSET (Kinds \ kinds) :
                Valid(caller, i, data) /\ \E document \in Merged(i, data, inside) : Update(i, document)
    BY <1>1 DEF Push
  <2>2. PICK data \in [kinds -> Datum], inside \in SUBSET (Kinds \ kinds) :
            Valid(caller, i, data) /\ \E document \in Merged(i, data, inside) : Update(i, document)
    BY <2>1
  <2>3. PICK document \in Merged(i, data, inside) : Update(i, document)
    BY <2>2
  <2>4. \A k \in kinds : data[k].by = i
    BY <2>2 DEF Valid
  <2>5. document \in Document /\ OwnedBy(document, i)
    BY <2>4, WrittenIsOwned
  <2>. QED
    BY <2>3, <2>5, UpdateStep
<1>2. ASSUME NEW caller \in Authors, NEW i \in Authors, DeleteAll(caller, i) PROVE RepoInv'
  BY <1>2, UpdateStep DEF DeleteAll
<1>3. ASSUME NEW caller \in Authors, NEW i \in Authors, DeleteKinds(caller, i) PROVE RepoInv'
  <2>1. PICK kinds \in SUBSET Kinds : \E inside \in SUBSET (Kinds \ kinds) :
            \E document \in Stripped(i, kinds, inside) : Update(i, document)
    BY <1>3 DEF DeleteKinds
  <2>2. PICK inside \in SUBSET (Kinds \ kinds) :
            \E document \in Stripped(i, kinds, inside) : Update(i, document)
    BY <2>1
  <2>3. PICK document \in Stripped(i, kinds, inside) : Update(i, document)
    BY <2>2
  <2>4. document \in Document /\ OwnedBy(document, i)
    BY WrittenIsOwned
  <2>. QED
    BY <2>3, <2>4, UpdateStep
<1>4. ASSUME NEW asked \in SUBSET Authors, Pull(asked) PROVE RepoInv'
  BY <1>4 DEF Pull, RepoInv, RepoTypeOK, Exists, OwnedBy, Readable
<1>5. ASSUME NEW i \in Authors, PullNext(i) PROVE RepoInv'
  <2> DEFINE new == {[identity |-> i, data |-> d] : d \in Decoded(i)}
  <2>1. /\ i \in pull.left /\ ~Garbled(i)
        /\ pull' = [pull EXCEPT !.left = pull.left \ {i}, !.answer = pull.answer \cup new]
        /\ UNCHANGED <<identityRepo, updates, unsteady>>
    BY <1>5 DEF PullNext
  <2>2. /\ \A e \in new : e.identity = i /\ Readable(e.data, i)
        /\ new \subseteq [identity : Authors, data : Document]
        /\ Exists(i) <=> \E e \in new : e.identity = i
    <3>1. CASE Exists(i)
      <4>1. new = {[identity |-> i, data |-> identityRepo[i]]}
        BY <3>1 DEF Decoded
      <4>2. identityRepo[i] \in Document /\ Readable(identityRepo[i], i)
        BY <2>1, <3>1 DEF RepoInv, RepoTypeOK, Exists, Garbled, OwnedBy, Readable
      <4>. HIDE DEF new
      <4>. QED
        BY <3>1, <4>1, <4>2
    <3>2. CASE ~Exists(i)
      BY <3>2 DEF Decoded
    <3>. QED
      BY <3>1, <3>2
  <2>. HIDE DEF new
  <2>3. /\ pull'.open = pull.open /\ pull'.asked = pull.asked
        /\ pull'.left = pull.left \ {i} /\ pull'.answer = pull.answer \cup new
    BY <2>1 DEF RepoInv, RepoTypeOK
  <2>4. RepoTypeOK'
    BY <2>1, <2>2 DEF RepoInv, RepoTypeOK
  <2>5. pull.open => \A j \in (pull.asked \ pull'.left) \ unsteady :
                         Exists(j) <=> \E e \in pull'.answer : e.identity = j
    <3>. SUFFICES ASSUME pull.open, NEW j \in (pull.asked \ pull'.left) \ unsteady
                  PROVE  Exists(j) <=> \E e \in pull'.answer : e.identity = j
      OBVIOUS
    <3>1. CASE j = i
      BY <2>1, <2>2, <2>3, <3>1 DEF RepoInv
    <3>2. CASE j # i
      BY <2>2, <2>3, <3>2 DEF RepoInv
    <3>. QED
      BY <3>1, <3>2
  <2>6. \A e \in pull'.answer : Readable(e.data, e.identity) /\ e.identity \notin pull'.left
    BY <2>2, <2>3 DEF RepoInv
  <2>. QED
    BY <2>1, <2>3, <2>4, <2>5, <2>6 DEF RepoInv, Exists, OwnedBy, Readable
<1>6. ASSUME PullDone \/ \E i \in Authors : PullFails(i) PROVE RepoInv'
  <2>1. pull' = NoPull /\ UNCHANGED <<identityRepo, updates, unsteady>>
    BY <1>6 DEF PullDone, PullFails
  <2>. QED
    BY <2>1 DEF NoPull, RepoInv, RepoTypeOK, Exists, OwnedBy
<1>7. CASE UNCHANGED repoVars
  BY <1>7 DEF repoVars, RepoInv, RepoTypeOK, Exists, OwnedBy, Readable
<1>. QED
  BY <1>1, <1>2, <1>3, <1>4, <1>5, <1>6, <1>7 DEF RepoNext

----------------------------------------------------------------------------
(* The repository implements IdentityStore.                                 *)

\* The store that the documents stand for.
Values == [i \in Authors |-> IF Exists(i) THEN identityRepo[i] ELSE [k \in Kinds |-> NoData]]

\* A write is seen in the store at its account only.
LEMMA UpdateShows ==
    ASSUME RepoTypeOK, NEW i \in Authors, NEW document, Update(i, document)
    PROVE  Values' = [Values EXCEPT ![i] = IF document # NoDocument THEN document
                                           ELSE [k \in Kinds |-> NoData]]
<1>1. /\ identityRepo'[i] = document
      /\ \A j \in Authors \ {i} : identityRepo'[j] = identityRepo[j]
  BY DEF Update, RepoTypeOK
<1>2. \A j \in Authors : Values'[j] = IF identityRepo'[j] # NoDocument THEN identityRepo'[j]
                                      ELSE [k \in Kinds |-> NoData]
  BY DEF Values, Exists
<1>3. \A j \in Authors \ {i} : Values'[j] = Values[j]
  BY <1>1 DEF Values, Exists
<1>. QED
  BY <1>1, <1>2, <1>3 DEF Values

LEMMA ValuesAreDocuments == RepoTypeOK => Values \in [Authors -> Document]
BY DEF RepoTypeOK, Values, Exists, Document

\* The values of an account after a request that spoilt some.
Filled(kinds, data, spoilt, rest, before) ==
    [k \in Kinds |-> IF k \in kinds THEN data[k] ELSE IF k \in spoilt THEN rest[k] ELSE before[k]]

\* `document` has the data of the kinds named, and others as before or spoilt.
OthersSpoilt(document, kinds, data, before) ==
    /\ \A k \in kinds : document[k] = data[k]
    /\ \A k \in Kinds \ kinds : document[k] \in {before[k], Blank, Unreadable}

\* What a request did not name and what is not as before is spoilt.
LEMMA SpoiltOf ==
    ASSUME NEW document \in Document, NEW kinds \in SUBSET Kinds,
           NEW data, NEW before \in Document,
           OthersSpoilt(document, kinds, data, before)
    PROVE  \E spoilt \in SUBSET (Kinds \ kinds) : \E rest \in [spoilt -> {Blank, Unreadable}] :
               document = Filled(kinds, data, spoilt, rest, before)
<1>1. PICK spoilt \in SUBSET (Kinds \ kinds) :
          spoilt = {k \in Kinds \ kinds : document[k] # before[k]}
  OBVIOUS
<1>2. PICK rest : rest = [k \in spoilt |-> document[k]]
  OBVIOUS
<1>3. rest \in [spoilt -> {Blank, Unreadable}]
  BY <1>1, <1>2 DEF OthersSpoilt
<1>4. PICK row : row = Filled(kinds, data, spoilt, rest, before)
  OBVIOUS
<1>5. ASSUME NEW k \in Kinds PROVE document[k] = row[k]
  <2>1. CASE k \in kinds
    BY <1>4, <2>1 DEF Filled, OthersSpoilt
  <2>2. CASE k \in spoilt
    <3>1. k \notin kinds /\ rest[k] = document[k]
      BY <1>1, <1>2, <2>2
    <3>. QED
      BY <1>4, <2>2, <3>1 DEF Filled
  <2>3. CASE k \notin kinds /\ k \notin spoilt
    <3>1. document[k] = before[k]
      BY <1>1, <2>3
    <3>. QED
      BY <1>4, <2>3, <3>1 DEF Filled
  <2>. QED
    BY <2>1, <2>2, <2>3
<1>6. document = row
  <2>1. document = [k \in Kinds |-> document[k]] /\ row = [k \in Kinds |-> row[k]]
    BY <1>4 DEF Document, Filled
  <2>. QED
    BY <1>5, <2>1
<1>. QED
  BY <1>3, <1>4, <1>6

LEMMA RepoStepIsStoreStep == RepoInv /\ [RepoNext]_repoVars => [Store!Next]_Values
<1>. SUFFICES ASSUME RepoInv, [RepoNext]_repoVars PROVE [Store!Next]_Values
  OBVIOUS
<1>0. RepoTypeOK /\ Values \in [Authors -> Document]
  BY ValuesAreDocuments DEF RepoInv
<1>1. ASSUME NEW caller \in Authors, NEW i \in Authors, Push(caller, i) PROVE Store!Next
  <2>1. PICK kinds \in SUBSET Kinds :
            \E data \in [kinds -> Datum], inside \in SUBSET (Kinds \ kinds) :
                Valid(caller, i, data) /\ \E document \in Merged(i, data, inside) : Update(i, document)
    BY <1>1 DEF Push
  <2>2. PICK data \in [kinds -> Datum], inside \in SUBSET (Kinds \ kinds) :
            Valid(caller, i, data) /\ \E document \in Merged(i, data, inside) : Update(i, document)
    BY <2>1
  <2>3. PICK document \in Merged(i, data, inside) : Update(i, document)
    BY <2>2
  <2>4. \A k \in kinds : data[k].by = i
    BY <2>2 DEF Valid
  <2>5. data \in [kinds -> Store!Signed(i)]
    BY <2>4 DEF Store!Signed, Datum
  <2>6. document \in Document /\ document # NoDocument
    BY <2>4, WrittenIsOwned, RepoAssumption
  <2>7. PICK before \in Document : before = Values[i]
    BY <1>0
  <2>8. PICK named : named = data
    OBVIOUS
  <2>9. PICK spoilt \in SUBSET (Kinds \ kinds) : \E rest \in [spoilt -> {Blank, Unreadable}] :
            document = Filled(kinds, named, spoilt, rest, before)
    <3>1. OthersSpoilt(document, kinds, named, before)
      BY <2>3, <2>7, <2>8 DEF Merged, SetInside, Kept, Values, OthersSpoilt
    <3>. QED
      BY <2>6, <2>7, <3>1, SpoiltOf
  <2>10. PICK rest \in [spoilt -> {Blank, Unreadable}] :
             document = Filled(kinds, named, spoilt, rest, before)
    BY <2>9
  <2>11. Values' = [Values EXCEPT ![i] = document]
    BY <1>0, <2>3, <2>6, UpdateShows
  <2>12. Values' = [Values EXCEPT ![i] = [k \in Kinds |->
             IF k \in kinds THEN data[k] ELSE IF k \in spoilt THEN rest[k] ELSE @[k]]]
    BY <1>0, <2>7, <2>8, <2>10, <2>11 DEF Filled
  <2>13. Store!Put(i, kinds, spoilt)
    BY <2>5, <2>12 DEF Store!Put, Values
  <2>. QED
    BY <2>13 DEF Store!Next
<1>2. ASSUME NEW caller \in Authors, NEW i \in Authors, DeleteAll(caller, i) PROVE Store!Next
  <2>1. Values' = [Values EXCEPT ![i] = [k \in Kinds |-> NoData]]
    BY <1>0, <1>2, UpdateShows DEF DeleteAll
  <2>2. PICK rest \in [{} -> {Blank, Unreadable}] : TRUE
    <3>1. [k \in {} |-> Blank] \in [{} -> {Blank, Unreadable}]
      OBVIOUS
    <3>. QED
      BY <3>1
  <2>3. [k \in Kinds |-> NoData] = [k \in Kinds |->
            IF k \in Kinds THEN NoData ELSE IF k \in {} THEN rest[k] ELSE Values[i][k]]
    OBVIOUS
  <2>4. Store!Remove(i, Kinds, {})
    BY <1>0, <2>1, <2>2, <2>3 DEF Store!Remove, Values
  <2>. QED
    BY <2>4 DEF Store!Next
<1>3. ASSUME NEW caller \in Authors, NEW i \in Authors, DeleteKinds(caller, i) PROVE Store!Next
  <2>1. PICK kinds \in SUBSET Kinds : \E inside \in SUBSET (Kinds \ kinds) :
            \E document \in Stripped(i, kinds, inside) : Update(i, document)
    BY <1>3 DEF DeleteKinds
  <2>2. PICK inside \in SUBSET (Kinds \ kinds) :
            \E document \in Stripped(i, kinds, inside) : Update(i, document)
    BY <2>1
  <2>3. PICK document \in Stripped(i, kinds, inside) : Update(i, document)
    BY <2>2
  <2>4. document \in Document /\ document # NoDocument
    BY WrittenIsOwned, RepoAssumption
  <2>5. /\ \A k \in kinds : document[k] = NoData
        /\ \A k \in Kinds \ kinds : document[k] \in {Values[i][k], Blank, Unreadable}
    BY <2>3 DEF Stripped, UnsetInside, Kept, Values
  <2>6. PICK spoilt \in SUBSET (Kinds \ kinds) :
            \E rest \in [spoilt -> {Blank, Unreadable}] : document = [k \in Kinds |->
                IF k \in kinds THEN NoData ELSE IF k \in spoilt THEN rest[k] ELSE Values[i][k]]
    <3>1. PICK none : none = [k \in kinds |-> NoData]
      OBVIOUS
    <3>2. \A k \in kinds : none[k] = NoData
      BY <3>1
    <3>3. PICK before \in Document : before = Values[i]
      BY <1>0
    <3>4. PICK spoilt \in SUBSET (Kinds \ kinds) :
              \E rest \in [spoilt -> {Blank, Unreadable}] :
                  document = Filled(kinds, none, spoilt, rest, before)
      <4>1. OthersSpoilt(document, kinds, none, before)
        BY <2>5, <3>2, <3>3 DEF OthersSpoilt
      <4>. QED
        BY <2>4, <3>3, <4>1, SpoiltOf
    <3>5. PICK rest \in [spoilt -> {Blank, Unreadable}] :
              document = Filled(kinds, none, spoilt, rest, before)
      BY <3>4
    <3>6. document = [k \in Kinds |->
              IF k \in kinds THEN NoData ELSE IF k \in spoilt THEN rest[k] ELSE Values[i][k]]
      BY <3>2, <3>3, <3>5 DEF Filled
    <3>. QED
      BY <3>6
  <2>7. Values' = [Values EXCEPT ![i] = document]
    BY <1>0, <2>3, <2>4, UpdateShows
  <2>8. Store!Remove(i, kinds, spoilt)
    BY <1>0, <2>6, <2>7 DEF Store!Remove, Values
  <2>. QED
    BY <2>8 DEF Store!Next
<1>4. CASE UNCHANGED identityRepo
  BY <1>4 DEF Values, Exists
<1>. QED
  BY <1>1, <1>2, <1>3, <1>4 DEF RepoNext, Pull, PullNext, PullFails, PullDone, repoVars

\* A complete answer of IdentityRepoPull (identityrepo.Pull) has whoever's document was
\* there all the time, and of nobody what another account has signed.
THEOREM PullIsTrue == RepoSpec => []PulledIsTheirs
<1>1. RepoInv => PulledIsTheirs
  BY DEF RepoInv, PulledIsTheirs, Readable
<1>. QED
  BY <1>1, RepoInitInv, RepoStep, PTL DEF RepoSpec

\* The identity repository is a store of values by account and kind: Push and Delete of
\* identityrepo.go do what Put and Remove of IdentityStore do, and spoil no value but
\* those that a kind with a dot reaches into.
THEOREM RepoImplementsStore == RepoSpec => RepoIsAStore
<1>1. RepoInit => Store!Init
  BY DEF RepoInit, Store!Init, Exists
<1>2. RepoInv /\ [RepoNext]_repoVars => [Store!Next]_Values
  BY RepoStepIsStoreStep
<1>. QED
  BY <1>1, <1>2, RepoInitInv, RepoStep, PTL DEF RepoSpec, RepoIsAStore, Store!Spec, Values

----------------------------------------------------------------------------
(* The stores side by side.  A step of one leaves the others as they are, so *)
(* whatever holds of one by itself holds of it here.                         *)

\* Every behaviour of the composed module is one of each of its parts.
THEOREM PartsKeepTheirSpecs == StoresSpec => LimitSpec /\ EventSpec /\ ConfSpec /\ RepoSpec
<1>1. StoresInit => LimitInit /\ EventInit /\ ConfInit /\ RepoInit
  BY DEF StoresInit
<1>2. [StoresNext]_storesVars => /\ [LimitNext]_limitVars
                                 /\ [EventNext]_eventVars
                                 /\ [ConfNext]_confVars
                                 /\ [RepoNext]_repoVars
  BY DEF StoresNext, storesVars
<1>. QED
  BY <1>1, <1>2, PTL DEF StoresSpec, LimitSpec, EventSpec, ConfSpec, RepoSpec

\* Limits, logs, configurations and identities have their types, whatever calls
\* overlap or fail.
THEOREM StoresTypeCorrect == StoresSpec => []StoresTypeOK
<1>1. LimitSpec => []LimitInv
  BY LimitInitInv, LimitStep, PTL DEF LimitSpec
<1>2. EventSpec => [](EventInv /\ EventBounds)
  <2>1. EventInit => EventBounds
    BY EventsAssumption DEF EventInit, EventBounds
  <2>. QED
    BY <2>1, EventAlways, EventBoundsStep, PTL DEF EventSpec
<1>3. ConfSpec => []ConfInv
  BY ConfInitInv, ConfStep, PTL DEF ConfSpec
<1>4. RepoSpec => []RepoInv
  BY RepoInitInv, RepoStep, PTL DEF RepoSpec
<1>5. LimitInv /\ EventInv /\ EventBounds /\ ConfInv /\ RepoInv => StoresTypeOK
  BY EventTypes DEF LimitInv, ConfInv, ConfTypeOK, RepoInv, StoresTypeOK
<1>. QED
  BY <1>1, <1>2, <1>3, <1>4, <1>5, PartsKeepTheirSpecs, PTL

\* The invariants of account limits, acl event log, node configurations and identity
\* repository hold together, and so do the promises about served configurations and
\* stored identities, with the calls of all four interleaved.
THEOREM StoresAreSafe ==
    StoresSpec => /\ []LimitsAgree
                  /\ [](ReadersMissNothing /\ EventHasReceipt)
                  /\ []DisabledIsNotUsed /\ ServedIsNewer
                  /\ []PulledIsTheirs /\ RepoIsAStore
  BY PartsKeepTheirSpecs, LimitsComeToAgree, EventReadersMissNothing, EventsAreBacked,
     OnlyEnabledIsUsed, NeverBackToOlder, PullIsTrue, RepoImplementsStore, PTL

=============================================================================
