------------------------------ MODULE InboxProofs ------------------------------
(****************************************************************************)
(* Proofs that IInv and AnnouncedIsKept of Inbox hold in every reachable    *)
(* state, for any number of accounts, peers, streams and messages and any   *)
(* page size.                                                               *)
(****************************************************************************)
EXTENDS Inbox, FiniteSetTheorems, SequenceTheorems, WellFoundedInduction, TLAPS

\* A stream's side of the invariant, and what it rests on.
StreamsInv ==
    /\ SubscribeTypeOK
    /\ RegisteredIsWaited
    /\ SendsToRegistered

\* The messages' side.  Pages are cut by counting, so the collection must be finite.
MessagesInv ==
    /\ inbox \in SUBSET Message
    /\ adding \in SUBSET Message
    /\ nextId \in Nat
    /\ listening \in BOOLEAN
    /\ changes \in Seq(Message)
    /\ offset \in [Accounts -> Nat]
    /\ fetched \in [Accounts -> SUBSET Nat]
    /\ mustFetch \in SUBSET Accounts
    /\ late \in SUBSET Nat
    /\ faults \in 0 .. MaxFaults
    /\ IsFiniteSet(inbox)
    /\ FetchIsGapFree

\* The steps of package subscribe.
SubscribeStep ==
    \/ \E s \in Streams : \/ NotifySubscribe(s)
                          \/ AddStream(s)
                          \/ WaitCloseStream(s)
                          \/ NotifySubscribeReturns(s)
                          \/ StreamEnds(s)
                          \/ StreamStalls(s)
    \/ \E a \in Accounts, payload \in Nat : NotifyAllPeers(a, payload)
    \/ \E k \in Keys : Send(k)
    \/ SubscribeCrash
    \/ UNCHANGED subscribeVars

LEMMA NoNotifyType == NoNotify \in [payload : Nat, left : SUBSET Keys] /\ NoNotify.left = {}
  BY DEF NoNotify

\* Registrations are made with a goroutine that undoes them, and only under the mutex.
LEMMA StreamsStep == ASSUME StreamsInv, SubscribeStep PROVE StreamsInv'
<1>. USE KeysAssumption, NoneAssumption
<1>1. ASSUME NEW s \in Streams, NotifySubscribe(s) PROVE StreamsInv'
  BY <1>1 DEF NotifySubscribe, StreamsInv, SubscribeTypeOK, RegisteredIsWaited, SendsToRegistered
<1>2. ASSUME NEW s \in Streams, AddStream(s) PROVE StreamsInv'
  <2>1. SubscribeTypeOK'
    BY <1>2 DEF AddStream, StreamsInv, SubscribeTypeOK
  <2>2. RegisteredIsWaited'
    BY <1>2 DEF AddStream, StreamsInv, SubscribeTypeOK, RegisteredIsWaited
  <2>3. SendsToRegistered'
    BY <1>2 DEF AddStream, Unlocked, StreamsInv, SendsToRegistered
  <2>. QED
    BY <2>1, <2>2, <2>3 DEF StreamsInv
<1>3. ASSUME NEW s \in Streams, WaitCloseStream(s) PROVE StreamsInv'
  <2>1. SubscribeTypeOK'
    BY <1>3 DEF WaitCloseStream, StreamsInv, SubscribeTypeOK
  <2>2. RegisteredIsWaited'
    BY <1>3 DEF WaitCloseStream, StreamsInv, SubscribeTypeOK, RegisteredIsWaited
  <2>3. SendsToRegistered'
    BY <1>3 DEF WaitCloseStream, Unlocked, StreamsInv, SendsToRegistered
  <2>. QED
    BY <2>1, <2>2, <2>3 DEF StreamsInv
<1>4. ASSUME NEW s \in Streams, NotifySubscribeReturns(s) PROVE StreamsInv'
  BY <1>4 DEF NotifySubscribeReturns, StreamsInv, SubscribeTypeOK, RegisteredIsWaited,
              SendsToRegistered
<1>5. ASSUME NEW s \in Streams, StreamEnds(s) \/ StreamStalls(s) PROVE StreamsInv'
  BY <1>5 DEF StreamEnds, StreamStalls, StreamsInv, SubscribeTypeOK, RegisteredIsWaited,
              SendsToRegistered
<1>6. ASSUME NEW a \in Accounts, NEW payload \in Nat, NotifyAllPeers(a, payload)
      PROVE  StreamsInv'
  <2>. DEFINE Left == {k \in Keys : AccountOf[k] = a /\ notifyStreams[k] # None}
  <2>1. notifying' \in [payload : Nat, left : SUBSET Keys] /\ notifying'.left \subseteq Left
    BY <1>6, NoNotifyType DEF NotifyAllPeers
  <2>2. UNCHANGED <<rpc, done, stalled, notifyStreams, waiters, sent>>
    BY <1>6 DEF NotifyAllPeers
  <2>. QED
    BY <2>1, <2>2 DEF StreamsInv, SubscribeTypeOK, RegisteredIsWaited, SendsToRegistered
<1>7. ASSUME NEW k \in Keys, Send(k) PROVE StreamsInv'
  <2>1. /\ notifying' \in [payload : Nat, left : SUBSET Keys]
        /\ notifying'.left = notifying.left \ {k}
    BY <1>7, NoNotifyType DEF Send, StreamsInv, SubscribeTypeOK
  <2>2. UNCHANGED <<rpc, done, stalled, waiters>>
    BY <1>7 DEF Send
  <2>3. notifyStreams' \in {notifyStreams, [notifyStreams EXCEPT ![k] = None]}
    BY <1>7 DEF Send
  <2>4. sent' \in [Streams -> SUBSET Nat]
    BY <1>7 DEF Send, StreamsInv, SubscribeTypeOK, SendsToRegistered
  <2>. QED
    BY <2>1, <2>2, <2>3, <2>4
       DEF StreamsInv, SubscribeTypeOK, RegisteredIsWaited, SendsToRegistered
<1>8. CASE SubscribeCrash
  BY <1>8, NoNotifyType
     DEF SubscribeCrash, StreamsInv, SubscribeTypeOK, RegisteredIsWaited, SendsToRegistered
<1>9. CASE UNCHANGED subscribeVars
  BY <1>9
     DEF subscribeVars, StreamsInv, SubscribeTypeOK, RegisteredIsWaited, SendsToRegistered
<1>. QED
  BY <1>1, <1>2, <1>3, <1>4, <1>5, <1>6, <1>7, <1>8, <1>9 DEF SubscribeStep

----------------------------------------------------------------------------
(* Pages.                                                                   *)

\* A page has no gap: a message before one of the page is on the page.
LEMMA PageIsInitial ==
    ASSUME MessagesInv, NEW a \in Accounts, NEW m \in Page(a), NEW n \in Newer(a), n.id <= m.id
    PROVE  n \in Page(a)
<1>. DEFINE Upto(x) == {o \in Newer(a) : o.id <= x.id}
<1>1. Newer(a) \subseteq inbox /\ IsFiniteSet(inbox)
  BY DEF Newer, MessagesInv
<1>2. IsFiniteSet(Newer(a))
  BY <1>1, FS_Subset
<1>3. m \in Newer(a) /\ Cardinality(Upto(m)) <= FetchLimit
  BY DEF Page
<1>4. \A o \in Newer(a) : o.id \in Nat
  BY <1>1 DEF MessagesInv, Message
<1>5. Upto(n) \subseteq Upto(m)
  BY <1>3, <1>4
<1>6. IsFiniteSet(Upto(m))
  BY <1>2, FS_Subset
<1>7. /\ Cardinality(Upto(n)) <= Cardinality(Upto(m))
      /\ Cardinality(Upto(n)) \in Nat /\ Cardinality(Upto(m)) \in Nat
  BY <1>5, <1>6, FS_Subset, FS_CardinalityType
<1>8. Cardinality(Upto(n)) <= FetchLimit
  BY <1>3, <1>7, InboxAssumption
<1>. QED
  BY <1>8 DEF Page

\* A finite set of messages has one with the highest id: among the sets of messages
\* above a message there is a smallest one, and it is empty.
LEMMA HasLast ==
    ASSUME NEW M, IsFiniteSet(M), M # {}, \A m \in M : m.id \in Nat
    PROVE  \E m \in M : \A n \in M : n.id <= m.id
<1>. DEFINE Above(m) == {n \in M : n.id > m.id}
            All == {Above(m) : m \in M}
<1>0. ASSUME NEW m \in M PROVE Above(m) \in FiniteSubsetsOf(M)
  <2>1. Above(m) \subseteq M
    OBVIOUS
  <2>2. IsFiniteSet(Above(m))
    BY <2>1, FS_Subset
  <2>. QED
    BY <2>1, <2>2 DEF FiniteSubsetsOf
<1>1. All \subseteq FiniteSubsetsOf(M) /\ All # {}
  <2>. HIDE DEF Above
  <2>. QED
    BY <1>0
<1>2. PICK U \in All : \A V \in All : <<V, U>> \notin StrictSubsetOrdering(M)
  BY <1>1, FS_StrictSubsetOrderingWellFounded, WFMin
<1>3. PICK m \in M : U = Above(m)
  BY <1>1
<1>4. ASSUME NEW n \in M, n.id > m.id PROVE FALSE
  <2>1. Above(n) \subseteq Above(m) /\ n \in Above(m) /\ n \notin Above(n)
    BY <1>4
  <2>2. <<Above(n), U>> \in StrictSubsetOrdering(M)
    BY <1>3, <2>1 DEF StrictSubsetOrdering
  <2>. QED
    BY <1>2, <2>2
<1>. QED
  BY <1>4

\* The next offset is that of a message of the page, or the old one if there is none.
LEMMA NextOffset ==
    ASSUME MessagesInv, NEW a \in Accounts, InboxFetch(a)
    PROVE  /\ offset' \in [Accounts -> Nat]
           /\ \A b \in Accounts \ {a} : offset'[b] = offset[b]
           /\ \/ offset'[a] = offset[a]
              \/ \E m \in Page(a) : offset'[a] = m.id
<1>1. Page(a) \subseteq inbox
  BY DEF Page, Newer
<1>2. \A m \in Page(a) : m.id \in Nat
  BY <1>1 DEF MessagesInv, Message
<1>3. CASE Page(a) = {}
  BY <1>3 DEF InboxFetch, MessagesInv
<1>4. CASE Page(a) # {}
  <2>. DEFINE Ids == {m.id : m \in Page(a)}
              last == CHOOSE i \in Ids : \A m \in Page(a) : m.id <= i
  <2>1. IsFiniteSet(Page(a))
    BY <1>1, FS_Subset DEF MessagesInv
  <2>2. \E m \in Page(a) : \A n \in Page(a) : n.id <= m.id
    BY <1>2, <1>4, <2>1, HasLast
  <2>3. last \in Ids
    BY <2>2
  <2>4. PICK m \in Page(a) : last = m.id
    BY <2>3
  <2>5. offset' = [offset EXCEPT ![a] = last]
    BY <1>4 DEF InboxFetch
  <2>. QED
    BY <1>2, <2>4, <2>5 DEF MessagesInv
<1>. QED
  BY <1>3, <1>4

\* Fetching moves the offset over the messages of one page, and nothing lies between.
LEMMA FetchStep == ASSUME MessagesInv, NEW a \in Accounts, InboxFetch(a) PROVE MessagesInv'
<1>1. /\ fetched' = [fetched EXCEPT ![a] = @ \cup {m.id : m \in Page(a)}]
      /\ mustFetch' \in {mustFetch, mustFetch \ {a}}
      /\ UNCHANGED <<inbox, adding, nextId, listening, changes, late, faults>>
  BY DEF InboxFetch
<1>2. Page(a) \subseteq Newer(a) /\ Newer(a) \subseteq inbox
  BY DEF Page, Newer
<1>3. \A m \in inbox : m.id \in Nat /\ m.to \in Accounts
  BY DEF MessagesInv, Message
<1>4. fetched' \in [Accounts -> SUBSET Nat]
  BY <1>1, <1>2, <1>3 DEF MessagesInv
<1>5. FetchIsGapFree'
  <2>. SUFFICES ASSUME NEW m \in inbox, m.id <= offset'[m.to], m.id \notin fetched'[m.to]
                PROVE  m.id \in late
    BY <1>1 DEF FetchIsGapFree
  <2>1. m.id \notin fetched[m.to]
    BY <1>1, <1>3 DEF MessagesInv
  <2>2. CASE m.id <= offset[m.to]
    BY <2>1, <2>2 DEF MessagesInv, FetchIsGapFree
  <2>3. CASE ~(m.id <= offset[m.to])
    <3>1. m.to = a
      BY <1>3, <2>3, NextOffset
    <3>2. PICK n \in Page(a) : offset'[a] = n.id
      BY <2>3, <3>1, NextOffset
    <3>3. m \in Newer(a)
      BY <1>3, <2>3, <3>1 DEF Newer, MessagesInv
    <3>4. m \in Page(a)
      BY <3>1, <3>2, <3>3, PageIsInitial
    <3>5. m.id \in fetched'[a]
      BY <1>1, <3>4 DEF MessagesInv
    <3>. QED
      BY <3>1, <3>5
  <2>. QED
    BY <2>2, <2>3
<1>. QED
  BY <1>1, <1>4, <1>5, NextOffset DEF MessagesInv

\* An insert below the offset is recorded as late.
LEMMA InsertStep == ASSUME MessagesInv, NEW m \in adding, Insert(m) PROVE MessagesInv'
<1>1. /\ inbox' = inbox \cup {m}
      /\ adding' = adding \ {m}
      /\ changes' \in {changes, Append(changes, m)}
      /\ late' = IF m.id <= offset[m.to] THEN late \cup {m.id} ELSE late
      /\ UNCHANGED <<nextId, listening, offset, fetched, mustFetch, faults>>
  BY DEF Insert
<1>2. m \in Message /\ m.id \in Nat
  BY DEF MessagesInv, Message
<1>3. changes' \in Seq(Message)
  <2>1. changes \in Seq(Message)
    BY DEF MessagesInv
  <2> HIDE DEF Message
  <2>2. Append(changes, m) \in Seq(Message)
    BY <1>2, <2>1, AppendProperties
  <2>. QED
    BY <1>1, <2>1, <2>2
<1>4. IsFiniteSet(inbox')
  BY <1>1, FS_AddElement DEF MessagesInv
<1>5. FetchIsGapFree'
  BY <1>1 DEF MessagesInv, FetchIsGapFree
<1>6. late' \in SUBSET Nat
  BY <1>1, <1>2 DEF MessagesInv
<1>. QED
  BY <1>1, <1>2, <1>3, <1>4, <1>5, <1>6 DEF MessagesInv

----------------------------------------------------------------------------

LEMMA InvSplit == StreamsInv /\ MessagesInv => IInv
  BY DEF StreamsInv, MessagesInv, IInv, TypeOK

LEMMA InitInv == Init => StreamsInv /\ MessagesInv
<1>. SUFFICES ASSUME Init PROVE StreamsInv /\ MessagesInv
  OBVIOUS
<1>1. StreamsInv
  BY NoNotifyType
     DEF Init, SubscribeInit, StreamsInv, SubscribeTypeOK, RegisteredIsWaited, SendsToRegistered
<1>2. MessagesInv
  BY FS_EmptySet, InboxAssumption DEF Init, MessagesInv, FetchIsGapFree
<1>. QED
  BY <1>1, <1>2

LEMMA NextInv ==
    ASSUME StreamsInv, MessagesInv, [Next]_vars
    PROVE  StreamsInv' /\ MessagesInv'
<1>1. ASSUME SubscribeStep PROVE StreamsInv'
  BY <1>1, StreamsStep
<1>2. ASSUME UNCHANGED inboxVars PROVE MessagesInv'
  BY <1>2 DEF inboxVars, MessagesInv, FetchIsGapFree
<1>3. ASSUME UNCHANGED subscribeVars PROVE StreamsInv'
  BY <1>1, <1>3 DEF SubscribeStep
<1>4. ASSUME NEW a \in Accounts, InboxAddMessage(a) PROVE StreamsInv' /\ MessagesInv'
  <2>1. MessagesInv'
    BY <1>4 DEF InboxAddMessage, MessagesInv, Message, FetchIsGapFree
  <2>. QED
    BY <1>3, <1>4, <2>1 DEF InboxAddMessage
<1>5. ASSUME NEW a \in Accounts, InboxFetch(a) PROVE StreamsInv' /\ MessagesInv'
  BY <1>3, <1>5, FetchStep DEF InboxFetch
<1>6. ASSUME NEW m \in adding, Insert(m) PROVE StreamsInv' /\ MessagesInv'
  BY <1>3, <1>6, InsertStep DEF Insert
<1>7. CASE StreamListener
  <2>1. Head(changes) \in Message /\ Tail(changes) \in Seq(Message)
    BY <1>7 DEF StreamListener, MessagesInv
  <2>2. SubscribeStep
    BY <1>7, <2>1 DEF StreamListener, SubscribeStep, Message
  <2>3. MessagesInv'
    BY <1>7, <2>1 DEF StreamListener, MessagesInv, FetchIsGapFree
  <2>. QED
    BY <1>1, <2>2, <2>3
<1>8. CASE ListenerEnds
  <2>1. faults' \in 0 .. MaxFaults
    BY <1>8, InboxAssumption DEF ListenerEnds, MessagesInv
  <2>2. changes' = <<>> /\ changes' \in Seq(Message)
    BY <1>8 DEF ListenerEnds
  <2>3. FetchIsGapFree'
    BY <1>8 DEF ListenerEnds, MessagesInv, FetchIsGapFree
  <2>4. MessagesInv'
    BY <1>8, <2>1, <2>2, <2>3 DEF ListenerEnds, MessagesInv
  <2>. QED
    BY <1>3, <1>8, <2>4 DEF ListenerEnds
<1>9. ASSUME NEW s \in Streams, ClientSubscribes(s) PROVE StreamsInv' /\ MessagesInv'
  <2>1. AccountOf[KeyOf[s]] \in Accounts
    BY KeysAssumption
  <2>2. MessagesInv'
    BY <1>9, <2>1 DEF ClientSubscribes, MessagesInv, FetchIsGapFree
  <2>. QED
    BY <1>1, <1>9, <2>2 DEF ClientSubscribes, SubscribeStep
<1>10. ASSUME NEW s \in Streams,
              \/ AddStream(s)
              \/ WaitCloseStream(s)
              \/ NotifySubscribeReturns(s)
              \/ StreamEnds(s)
              \/ StreamStalls(s),
              UNCHANGED inboxVars
       PROVE  StreamsInv' /\ MessagesInv'
  BY <1>1, <1>2, <1>10 DEF SubscribeStep
<1>11. ASSUME NEW k \in Keys, SendTo(k) PROVE StreamsInv' /\ MessagesInv'
  <2>1. AccountOf[k] \in Accounts
    BY KeysAssumption
  <2>2. MessagesInv'
    BY <1>11, <2>1 DEF SendTo, MessagesInv, FetchIsGapFree
  <2>. QED
    BY <1>1, <1>11, <2>2 DEF SendTo, SubscribeStep
<1>12. CASE Crash
  <2>1. faults' \in 0 .. MaxFaults
    BY <1>12, InboxAssumption DEF Crash, MessagesInv
  <2>2. changes' = <<>> /\ changes' \in Seq(Message)
    BY <1>12 DEF Crash
  <2>3. FetchIsGapFree'
    BY <1>12 DEF Crash, MessagesInv, FetchIsGapFree
  <2>4. MessagesInv'
    BY <1>12, <2>1, <2>2, <2>3 DEF Crash, MessagesInv
  <2>. QED
    BY <1>1, <1>12, <2>4 DEF Crash, SubscribeStep
<1>13. CASE UNCHANGED vars
  BY <1>2, <1>3, <1>13 DEF vars
<1>. QED
  BY <1>4, <1>5, <1>6, <1>7, <1>8, <1>9, <1>10, <1>11, <1>12, <1>13 DEF Next

LEMMA PartsAreInvariant == Spec => [](StreamsInv /\ MessagesInv)
<1>1. StreamsInv /\ MessagesInv /\ [Next]_vars => (StreamsInv /\ MessagesInv)'
  BY NextInv
<1>. QED
  BY <1>1, InitInv, PTL DEF Spec

\* For any number of accounts, peers, streams, messages and faults: a registration has
\* its goroutine, the loop of NotifyAllPeers meets no removed stream, and reading page
\* after page skips nothing but what was inserted below the offset.
THEOREM InboxInvariant == Spec => []IInv
  BY PartsAreInvariant, InvSplit, PTL

\* No registration is leaked, for any number of accounts, peers and streams: the entry
\* of a key always belongs to a stream whose goroutine will remove it.
THEOREM RegistrationsAreWaited == Spec => []RegisteredIsWaited
<1>1. StreamsInv /\ MessagesInv => RegisteredIsWaited
  BY DEF StreamsInv
<1>. QED
  BY <1>1, PartsAreInvariant, PTL

\* Paging has no gaps, for any page size and any number of receivers: a message below
\* the offset that was not fetched had been inserted late.
THEOREM PagingIsGapFree == Spec => []FetchIsGapFree
<1>1. StreamsInv /\ MessagesInv => FetchIsGapFree
  BY DEF MessagesInv
<1>. QED
  BY <1>1, PartsAreInvariant, PTL

----------------------------------------------------------------------------
(* What is announced is fetched.                                            *)

IsMessage(i, a) == \E m \in inbox : m.id = i /\ m.to = a

\* What the listener holds, what NotifyAllPeers is sending and what it has sent are
\* messages of the collection, and those sent are addressed to the stream's account.
SentIsTheirs ==
    /\ \A n \in DOMAIN changes : changes[n] \in inbox
    /\ \A k \in notifying.left : IsMessage(notifying.payload, AccountOf[k])
    /\ \A s \in Streams : \A i \in sent[s] : IsMessage(i, AccountOf[KeyOf[s]])

AnnounceInv == SentIsTheirs /\ AnnouncedIsKept

\* Messages are never removed.
LEMMA InboxGrows == ASSUME [Next]_vars PROVE inbox \subseteq inbox'
  BY DEF Next, InboxAddMessage, InboxFetch, Insert, StreamListener, ListenerEnds,
         ClientSubscribes, inboxVars, SendTo, Crash, vars

\* A page without more behind it is all there is.
LEMMA LastPageIsAll ==
    ASSUME MessagesInv, NEW a \in Accounts, ~HasMore(a)
    PROVE  Newer(a) \subseteq Page(a)
<1>1. IsFiniteSet(Newer(a))
  <2>1. Newer(a) \subseteq inbox
    BY DEF Newer
  <2>. QED
    BY <2>1, FS_Subset DEF MessagesInv
<1>. SUFFICES ASSUME NEW m \in Newer(a) PROVE m \in Page(a)
  OBVIOUS
<1> DEFINE upto == {n \in Newer(a) : n.id <= m.id}
<1>2. Cardinality(upto) <= Cardinality(Newer(a)) /\ IsFiniteSet(upto)
  BY <1>1, FS_Subset
<1>3. Cardinality(upto) \in Nat /\ Cardinality(Newer(a)) \in Nat
  BY <1>1, <1>2, FS_CardinalityType
<1>4. Cardinality(Newer(a)) <= FetchLimit
  BY <1>3, InboxAssumption DEF HasMore
<1>5. Cardinality(upto) <= FetchLimit
  <2>. HIDE DEF upto
  <2>. QED
    BY <1>2, <1>3, <1>4, InboxAssumption
<1>. QED
  BY <1>5 DEF Page

LEMMA SentStep ==
    ASSUME StreamsInv, MessagesInv, SentIsTheirs, [Next]_vars
    PROVE  SentIsTheirs'
<1>1. inbox \subseteq inbox'
  BY InboxGrows
<1>2. \A i, a : IsMessage(i, a) => IsMessage(i, a)'
  BY <1>1 DEF IsMessage
<1>3. ASSUME UNCHANGED <<changes, notifying, sent>> PROVE SentIsTheirs'
  BY <1>1, <1>2, <1>3 DEF SentIsTheirs
<1>4. ASSUME NEW m \in adding, Insert(m) PROVE SentIsTheirs'
  <2>1. UNCHANGED <<notifying, sent>> /\ m \in inbox' /\ m \in Message
    BY <1>4 DEF Insert, subscribeVars, MessagesInv
  <2>2. changes \in Seq(Message) /\ changes' \in {changes, Append(changes, m)}
    BY <1>4 DEF Insert, MessagesInv
  <2>3. \A n \in DOMAIN changes' : changes'[n] \in inbox'
    <3>. HIDE DEF Message
    <3>1. ASSUME changes' = Append(changes, m), NEW n \in DOMAIN changes'
          PROVE  changes'[n] \in inbox'
      <4>1. CASE n = Len(changes) + 1
        <5>1. changes'[n] = m
          BY <2>1, <2>2, <3>1, <4>1, AppendProperties
        <5>. QED
          BY <2>1, <5>1
      <4>2. CASE n # Len(changes) + 1
        <5>1. n \in 1 .. Len(changes) + 1 /\ Len(changes) \in Nat
          BY <2>1, <2>2, <3>1, AppendProperties, LenProperties
        <5>2. n \in 1 .. Len(changes) /\ n \in DOMAIN changes
          BY <2>2, <4>2, <5>1, LenProperties
        <5>3. changes'[n] = changes[n]
          BY <2>1, <2>2, <3>1, <5>2, AppendProperties
        <5>. QED
          BY <1>1, <5>2, <5>3 DEF SentIsTheirs
      <4>. QED
        BY <4>1, <4>2
    <3>2. CASE changes' = changes
      BY <1>1, <3>2 DEF SentIsTheirs
    <3>. QED
      BY <2>2, <3>1, <3>2
  <2>. QED
    BY <1>2, <2>1, <2>3 DEF SentIsTheirs
<1>5. CASE StreamListener
  <2>1. /\ changes \in Seq(Message) /\ changes # <<>> /\ changes' = Tail(changes)
        /\ NotifyAllPeers(Head(changes).to, Head(changes).id)
        /\ UNCHANGED <<inbox, sent>>
    BY <1>5 DEF StreamListener, NotifyAllPeers, MessagesInv
  <2>2. Head(changes) \in inbox
    <3>1. Head(changes) = changes[1] /\ 1 \in DOMAIN changes
      BY <2>1, LenProperties, EmptySeq
    <3>. QED
      BY <3>1 DEF SentIsTheirs
  <2>3. \A n \in DOMAIN changes' : changes'[n] \in inbox'
    <3>1. \A n \in DOMAIN changes' : n + 1 \in DOMAIN changes /\ changes'[n] = changes[n + 1]
      <4>. HIDE DEF Message
      <4>. QED
        BY <2>1
    <3>. QED
      BY <2>1, <3>1 DEF SentIsTheirs
  <2>4. \A k \in notifying'.left :
            AccountOf[k] = Head(changes).to /\ notifying'.payload = Head(changes).id
    BY <2>1 DEF NotifyAllPeers, NoNotify
  <2>5. \A k \in notifying'.left : IsMessage(notifying.payload, AccountOf[k])'
    BY <2>1, <2>2, <2>4 DEF IsMessage
  <2>. QED
    BY <1>2, <2>1, <2>3, <2>5 DEF SentIsTheirs
<1>6. CASE ListenerEnds
  <2>1. changes' = <<>> /\ UNCHANGED <<notifying, sent>>
    BY <1>6 DEF ListenerEnds, subscribeVars
  <2>. QED
    BY <1>2, <2>1 DEF SentIsTheirs
<1>7. ASSUME NEW k \in Keys, SendTo(k) PROVE SentIsTheirs'
  <2> DEFINE s == notifyStreams[k]
  <2>1. s \in Streams /\ KeyOf[s] = k /\ sent \in [Streams -> SUBSET Nat]
    BY <1>7 DEF SendTo, Send, StreamsInv, SubscribeTypeOK, RegisteredIsWaited, SendsToRegistered
  <2>2. UNCHANGED <<inbox, changes>> /\ k \in notifying.left
    BY <1>7 DEF SendTo, Send
  <2>3. \A j \in notifying'.left : j \in notifying.left /\ notifying'.payload = notifying.payload
    BY <1>7 DEF SendTo, Send, NoNotify, StreamsInv, SubscribeTypeOK
  <2>4. /\ \A o \in Streams \ {s} : sent'[o] = sent[o]
        /\ sent'[s] \subseteq sent[s] \cup {notifying.payload}
    BY <1>7, <2>1 DEF SendTo, Send
  <2>5. IsMessage(notifying.payload, AccountOf[KeyOf[s]])
    BY <2>1, <2>2 DEF SentIsTheirs
  <2>. HIDE DEF s
  <2>6. \A o \in Streams : \A i \in sent'[o] : IsMessage(i, AccountOf[KeyOf[o]])
    BY <2>4, <2>5 DEF SentIsTheirs
  <2>. QED
    BY <1>2, <2>2, <2>3, <2>6 DEF SentIsTheirs
<1>8. CASE Crash
  <2>1. changes' = <<>> /\ notifying'.left = {} /\ UNCHANGED sent
    BY <1>8, NoNotifyType DEF Crash, SubscribeCrash
  <2>. QED
    BY <1>2, <2>1 DEF SentIsTheirs
<1>9. ASSUME NEW a \in Accounts, InboxAddMessage(a) \/ InboxFetch(a) PROVE SentIsTheirs'
  BY <1>3, <1>9 DEF InboxAddMessage, InboxFetch, subscribeVars
<1>10. ASSUME NEW s \in Streams,
              \/ ClientSubscribes(s)
              \/ /\ \/ AddStream(s)
                    \/ WaitCloseStream(s)
                    \/ NotifySubscribeReturns(s)
                    \/ StreamEnds(s)
                    \/ StreamStalls(s)
                 /\ UNCHANGED inboxVars
       PROVE  SentIsTheirs'
  BY <1>3, <1>10 DEF ClientSubscribes, NotifySubscribe, AddStream, WaitCloseStream,
                     NotifySubscribeReturns, StreamEnds, StreamStalls, inboxVars
<1>11. CASE UNCHANGED vars
  BY <1>3, <1>11 DEF vars, subscribeVars, inboxVars
<1>. QED
  BY <1>4, <1>5, <1>6, <1>7, <1>8, <1>9, <1>10, <1>11 DEF Next

\* A fetch takes all there is, or the client fetches again.
LEMMA KeptByFetch ==
    ASSUME StreamsInv, MessagesInv, AnnounceInv, NEW a \in Accounts, InboxFetch(a)
    PROVE  AnnouncedIsKept'
<1>1. /\ fetched' = [fetched EXCEPT ![a] = @ \cup {m.id : m \in Page(a)}]
      /\ mustFetch' = IF HasMore(a) THEN mustFetch ELSE mustFetch \ {a}
      /\ a \in mustFetch
      /\ UNCHANGED <<sent, late, inbox>>
  BY DEF InboxFetch, subscribeVars
<1>2. fetched \in [Accounts -> SUBSET Nat]
  BY DEF MessagesInv
<1>. SUFFICES ASSUME NEW s \in Streams, NEW i \in sent[s]
     PROVE  LET b == AccountOf[KeyOf[s]]
            IN  i \in fetched'[b] \/ i \in late' \/ b \in mustFetch'
  BY <1>1 DEF AnnouncedIsKept
<1>3. AccountOf[KeyOf[s]] \in Accounts
  BY KeysAssumption
<1>4. CASE AccountOf[KeyOf[s]] # a
  BY <1>1, <1>2, <1>3, <1>4 DEF AnnounceInv, AnnouncedIsKept
<1>5. CASE AccountOf[KeyOf[s]] = a /\ HasMore(a)
  BY <1>1, <1>5
<1>6. CASE AccountOf[KeyOf[s]] = a /\ ~HasMore(a)
  <2>1. PICK m \in inbox : m.id = i /\ m.to = a
    BY <1>6 DEF AnnounceInv, SentIsTheirs, IsMessage
  <2>2. CASE m.id <= offset[a]
    BY <1>1, <1>2, <1>6, <2>1, <2>2 DEF MessagesInv, FetchIsGapFree
  <2>3. CASE ~(m.id <= offset[a])
    <3>1. m \in Newer(a)
      BY <2>1, <2>3 DEF Newer, MessagesInv, Message
    <3>2. m \in Page(a)
      BY <1>6, <3>1, LastPageIsAll
    <3>. QED
      BY <1>1, <1>2, <1>6, <2>1, <3>2
  <2>. QED
    BY <2>2, <2>3
<1>. QED
  BY <1>4, <1>5, <1>6

LEMMA KeptStep ==
    ASSUME StreamsInv, MessagesInv, AnnounceInv, [Next]_vars
    PROVE  AnnouncedIsKept'
<1>1. ASSUME UNCHANGED <<sent, fetched>>, late \subseteq late', mustFetch \subseteq mustFetch'
      PROVE  AnnouncedIsKept'
  BY <1>1 DEF AnnounceInv, AnnouncedIsKept
<1>2. ASSUME NEW a \in Accounts, InboxAddMessage(a) \/ InboxFetch(a) PROVE AnnouncedIsKept'
  BY <1>1, <1>2, KeptByFetch DEF InboxAddMessage, subscribeVars
<1>3. ASSUME NEW m \in adding, Insert(m) PROVE AnnouncedIsKept'
  BY <1>1, <1>3 DEF Insert, subscribeVars
<1>4. CASE StreamListener \/ ListenerEnds \/ Crash
  BY <1>1, <1>4 DEF StreamListener, NotifyAllPeers, ListenerEnds, Crash, SubscribeCrash,
                    subscribeVars
<1>5. ASSUME NEW s \in Streams,
             \/ ClientSubscribes(s)
             \/ /\ \/ AddStream(s)
                   \/ WaitCloseStream(s)
                   \/ NotifySubscribeReturns(s)
                   \/ StreamEnds(s)
                   \/ StreamStalls(s)
                /\ UNCHANGED inboxVars
      PROVE  AnnouncedIsKept'
  BY <1>1, <1>5 DEF ClientSubscribes, NotifySubscribe, AddStream, WaitCloseStream,
                    NotifySubscribeReturns, StreamEnds, StreamStalls, inboxVars
<1>6. ASSUME NEW k \in Keys, SendTo(k) PROVE AnnouncedIsKept'
  <2> DEFINE s == notifyStreams[k]
  <2>1. s \in Streams /\ KeyOf[s] = k /\ sent \in [Streams -> SUBSET Nat]
    BY <1>6 DEF SendTo, Send, StreamsInv, SubscribeTypeOK, RegisteredIsWaited, SendsToRegistered
  <2>2. UNCHANGED <<fetched, late>> /\ mustFetch \subseteq mustFetch'
    BY <1>6 DEF SendTo
  <2>3. CASE s \in done
    BY <1>1, <1>6, <2>2, <2>3 DEF SendTo, Send
  <2>4. CASE s \notin done
    <3>1. AccountOf[KeyOf[s]] \in mustFetch' /\ \A o \in Streams \ {s} : sent'[o] = sent[o]
      BY <1>6, <2>1, <2>4 DEF SendTo, Send
    <3>. HIDE DEF s
    <3>. QED
      BY <2>1, <2>2, <3>1 DEF AnnounceInv, AnnouncedIsKept
  <2>. QED
    BY <2>3, <2>4
<1>7. CASE UNCHANGED vars
  BY <1>1, <1>7 DEF vars, subscribeVars, inboxVars
<1>. QED
  BY <1>2, <1>3, <1>4, <1>5, <1>6, <1>7 DEF Next

\* For any page size and any number of accounts, peers and messages: a message that was
\* announced to a stream of its receiver is fetched, was inserted late, or the receiver
\* is still to fetch.
THEOREM AnnouncedIsNotLost == Spec => []AnnouncedIsKept
<1>1. Init => AnnounceInv
  BY NoNotifyType DEF Init, SubscribeInit, AnnounceInv, SentIsTheirs, AnnouncedIsKept
<1>2. StreamsInv /\ MessagesInv /\ AnnounceInv /\ [Next]_vars => AnnounceInv'
  BY SentStep, KeptStep DEF AnnounceInv
<1>3. AnnounceInv => AnnouncedIsKept
  BY DEF AnnounceInv
<1>. QED
  BY <1>1, <1>2, <1>3, PartsAreInvariant, PTL DEF Spec

=============================================================================
