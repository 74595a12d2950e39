--------------------------------- MODULE Inbox ---------------------------------
(****************************************************************************)
(* Package inbox on top of Subscribe: messages are inserted into a          *)
(* collection, a goroutine reads the collection's change stream and         *)
(* notifies the receiver's streams, and the receiver reads its messages     *)
(* page by page, by increasing id.                                          *)
(*                                                                          *)
(* The ids are drawn by the Mongo driver in InsertOne, before the server    *)
(* sees the message: two calls of InboxAddMessage may insert in an order    *)
(* other than that of their ids.  The clients are not in this repository:   *)
(* they are taken to do what coordinator/inboxrpctest says of them, to      *)
(* fetch after they subscribe, after a notification, and while there is     *)
(* more, from the last id they have.                                        *)
(****************************************************************************)
EXTENDS Subscribe, Sequences

CONSTANTS
    FetchLimit,     \* config inbox.fetchLimit
    MaxMessages,    \* bound: messages in a behaviour
    MaxFaults       \* bound: crashes and losses of the change stream

ASSUME InboxAssumption == FetchLimit \in Nat \ {0} /\ MaxMessages \in Nat /\ MaxFaults \in Nat

VARIABLES
    inbox,          \* the collection
    adding,         \* messages with an id, not yet inserted
    nextId,         \* the next ObjectID
    listening,      \* the change stream is open
    changes,        \* what it has not yet returned
    offset,         \* the last id each account has fetched
    fetched,        \* the ids each account has fetched
    mustFetch,      \* accounts whose client is about to fetch
    late,           \* history: ids inserted below an offset
    faults

inboxVars == <<inbox, adding, nextId, listening, changes, offset, fetched, mustFetch, late, faults>>

vars == <<subscribeVars, inboxVars>>

Message == [id : Nat, to : Accounts]

TypeOK ==
    /\ SubscribeTypeOK
    /\ inbox \in SUBSET Message
    /\ adding \in SUBSET Message
    /\ nextId \in Nat
    /\ listening \in BOOLEAN
    /\ changes \in Seq(Message)
    /\ offset \in [Accounts -> Nat]
    /\ fetched \in [Accounts -> SUBSET Nat]
    /\ mustFetch \in SUBSET Accounts
    /\ late \in SUBSET Nat
    /\ faults \in 0 .. MaxFaults

Init ==
    /\ SubscribeInit
    /\ inbox = {}
    /\ adding = {}
    /\ nextId = 1
    /\ listening = TRUE
    /\ changes = <<>>
    /\ offset = [a \in Accounts |-> 0]
    /\ fetched = [a \in Accounts |-> {}]
    /\ mustFetch = {}
    /\ late = {}
    /\ faults = 0

----------------------------------------------------------------------------

\* InboxAddMessage, once the sender's signature is verified: the driver draws the id ...
InboxAddMessage(to) ==
    /\ nextId <= MaxMessages
    /\ adding' = adding \cup {[id |-> nextId, to |-> to]}
    /\ nextId' = nextId + 1
    /\ UNCHANGED <<subscribeVars, inbox, listening, changes, offset, fetched, mustFetch, late, faults>>

\* ... and the server inserts the message and tells an open change stream.
Insert(m) ==
    /\ m \in adding
    /\ adding' = adding \ {m}
    /\ inbox' = inbox \cup {m}
    /\ changes' = IF listening THEN Append(changes, m) ELSE changes
    /\ late' = IF m.id <= offset[m.to] THEN late \cup {m.id} ELSE late
    /\ UNCHANGED <<subscribeVars, nextId, listening, offset, fetched, mustFetch, faults>>

\* Faulty variant for MessageReachesSubscriber: a change is dropped while others are sent.
StreamListenerTryLock ==
    /\ changes # <<>>
    /\ IF Unlocked THEN NotifyAllPeers(Head(changes).to, Head(changes).id)
       ELSE UNCHANGED subscribeVars
    /\ changes' = Tail(changes)
    /\ UNCHANGED <<inbox, adding, nextId, listening, offset, fetched, mustFetch, late, faults>>

\* streamListener: the next change goes to every stream of the receiver.
StreamListener ==
    /\ changes # <<>>
    /\ NotifyAllPeers(Head(changes).to, Head(changes).id)
    /\ changes' = Tail(changes)
    /\ UNCHANGED <<inbox, adding, nextId, listening, offset, fetched, mustFetch, late, faults>>

\* stream.Next returns false, or Watch had failed: the goroutine ends, or never was,
\* and nothing starts it again.
ListenerEnds ==
    /\ listening
    /\ faults < MaxFaults
    /\ faults' = faults + 1
    /\ listening' = FALSE
    /\ changes' = <<>>
    /\ UNCHANGED <<subscribeVars, inbox, adding, nextId, offset, fetched, mustFetch, late>>

\* find({receiverIdentity: a, _id: {$gt: offset}}), sorted by id.
Newer(a) == {m \in inbox : m.to = a /\ m.id > offset[a]}

\* Faulty variant for FetchIsGapFree: the messages cut off are those in front.
LastPage(a) ==
    {m \in Newer(a) : Cardinality({n \in Newer(a) : n.id >= m.id}) <= FetchLimit}

\* One more than FetchLimit is read, and cut off again.
Page(a) ==
    {m \in Newer(a) : Cardinality({n \in Newer(a) : n.id <= m.id}) <= FetchLimit}

\* Faulty variant for AnnouncedIsKept and AnnouncedIsFetched: off by one.
HasMoreThanNext(a) == Cardinality(Newer(a)) > FetchLimit + 1

HasMore(a) == Cardinality(Newer(a)) > FetchLimit

InboxFetch(a) ==
    /\ a \in mustFetch
    /\ fetched' = [fetched EXCEPT ![a] = @ \cup {m.id : m \in Page(a)}]
    /\ offset' = [offset EXCEPT ![a] =
            IF Page(a) = {} THEN @
            ELSE CHOOSE i \in {m.id : m \in Page(a)} : \A m \in Page(a) : m.id <= i]
    /\ mustFetch' = IF HasMore(a) THEN mustFetch ELSE mustFetch \ {a}
    /\ UNCHANGED <<subscribeVars, inbox, adding, nextId, listening, changes, late, faults>>

\* A client that subscribes fetches; it is not told when AddStream has run.
ClientSubscribes(s) ==
    /\ NotifySubscribe(s)
    /\ mustFetch' = mustFetch \cup {AccountOf[KeyOf[s]]}
    /\ UNCHANGED <<inbox, adding, nextId, listening, changes, offset, fetched, late, faults>>

\* A client that is notified fetches.
SendTo(k) ==
    /\ Send(k)
    /\ mustFetch' = IF notifyStreams[k] \in done THEN mustFetch ELSE mustFetch \cup {AccountOf[k]}
    /\ UNCHANGED <<inbox, adding, nextId, listening, changes, offset, fetched, late, faults>>

\* The coordinator stops and starts: calls that did not insert yet are lost, and the
\* new change stream begins with what is inserted from now on.
Crash ==
    /\ faults < MaxFaults
    /\ faults' = faults + 1
    /\ SubscribeCrash
    /\ adding' = {}
    /\ listening' = TRUE
    /\ changes' = <<>>
    /\ UNCHANGED <<inbox, nextId, offset, fetched, mustFetch, late>>

Next ==
    \/ \E a \in Accounts : InboxAddMessage(a) \/ InboxFetch(a)
    \/ \E m \in adding : Insert(m)
    \/ StreamListener
    \/ ListenerEnds
    \/ \E s \in Streams : \/ ClientSubscribes(s)
                          \/ AddStream(s) /\ UNCHANGED inboxVars
                          \/ WaitCloseStream(s) /\ UNCHANGED inboxVars
                          \/ NotifySubscribeReturns(s) /\ UNCHANGED inboxVars
                          \/ StreamEnds(s) /\ UNCHANGED inboxVars
                          \/ StreamStalls(s) /\ UNCHANGED inboxVars
    \/ \E k \in Keys : SendTo(k)
    \/ Crash

Spec == Init /\ [][Next]_vars

\* Goroutines run, a Send to a client that reads returns, and a client that is to fetch
\* does.  Nothing is assumed of when clients come, go or stop reading.
Fairness ==
    /\ \A m \in [id : 1 .. MaxMessages, to : Accounts] : WF_vars(Insert(m))
    /\ WF_vars(StreamListener)
    /\ \A s \in Streams : /\ WF_vars(AddStream(s) /\ UNCHANGED inboxVars)
                          /\ WF_vars(WaitCloseStream(s) /\ UNCHANGED inboxVars)
                          /\ WF_vars(NotifySubscribeReturns(s) /\ UNCHANGED inboxVars)
    /\ \A k \in Keys : WF_vars(SendTo(k))
    /\ \A a \in Accounts : WF_vars(InboxFetch(a))

FairSpec == Spec /\ Fairness

----------------------------------------------------------------------------
(* Properties.                                                              *)

\* Reading page after page skips nothing that was there: a message below the offset of
\* its receiver that the receiver does not have was inserted after a later id had
\* been fetched.
FetchIsGapFree ==
    \A m \in inbox : m.id <= offset[m.to] /\ m.id \notin fetched[m.to] => m.id \in late

\* A message that was announced to a stream of its receiver is not left behind by a
\* fetch that stops before it, although hasMore is taken from one page of a collection
\* that grows: the receiver has it, or is still fetching, or it was inserted late.
AnnouncedIsKept ==
    \A s \in Streams : \A i \in sent[s] :
        LET account == AccountOf[KeyOf[s]]
        IN  i \in fetched[account] \/ i \in late \/ account \in mustFetch

\* What is checked and proved of every state.
IInv ==
    /\ TypeOK
    /\ RegisteredIsWaited
    /\ SendsToRegistered
    /\ FetchIsGapFree

\* A client that stopped reading and stays blocks NotifyAllPeers, and with it the mutex,
\* for all accounts.  What follows is promised where each such client goes away.
StalledClientsLeave == <>[](stalled \subseteq done)

\* The entry of a stream that is over does not stay in the map.
DeadStreamIsForgotten ==
    StalledClientsLeave =>
        \A s \in Streams : Registered(s) /\ s \in done ~> ~Registered(s)

\* A change that the listener has is announced to a registered stream, unless a
\* goroutine of an older stream of the same peer is still to come, or the stream ends.
MessageReachesSubscriber ==
    StalledClientsLeave =>
        \A s \in Streams : \A i \in 1 .. MaxMessages :
            /\ \E n \in DOMAIN changes : changes[n].id = i /\ changes[n].to = AccountOf[KeyOf[s]]
            /\ Registered(s)
            /\ \A o \in waiters \ {s} : KeyOf[o] # KeyOf[s]
            ~> i \in sent[s] \/ s \in done \/ ~listening

\* A client that is told of a message gets it, however many are before it.
AnnouncedIsFetched ==
    \A s \in Streams : \A i \in 1 .. MaxMessages :
        i \in sent[s] ~> i \in fetched[AccountOf[KeyOf[s]]] \/ i \in late

----------------------------------------------------------------------------
(* What a comment says, and the code does not do: see the README.           *)

\* coordinator/inboxrpctest: a message that comes while a client subscribes reaches it,
\* because the client fetches right after it subscribed.
SubscriberCatchesUp ==
    StalledClientsLeave =>
        \A s \in Streams : \A i \in 1 .. MaxMessages :
            /\ Live(s)
            /\ \E m \in inbox : m.id = i /\ m.to = AccountOf[KeyOf[s]]
            ~> i \in fetched[AccountOf[KeyOf[s]]] \/ s \in done

=============================================================================
