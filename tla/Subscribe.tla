------------------------------- MODULE Subscribe -------------------------------
(****************************************************************************)
(* Package subscribe and the rpc handler NotifySubscribe: who is sent the   *)
(* notifications of an account.  A registration is made by AddStream and    *)
(* undone by a goroutine of its own, waitCloseStream, or by a failing Send; *)
(* all three work on one map under one mutex, by the key of the stream.     *)
(*                                                                          *)
(* One event type is modelled: package inbox publishes no other, and the    *)
(* entries of different event types never meet.                             *)
(****************************************************************************)
EXTENDS Integers, FiniteSets

CONSTANTS
    Accounts,
    Keys,           \* pairs of an account and a peer id
    AccountOf,      \* [Keys -> Accounts]
    Streams,        \* NotifySubscribe calls
    KeyOf,          \* [Streams -> Keys]
    None            \* no stream

ASSUME KeysAssumption == AccountOf \in [Keys -> Accounts] /\ KeyOf \in [Streams -> Keys]
ASSUME NoneAssumption == None \notin Streams

VARIABLES
    rpc,            \* how far each NotifySubscribe call is
    done,           \* streams whose context is done
    stalled,        \* streams whose client does not read: Send blocks
    notifyStreams,  \* the map: the stream registered under each key
    waiters,        \* streams whose waitCloseStream goroutine runs
    notifying,      \* NotifyAllPeers in its loop: what it sends, keys left to send to
    sent            \* what was sent to each stream

subscribeVars == <<rpc, done, stalled, notifyStreams, waiters, notifying, sent>>

NoNotify == [payload |-> 0, left |-> {}]

SubscribeTypeOK ==
    /\ rpc \in [Streams -> {"unused", "called", "waiting", "returned"}]
    /\ done \in SUBSET Streams
    /\ stalled \in SUBSET Streams
    /\ notifyStreams \in [Keys -> Streams \cup {None}]
    /\ waiters \in SUBSET Streams
    /\ notifying \in [payload : Nat, left : SUBSET Keys]
    /\ sent \in [Streams -> SUBSET Nat]

SubscribeInit ==
    /\ rpc = [s \in Streams |-> "unused"]
    /\ done = {}
    /\ stalled = {}
    /\ notifyStreams = [k \in Keys |-> None]
    /\ waiters = {}
    /\ notifying = NoNotify
    /\ sent = [s \in Streams |-> {}]

Registered(s) == notifyStreams[KeyOf[s]] = s

\* mu: NotifyAllPeers holds it from its first Send to its last.
Unlocked == notifying.left = {}

Live(s) == rpc[s] = "waiting" /\ s \notin done

\* The call arrives; from here on the handler runs on its own.
NotifySubscribe(s) ==
    /\ rpc[s] = "unused"
    /\ rpc' = [rpc EXCEPT ![s] = "called"]
    /\ UNCHANGED <<done, stalled, notifyStreams, waiters, notifying, sent>>

\* A key that is taken gives ErrSubscribePeerAlreadySubscribed, which the handler
\* drops: it waits for the end of its stream either way.  (An event type the map was
\* not made with panics at its inner map, which ends the process: SubscribeCrash.)
AddStream(s) ==
    /\ rpc[s] = "called"
    /\ Unlocked
    /\ rpc' = [rpc EXCEPT ![s] = "waiting"]
    /\ IF notifyStreams[KeyOf[s]] = None
       THEN /\ notifyStreams' = [notifyStreams EXCEPT ![KeyOf[s]] = s]
            /\ waiters' = waiters \cup {s}
       ELSE UNCHANGED <<notifyStreams, waiters>>
    /\ UNCHANGED <<done, stalled, notifying, sent>>

\* Faulty variant for DeadStreamIsForgotten: only the handler of the latest stream of
\* a peer clears its entry.
WaitCloseStreamOfLast(s) ==
    /\ s \in waiters \cap done
    /\ Unlocked
    /\ waiters' = waiters \ {s}
    /\ notifyStreams' =
        [notifyStreams EXCEPT ![KeyOf[s]] =
            IF \E o \in Streams \ {s} : KeyOf[o] = KeyOf[s] /\ Live(o) THEN @ ELSE None]
    /\ UNCHANGED <<rpc, done, stalled, notifying, sent>>

\* Faulty variant for RegisteredIsWaited: the goroutine gives up on a taken mutex.
WaitCloseStreamTryLock(s) ==
    /\ s \in waiters \cap done
    /\ waiters' = waiters \ {s}
    /\ notifyStreams' =
        IF Unlocked THEN [notifyStreams EXCEPT ![KeyOf[s]] = None] ELSE notifyStreams
    /\ UNCHANGED <<rpc, done, stalled, notifying, sent>>

\* Faulty variant for IInv: the mutex is not taken.
WaitCloseStreamUnlocked(s) ==
    /\ s \in waiters \cap done
    /\ waiters' = waiters \ {s}
    /\ notifyStreams' = [notifyStreams EXCEPT ![KeyOf[s]] = None]
    /\ UNCHANGED <<rpc, done, stalled, notifying, sent>>

\* removeStream deletes whatever stream the key has by now.
WaitCloseStream(s) ==
    /\ s \in waiters \cap done
    /\ Unlocked
    /\ waiters' = waiters \ {s}
    /\ notifyStreams' = [notifyStreams EXCEPT ![KeyOf[s]] = None]
    /\ UNCHANGED <<rpc, done, stalled, notifying, sent>>

NotifySubscribeReturns(s) ==
    /\ rpc[s] = "waiting"
    /\ s \in done
    /\ rpc' = [rpc EXCEPT ![s] = "returned"]
    /\ UNCHANGED <<done, stalled, notifyStreams, waiters, notifying, sent>>

\* The client goes away, or the connection breaks.
StreamEnds(s) ==
    /\ rpc[s] \in {"called", "waiting"}
    /\ s \notin done
    /\ done' = done \cup {s}
    /\ UNCHANGED <<rpc, stalled, notifyStreams, waiters, notifying, sent>>

StreamStalls(s) ==
    /\ Live(s)
    /\ s \notin stalled
    /\ stalled' = stalled \cup {s}
    /\ UNCHANGED <<rpc, done, notifyStreams, waiters, notifying, sent>>

\* NotifyAllPeers takes the mutex; without a peer of the account it is over at once.
NotifyAllPeers(account, payload) ==
    /\ Unlocked
    /\ notifying' = LET left == {k \in Keys : AccountOf[k] = account /\ notifyStreams[k] # None}
                    IN  IF left = {} THEN NoNotify ELSE [payload |-> payload, left |-> left]
    /\ UNCHANGED <<rpc, done, stalled, notifyStreams, waiters, sent>>

\* One turn of its loop, in the arbitrary order of a map: Send writes the event, fails
\* on a stream that is over, which is removed, and blocks on one that is stalled.
Send(k) ==
    LET s == notifyStreams[k]
    IN  /\ k \in notifying.left
        /\ s \in stalled => s \in done
        /\ notifying' = IF notifying.left = {k} THEN NoNotify
                        ELSE [notifying EXCEPT !.left = @ \ {k}]
        /\ IF s \in done
           THEN /\ notifyStreams' = [notifyStreams EXCEPT ![k] = None]
                /\ UNCHANGED sent
           ELSE /\ sent' = [sent EXCEPT ![s] = @ \cup {notifying.payload}]
                /\ UNCHANGED notifyStreams
        /\ UNCHANGED <<rpc, done, stalled, waiters>>

\* The coordinator stops or panics: every call ends, the map and its goroutines are
\* gone.
SubscribeCrash ==
    /\ rpc' = [s \in Streams |-> IF rpc[s] = "unused" THEN "unused" ELSE "returned"]
    /\ done' = {s \in Streams : rpc[s] # "unused"}
    /\ notifyStreams' = [k \in Keys |-> None]
    /\ waiters' = {}
    /\ notifying' = NoNotify
    /\ UNCHANGED <<stalled, sent>>

\* No registration outlives its stream for good: a registered stream has a goroutine
\* that waits for its end and will find it under its key, although others remove and
\* make entries meanwhile.
RegisteredIsWaited ==
    \A k \in Keys : notifyStreams[k] # None =>
        notifyStreams[k] \in waiters /\ KeyOf[notifyStreams[k]] = k

\* The loop of NotifyAllPeers never comes to a peer that was removed after it began:
\* the mutex keeps AddStream and waitCloseStream out.
SendsToRegistered == \A k \in notifying.left : notifyStreams[k] # None

=============================================================================
