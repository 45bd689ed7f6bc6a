------------------------------ MODULE RxBridge ------------------------------
(***************************************************************************)
(* RxObservables.ObservableToProducer: the object that connects ONE        *)
(* subscription of the callback driver (com.mongodb.async.client) to ONE   *)
(* rx.Subscriber.                                                          *)
(*                                                                         *)
(* Three kinds of threads run its code at the same time:                   *)
(*   - the Wirer, the thread that calls Observable.subscribe: it builds    *)
(*     the bridge, stores the driver's subscription, hands the subscriber  *)
(*     a way to unsubscribe and installs the bridge as its Producer;       *)
(*   - the application Threads, that request results and unsubscribe;      *)
(*   - the Driver, whoever the driver delivers results on.  The driver     *)
(*     delivers one result at a time, so it is a single process here.      *)
(* The bridge holds no lock.  Every test of isSubscribed() is a step of    *)
(* its own, so an unsubscribe may fall between a test and what it guards.  *)
(*                                                                         *)
(* rx.Subscriber and the driver's Subscription are outside the repository: *)
(* they are modelled by the contract the bridge relies on.                 *)
(***************************************************************************)
EXTENDS Integers, FiniteSets

CONSTANTS
    Threads,    \* application threads
    Wirer,      \* the thread that calls subscribe
    Driver,     \* the process that delivers the driver's results
    MaxResults, \* bound: an operation yields at most this many results
    MaxLong,    \* stands for Long.MAX_VALUE, what "everything" is asked with
    MaxAsk      \* bound: no request call once this much was asked for

ASSUME BridgeAssumption ==
    /\ IsFiniteSet(Threads)
    /\ Wirer \notin Threads
    /\ Driver \notin Threads
    /\ Wirer # Driver
    /\ MaxResults \in Nat
    /\ MaxLong \in Nat \ {0}
    /\ MaxAsk \in Nat

Procs == Threads \cup {Wirer, Driver}

VARIABLES
    pc,           \* where each process is in the code of the bridge
    amount,       \* the argument n of the request a process is executing
    \* ---- the bridge
    wiring,       \* how far the constructor has come
    subscription, \* the field `subscription` has been assigned
    inner,        \* the AtomicBoolean of the rx.Subscription it adds
    \* ---- the rx.Subscriber (external)
    safe,         \* it unsubscribes itself after a terminal event
    unsubscribed, \* Subscriber.isUnsubscribed()
    added,        \* it holds the bridge's rx.Subscription
    pending,      \* requested before a producer was set
    \* ---- the driver's operation and Subscription (external)
    total,        \* how many results the operation has
    op,           \* "none" until the operation starts
    demand,       \* requested of the driver and not yet delivered by it
    emitted,      \* results the driver has passed to the bridge
    cancels,      \* calls of Subscription.unsubscribe()
    \* ---- history: what the application asked for and what it saw
    asked,        \* everything it requested
    nexts,        \* onNext calls it received
    terminals,    \* onError and onCompleted calls it received
    outcome,      \* the kind of the last of them
    late,         \* calls it received although it had unsubscribed
    threw         \* its onNext threw an exception

bridgeVars == <<wiring, subscription, inner>>
rxVars     == <<safe, unsubscribed, added, pending>>
driverVars == <<total, op, demand, emitted, cancels>>
seenVars   == <<nexts, terminals, outcome, late, threw>>
vars == <<pc, amount, bridgeVars, rxVars, driverVars, asked, seenVars>>

NotSet == -1
PCs == { "idle",
         "request", "call", "catch",                  \* Producer.request
         "onNext", "onError", "onComplete",           \* Observer callbacks
         "sendNext", "sendError", "sendCompleted",    \* ... past the test
         "cancel", "close" }                          \* rx.Subscription.unsubscribe

Goto(p, label) == pc' = [pc EXCEPT ![p] = label]

SatWraps(a, b) == a + b     \* mutant: no overflow check

\* Adding to a demand stops at Long.MAX_VALUE.
Sat(a, b) == IF a + b > MaxLong THEN MaxLong ELSE a + b

Init ==
    /\ pc = [p \in Procs |-> "idle"]
    /\ amount = [p \in Procs |-> 0]
    /\ wiring = "new" /\ subscription = FALSE /\ inner = FALSE
    /\ safe \in BOOLEAN /\ unsubscribed = FALSE /\ added = FALSE /\ pending = NotSet
    /\ total \in 0..MaxResults
    /\ op = "none" /\ demand = 0 /\ emitted = 0 /\ cancels = 0
    /\ asked = 0
    /\ nexts = 0 /\ terminals = 0 /\ outcome = "none" /\ late = 0 /\ threw = FALSE

-----------------------------------------------------------------------------
(***************************************************************************)
(* Wiring: the constructor, run by the thread that subscribes.             *)
(***************************************************************************)

\* mutant: onSubscribe asks for a first result at once
OnSubscribePrefetches ==
    /\ wiring = "new"
    /\ wiring' = "add"
    /\ subscription' = TRUE
    /\ op' = "running" /\ demand' = 1
    /\ UNCHANGED <<pc, amount, inner, rxVars, total, emitted, cancels, asked, seenVars>>

\* mutant: the field is never assigned
OnSubscribeKeepsNothing ==
    /\ wiring = "new"
    /\ wiring' = "add"
    /\ UNCHANGED <<pc, amount, subscription, inner, rxVars, driverVars, asked, seenVars>>

\* observable.subscribe(observer) calls observer.onSubscribe(s) before it
\* returns; the first thing that does is to store s.
OnSubscribe ==
    /\ wiring = "new"
    /\ wiring' = "add"
    /\ subscription' = TRUE
    /\ UNCHANGED <<pc, amount, inner, rxVars, driverVars, asked, seenVars>>

\* rxSubscriber.add(...): a subscriber that is unsubscribed already does not
\* keep the rx.Subscription but unsubscribes it on the spot.
AddSubscription ==
    /\ wiring = "add"
    /\ wiring' = "producer"
    /\ added' = ~unsubscribed
    /\ IF unsubscribed THEN Goto(Wirer, "cancel") ELSE UNCHANGED pc
    /\ UNCHANGED <<amount, subscription, inner, safe, unsubscribed, pending,
                   driverVars, asked, seenVars>>

\* rxSubscriber.setProducer(this) calls request with what was requested so
\* far, or with Long.MAX_VALUE when request was never called.
SetProducer ==
    /\ wiring = "producer"
    /\ pc[Wirer] = "idle"
    /\ wiring' = "done"
    /\ LET n == IF pending = NotSet THEN MaxLong ELSE pending
       IN  amount' = [amount EXCEPT ![Wirer] = n]
    /\ Goto(Wirer, "request")
    /\ asked' = IF pending = NotSet THEN MaxLong ELSE asked
    /\ UNCHANGED <<subscription, inner, rxVars, driverVars, seenVars>>

-----------------------------------------------------------------------------
(***************************************************************************)
(* Requests.                                                               *)
(***************************************************************************)

\* Subscriber.request(n): until there is a producer the subscriber adds the
\* requests up, afterwards it calls the producer.
Ask(t, n) ==
    /\ pc[t] = "idle"
    /\ asked + n <= MaxAsk
    /\ asked' = asked + n
    /\ IF wiring = "done"
       THEN /\ Goto(t, "request")
            /\ amount' = [amount EXCEPT ![t] = n]
            /\ UNCHANGED pending
       ELSE /\ pending' = IF pending = NotSet THEN n ELSE Sat(pending, n)
            /\ UNCHANGED <<pc, amount>>
    /\ UNCHANGED <<bridgeVars, safe, unsubscribed, added, driverVars, seenVars>>

\* mutant: request(0) is passed on
RequestCheckForwardsZero(p) ==
    /\ pc[p] = "request"
    /\ Goto(p, IF unsubscribed THEN "idle" ELSE "call")
    /\ amount' = IF unsubscribed THEN [amount EXCEPT ![p] = 0] ELSE amount
    /\ UNCHANGED <<bridgeVars, rxVars, driverVars, asked, seenVars>>

\* ObservableToProducer.request up to the test of isSubscribed().
RequestCheck(p) ==
    /\ pc[p] = "request"
    /\ LET drop == amount[p] = 0 \/ unsubscribed
       IN  /\ Goto(p, IF drop THEN "idle" ELSE "call")
           /\ amount' = IF drop THEN [amount EXCEPT ![p] = 0] ELSE amount
    /\ UNCHANGED <<bridgeVars, rxVars, driverVars, asked, seenVars>>

\* The driver's Subscription.request(n): the first request starts the
\* operation, which may throw; it throws for n < 1.  Once unsubscribed it
\* does nothing.
SourceRequest(n, thrown) ==
    /\ thrown => n = 0 \/ (op = "none" /\ cancels = 0)
    /\ ~thrown => n > 0
    /\ LET live == n > 0 /\ cancels = 0
       IN  /\ op' = IF live /\ op = "none"
                    THEN (IF thrown THEN "failed" ELSE "running")
                    ELSE op
           /\ demand' = IF live THEN Sat(demand, n) ELSE demand
    /\ UNCHANGED <<total, emitted, cancels>>

\* mutant: everything is requested whatever n is
SubscriptionRequestAll(p) ==
    /\ pc[p] = "call"
    /\ \E thrown \in BOOLEAN :
        /\ SourceRequest(MaxLong, thrown)
        /\ Goto(p, IF thrown THEN "catch" ELSE "idle")
    /\ amount' = [amount EXCEPT ![p] = 0]
    /\ UNCHANGED <<bridgeVars, rxVars, asked, seenVars>>

\* mutant: one result is requested whatever n is
SubscriptionRequestOne(p) ==
    /\ pc[p] = "call"
    /\ \E thrown \in BOOLEAN :
        /\ SourceRequest(1, thrown)
        /\ Goto(p, IF thrown THEN "catch" ELSE "idle")
    /\ amount' = [amount EXCEPT ![p] = 0]
    /\ UNCHANGED <<bridgeVars, rxVars, asked, seenVars>>

\* subscription.request(n) inside the try.  Reading a field that was never
\* assigned throws a NullPointerException, which the catch takes like any
\* other exception.
SubscriptionRequest(p) ==
    /\ pc[p] = "call"
    /\ \E thrown \in BOOLEAN :
        /\ subscription \/ thrown
        /\ IF subscription THEN SourceRequest(amount[p], thrown)
                           ELSE UNCHANGED driverVars
        /\ Goto(p, IF thrown THEN "catch" ELSE "idle")
    /\ amount' = [amount EXCEPT ![p] = 0]
    /\ UNCHANGED <<bridgeVars, rxVars, asked, seenVars>>

-----------------------------------------------------------------------------
(***************************************************************************)
(* What the subscriber is told.                                            *)
(***************************************************************************)

\* Subscriber.unsubscribe() by process p: set the flag and unsubscribe the
\* rx.Subscription it holds, if it holds one by now.
UnsubscribeBy(p) ==
    /\ unsubscribed' = TRUE
    /\ Goto(p, IF added THEN "cancel" ELSE "idle")

CountLate == late' = IF unsubscribed THEN late + 1 ELSE late

\* rxSubscriber.onError / onCompleted.  A SafeSubscriber (what subscribe
\* wraps the application's subscriber in) then unsubscribes; an operator's
\* subscriber (what an ObservableAdapter puts there) does not.
Terminal(p, kind) ==
    /\ terminals' = terminals + 1
    /\ outcome' = kind
    /\ CountLate
    /\ IF safe THEN UnsubscribeBy(p)
               ELSE Goto(p, "idle") /\ UNCHANGED unsubscribed
    /\ UNCHANGED <<amount, bridgeVars, safe, added, pending, driverVars, asked,
                   nexts, threw>>

\* mutant: the exception is swallowed
RequestCatchSwallows(p) ==
    /\ pc[p] = "catch"
    /\ Goto(p, "idle")
    /\ UNCHANGED <<amount, bridgeVars, rxVars, driverVars, asked, seenVars>>

\* catch (Throwable t) { rxSubscriber.onError(t); }, without a test.
RequestCatch(p) ==
    /\ pc[p] = "catch"
    /\ Terminal(p, "error")

\* The test of isSubscribed() that guards each Observer callback.
Guard(label, next) ==
    /\ pc[Driver] = label
    /\ Goto(Driver, IF unsubscribed THEN "idle" ELSE next)
    /\ UNCHANGED <<amount, bridgeVars, rxVars, driverVars, asked, seenVars>>

\* mutant: the callback of the observer does not test isSubscribed()
OnNextUnguarded ==
    /\ pc[Driver] = "onNext"
    /\ Goto(Driver, "sendNext")
    /\ UNCHANGED <<amount, bridgeVars, rxVars, driverVars, asked, seenVars>>

\* mutant: the test is the wrong way round
OnNextInverted ==
    /\ pc[Driver] = "onNext"
    /\ Goto(Driver, IF unsubscribed THEN "sendNext" ELSE "idle")
    /\ UNCHANGED <<amount, bridgeVars, rxVars, driverVars, asked, seenVars>>

OnNext == Guard("onNext", "sendNext")

OnError == Guard("onError", "sendError")

\* mutant: onComplete does not test isSubscribed()
OnCompleteUnguarded ==
    /\ pc[Driver] = "onComplete"
    /\ Goto(Driver, "sendCompleted")
    /\ UNCHANGED <<amount, bridgeVars, rxVars, driverVars, asked, seenVars>>

OnComplete == Guard("onComplete", "sendCompleted")

\* rxSubscriber.onNext(tResult)
SendNext ==
    /\ pc[Driver] = "sendNext"
    /\ nexts' = nexts + 1
    /\ CountLate
    /\ Goto(Driver, "idle")
    /\ UNCHANGED <<amount, bridgeVars, rxVars, driverVars, asked, terminals,
                   outcome, threw>>

\* ... and the application's onNext throws.  Its SafeSubscriber reports that
\* to the onError of the application and unsubscribes; the exception does not
\* come back to the bridge.  (An operator handles its function's exceptions.)
SendNextThrows ==
    /\ pc[Driver] = "sendNext"
    /\ safe
    /\ nexts' = nexts + 1
    /\ threw' = TRUE
    /\ terminals' = terminals + 1
    /\ outcome' = "error"
    /\ CountLate
    /\ UnsubscribeBy(Driver)
    /\ UNCHANGED <<amount, bridgeVars, safe, added, pending, driverVars, asked>>

\* mutant: after onError the observer goes on to onCompleted
SendErrorThenCompletes ==
    /\ pc[Driver] = "sendError"
    /\ terminals' = terminals + 1
    /\ outcome' = "error"
    /\ Goto(Driver, "sendCompleted")
    /\ CountLate
    /\ UNCHANGED <<amount, bridgeVars, rxVars, driverVars, asked, nexts, threw>>

\* mutant: onError ends the sequence like onComplete
SendErrorCompletes == pc[Driver] = "sendError" /\ Terminal(Driver, "completed")

SendError == pc[Driver] = "sendError" /\ Terminal(Driver, "error")

SendCompleted == pc[Driver] = "sendCompleted" /\ Terminal(Driver, "completed")

-----------------------------------------------------------------------------
(***************************************************************************)
(* Unsubscribing.  An rx.Subscription may be unsubscribed any number of    *)
(* times, by any thread.                                                   *)
(***************************************************************************)

Unsubscribe(t) ==
    /\ pc[t] = "idle"
    /\ UnsubscribeBy(t)
    /\ UNCHANGED <<amount, bridgeVars, safe, added, pending, driverVars, asked, seenVars>>

\* mutant: the flag is tested the wrong way round
InnerUnsubscribeInverted(p) ==
    /\ pc[p] = "cancel"
    /\ inner' = TRUE
    /\ Goto(p, IF inner THEN "close" ELSE "idle")
    /\ UNCHANGED <<amount, wiring, subscription, rxVars, driverVars, asked, seenVars>>

\* mutant: the flag is set but not tested
InnerUnsubscribeAlways(p) ==
    /\ pc[p] = "cancel"
    /\ inner' = TRUE
    /\ Goto(p, "close")
    /\ UNCHANGED <<amount, wiring, subscription, rxVars, driverVars, asked, seenVars>>

\* unsubscribed.getAndSet(true)
InnerUnsubscribe(p) ==
    /\ pc[p] = "cancel"
    /\ inner' = TRUE
    /\ Goto(p, IF inner THEN "idle" ELSE "close")
    /\ UNCHANGED <<amount, wiring, subscription, rxVars, driverVars, asked, seenVars>>

\* subscription.unsubscribe(): the driver starts no further delivery.
SubscriptionUnsubscribe(p) ==
    /\ pc[p] = "close"
    /\ cancels' = cancels + 1
    /\ Goto(p, "idle")
    /\ UNCHANGED <<amount, bridgeVars, rxVars, total, op, demand, emitted, asked, seenVars>>

-----------------------------------------------------------------------------
(***************************************************************************)
(* The driver's side (external): it delivers no more than was requested,   *)
(* one thing at a time, nothing after the end and nothing new once         *)
(* unsubscribed.                                                           *)
(***************************************************************************)

Delivering == op = "running" /\ cancels = 0 /\ pc[Driver] = "idle"

SourceNext ==
    /\ Delivering
    /\ demand > 0
    /\ emitted < total
    /\ emitted' = emitted + 1
    /\ demand' = demand - 1
    /\ Goto(Driver, "onNext")
    /\ UNCHANGED <<amount, bridgeVars, rxVars, total, op, cancels, asked, seenVars>>

SourceComplete ==
    /\ Delivering
    /\ emitted = total
    /\ op' = "over"
    /\ Goto(Driver, "onComplete")
    /\ UNCHANGED <<amount, bridgeVars, rxVars, total, demand, emitted, cancels, asked, seenVars>>

SourceError ==
    /\ Delivering
    /\ op' = "over"
    /\ Goto(Driver, "onError")
    /\ UNCHANGED <<amount, bridgeVars, rxVars, total, demand, emitted, cancels, asked, seenVars>>

-----------------------------------------------------------------------------
Wire == OnSubscribe \/ AddSubscription \/ SetProducer

\* What process p does once it is inside the code of the bridge.
Continue(p) ==
    \/ RequestCheck(p)
    \/ SubscriptionRequest(p)
    \/ RequestCatch(p)
    \/ InnerUnsubscribe(p)
    \/ SubscriptionUnsubscribe(p)

Callback ==
    \/ OnNext \/ OnError \/ OnComplete
    \/ SendNext \/ SendNextThrows \/ SendError \/ SendCompleted

Source == SourceNext \/ SourceComplete \/ SourceError

Next ==
    \/ Wire
    \/ \E p \in Procs : Continue(p)
    \/ Callback
    \/ Source
    \/ \E t \in Threads : \E n \in 0..MaxAsk : Ask(t, n)
    \/ \E t \in Threads : Unsubscribe(t)

Spec == Init /\ [][Next]_vars

\* A thread inside the library keeps running, and a running operation with
\* unfulfilled demand delivers or ends (the driver's socket and server
\* selection timeouts end an operation the server does not answer).  Nothing
\* obliges the application to request or to unsubscribe.
Fairness ==
    /\ WF_vars(Wire)
    /\ \A p \in Procs : WF_vars(Continue(p))
    /\ WF_vars(Callback)
    /\ WF_vars(demand > 0 /\ Source)

FairSpec == Spec /\ Fairness

-----------------------------------------------------------------------------
(***************************************************************************)
(* Properties.                                                             *)
(***************************************************************************)

\* Every variable keeps its type; demands never exceed Long.MAX_VALUE.
TypeOK ==
    /\ pc \in [Procs -> PCs]
    /\ amount \in [Procs -> Nat]
    /\ wiring \in {"new", "add", "producer", "done"}
    /\ subscription \in BOOLEAN /\ inner \in BOOLEAN
    /\ safe \in BOOLEAN /\ unsubscribed \in BOOLEAN /\ added \in BOOLEAN
    /\ pending \in Nat \cup {NotSet}
    /\ total \in Nat /\ emitted \in Nat /\ cancels \in Nat
    /\ demand \in 0..MaxLong
    /\ op \in {"none", "running", "failed", "over"}
    /\ asked \in Nat /\ nexts \in Nat /\ terminals \in Nat /\ late \in Nat
    /\ outcome \in {"none", "error", "completed"}
    /\ threw \in BOOLEAN

\* The subscriber never receives more results than it asked for, however the
\* requests of several threads and the deliveries interleave.
Backpressure == nexts <= asked

\* A subscriber that is told the sequence is complete has seen all of it:
\* no result is dropped between the driver and the subscriber's onCompleted,
\* even when an unsubscribe races with the deliveries.
WholeSequence == outcome = "completed" => nexts = total

\* onNext* (onError | onCompleted)?: at most one terminal event ...
AtMostOneTerminal == terminals <= 1

\* ... and nothing after it.
NothingAfterTerminal ==
    [][terminals > 0 => UNCHANGED <<nexts, terminals, outcome>>]_vars

\* Unsubscribing is not synchronised with the deliveries, yet at most the one
\* call that had already passed its test still gets through.
OneLateCallAtMost == late <= 1

\* The driver's subscription is unsubscribed at most once, although several
\* threads may unsubscribe the rx side.
CancelledAtMostOnce == cancels <= 1

\* No cursor is left open: when the subscriber is unsubscribed and no thread
\* is on its way through the unsubscribe code, the driver has been told -
\* also when the unsubscribe came before the bridge was wired.
NoLeakedCursor ==
    /\ unsubscribed
    /\ wiring \in {"producer", "done"}
    /\ \A p \in Procs : pc[p] \notin {"cancel", "close"}
    => cancels = 1

\* Nothing happens until results are asked for: an operation that has started
\* was asked for at least one result.
Cold == op # "none" => asked > 0

\* The subscriber is told of an error only when its operation failed or it
\* threw itself: neither request(0) nor a request racing with the wiring makes
\* an error up.
ErrorsAreReal == outcome = "error" => threw \/ op \in {"failed", "over"}

\* Unsubscribing eventually reaches the driver.
UnsubscribeReachesDriver == unsubscribed ~> cancels = 1

\* An operation that cannot even be started is reported, not lost in the
\* thread that happened to call request.
StartFailureIsReported == op = "failed" ~> outcome = "error"
=============================================================================
