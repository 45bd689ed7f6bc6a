--------------------------- MODULE AdaptedDelivery ---------------------------
(***************************************************************************)
(* An Observable behind the ObservableAdapter the documentation suggests,  *)
(* observable.observeOn(scheduler): RxBridge composed with that operator.  *)
(*                                                                         *)
(* RxObservables.create hands the Observable it has built to the adapter,  *)
(* so the rx.Subscriber of the bridge is no longer the application's: it   *)
(* is the operator's (the parent).  The parent asks for as many results as *)
(* its queue holds, whatever the application asks for, and puts what the   *)
(* bridge delivers into the queue.  The Worker, a thread of the scheduler, *)
(* takes results from the queue to the application's subscriber (the       *)
(* child) as far as that asked for them, and asks the bridge for more      *)
(* whenever Limit results have left the queue.                             *)
(*                                                                         *)
(* The operator is not part of the repository; it is modelled after what   *)
(* rx.Observable.observeOn promises its upstream and its child.            *)
(***************************************************************************)
EXTENDS RxBridge, Sequences

CONSTANTS
    Worker,     \* the scheduler's thread
    Queue,      \* capacity of the queue
    Limit       \* results that leave the queue before more are asked for

ASSUME AdapterAssumption ==
    /\ Worker \in Threads
    /\ Queue \in Nat \ {0}
    /\ Limit \in 1..Queue

VARIABLES
    queue,              \* results delivered by the bridge, by number
    finished,           \* the parent was told of the end
    error,              \* "none"; "source": of the bridge; "overflow": its own
    working,            \* what the Worker is about to do
    taken,              \* results taken to the child since more was asked for
    \* ---- the child and its application
    childAsked,
    childUnsubscribed,
    cutters,            \* threads on their way from the child to the parent
    childNexts,
    childOutcome,
    childLate

operatorVars == <<queue, finished, error, working, taken>>
childVars == <<childAsked, childUnsubscribed, cutters, childNexts, childOutcome, childLate>>
adapterVars == <<operatorVars, childVars>>
deliveryVars == <<vars, adapterVars>>

\* An operator's Subscriber is not a SafeSubscriber.
DeliveryInit ==
    /\ Init /\ ~safe
    /\ queue = <<>> /\ finished = FALSE /\ error = "none"
    /\ working = "idle" /\ taken = 0
    /\ childAsked = 0 /\ childUnsubscribed = FALSE /\ cutters = {}
    /\ childNexts = 0 /\ childOutcome = "none" /\ childLate = 0

-----------------------------------------------------------------------------
(***************************************************************************)
(* The parent, called by the bridge.                                       *)
(***************************************************************************)

\* The operator's Subscriber asks for its first results before the bridge is
\* made; on which thread makes no difference yet.
Create ==
    /\ wiring = "new" /\ asked = 0
    /\ \E t \in Threads : Ask(t, Queue)
    /\ UNCHANGED adapterVars

Deaf == unsubscribed \/ finished

ParentOnNext ==
    /\ SendNext
    /\ IF Deaf THEN UNCHANGED <<queue, finished, error>>
       ELSE IF Len(queue) < Queue
       THEN queue' = Append(queue, nexts + 1) /\ UNCHANGED <<finished, error>>
       ELSE finished' = TRUE /\ error' = "overflow" /\ UNCHANGED queue
    /\ UNCHANGED <<working, taken, childVars>>

\* onError or onCompleted
ParentEnds ==
    /\ SendError \/ SendCompleted \/ \E p \in Procs : RequestCatch(p)
    /\ finished' = (finished \/ ~unsubscribed)
    /\ error' = IF ~Deaf /\ outcome' = "error" THEN "source" ELSE error
    /\ UNCHANGED <<queue, working, taken, childVars>>

\* Steps of the bridge that do not reach its Subscriber.
BridgeStep ==
    /\ \/ asked > 0 /\ Wire
       \/ \E p \in Procs : \/ RequestCheck(p) \/ SubscriptionRequest(p)
                           \/ InnerUnsubscribe(p) \/ SubscriptionUnsubscribe(p)
       \/ OnNext \/ OnError \/ OnComplete
       \/ Source
    /\ UNCHANGED adapterVars

-----------------------------------------------------------------------------
(***************************************************************************)
(* The Worker.                                                             *)
(***************************************************************************)
WorkerAt(place) == working = place /\ pc[Worker] = "idle" /\ Worker \notin cutters

\* mutant: one result too many leaves the queue before more is asked for
PollPastLimit ==
    /\ WorkerAt("idle") /\ taken <= Limit
    /\ ~childUnsubscribed /\ error = "none"
    /\ childNexts < childAsked
    /\ queue # <<>>
    /\ queue' = Tail(queue)
    /\ working' = "next"
    /\ UNCHANGED <<vars, finished, error, taken, childVars>>

\* It looks whether the child is still there, then for an error, which
\* overtakes the queue, then at the queue.
Poll ==
    /\ WorkerAt("idle") /\ taken < Limit
    /\ ~childUnsubscribed /\ error = "none"
    /\ childNexts < childAsked
    /\ queue # <<>>
    /\ queue' = Tail(queue)
    /\ working' = "next"
    /\ UNCHANGED <<vars, finished, error, taken, childVars>>

Terminate ==
    /\ WorkerAt("idle") /\ taken < Limit
    /\ ~childUnsubscribed /\ finished
    /\ \/ error # "none" /\ working' = "error" /\ queue' = <<>>
       \/ error = "none" /\ queue = <<>> /\ working' = "completed" /\ UNCHANGED queue
    /\ UNCHANGED <<vars, finished, error, taken, childVars>>

Clear ==
    /\ WorkerAt("idle")
    /\ childUnsubscribed /\ queue # <<>>
    /\ queue' = <<>>
    /\ UNCHANGED <<vars, finished, error, working, taken, childVars>>

ChildLate == childLate' = IF childUnsubscribed THEN childLate + 1 ELSE childLate

\* A Subscriber's unsubscribe, once: it passes it on to the parent next.
CutBy(t) ==
    /\ childUnsubscribed' = TRUE
    /\ cutters' = IF childUnsubscribed THEN cutters ELSE cutters \cup {t}

\* child.onNext
Emit ==
    /\ WorkerAt("next")
    /\ working' = "idle"
    /\ taken' = taken + 1
    /\ childNexts' = childNexts + 1
    /\ ChildLate
    /\ UNCHANGED <<vars, queue, finished, error, childAsked, childUnsubscribed,
                   cutters, childOutcome>>

\* ... which throws: the child's SafeSubscriber ends the sequence.
EmitThrows ==
    /\ WorkerAt("next")
    /\ working' = "over"
    /\ taken' = taken + 1
    /\ childNexts' = childNexts + 1
    /\ childOutcome' = "error"
    /\ ChildLate /\ CutBy(Worker)
    /\ UNCHANGED <<vars, queue, finished, error, childAsked>>

\* child.onError or child.onCompleted, after which its SafeSubscriber
\* unsubscribes.
EmitEnd ==
    /\ WorkerAt(working) /\ working \in {"error", "completed"}
    /\ working' = "over"
    /\ childOutcome' = working
    /\ ChildLate /\ CutBy(Worker)
    /\ UNCHANGED <<vars, queue, finished, error, taken, childAsked, childNexts>>

\* request(Limit), with the Worker's next steps in RxBridge.
Replenish ==
    /\ WorkerAt("idle") /\ taken = Limit
    /\ Ask(Worker, Limit)
    /\ taken' = 0
    /\ UNCHANGED <<queue, finished, error, working, childVars>>

-----------------------------------------------------------------------------
(***************************************************************************)
(* The application.                                                        *)
(***************************************************************************)
ChildRequest(n) ==
    /\ childAsked + n <= MaxLong
    /\ childAsked' = childAsked + n
    /\ UNCHANGED <<vars, operatorVars, childUnsubscribed, cutters, childNexts,
                   childOutcome, childLate>>

ChildUnsubscribe(t) ==
    /\ pc[t] = "idle" /\ ~childUnsubscribed
    /\ CutBy(t)
    /\ UNCHANGED <<vars, operatorVars, childAsked, childNexts, childOutcome, childLate>>

\* parent.unsubscribe()
Cut(t) ==
    /\ t \in cutters
    /\ Unsubscribe(t)
    /\ cutters' = cutters \ {t}
    /\ UNCHANGED <<operatorVars, childAsked, childUnsubscribed, childNexts,
                   childOutcome, childLate>>

-----------------------------------------------------------------------------
Parent == ParentOnNext \/ ParentEnds

Work == Poll \/ Terminate \/ Clear \/ Emit \/ EmitThrows \/ EmitEnd \/ Replenish

DeliveryNext ==
    \/ Create \/ BridgeStep \/ Parent \/ Work
    \/ \E n \in 1..MaxLong : ChildRequest(n)
    \/ \E t \in Threads \ {Worker} : ChildUnsubscribe(t)
    \/ \E t \in Threads : Cut(t)

DeliverySpec == DeliveryInit /\ [][DeliveryNext]_deliveryVars

\* The fairness of the bridge, and a scheduler that runs its Worker.
DeliveryFairness ==
    /\ WF_deliveryVars(Create)
    /\ WF_deliveryVars(asked > 0 /\ Wire /\ UNCHANGED adapterVars)
    /\ \A p \in Procs : WF_deliveryVars((BridgeStep \/ Parent) /\ Continue(p))
    /\ WF_deliveryVars((BridgeStep \/ Parent) /\ Callback)
    /\ WF_deliveryVars(demand > 0 /\ Source /\ UNCHANGED adapterVars)
    /\ WF_deliveryVars(Work)
    /\ \A t \in Threads : WF_deliveryVars(Cut(t))

FairDeliverySpec == DeliverySpec /\ DeliveryFairness

-----------------------------------------------------------------------------
DeliveryTypeOK ==
    /\ TypeOK
    /\ queue \in Seq(Nat) /\ finished \in BOOLEAN
    /\ error \in {"none", "source", "overflow"}
    /\ working \in {"idle", "next", "error", "completed", "over"}
    /\ taken \in 0..Limit
    /\ childAsked \in Nat /\ childUnsubscribed \in BOOLEAN
    /\ cutters \subseteq Threads
    /\ childNexts \in Nat /\ childLate \in Nat
    /\ childOutcome \in {"none", "error", "completed"}

\* The bridge never delivers more than the operator's queue has room for, with
\* the requests, the deliveries and the Worker on different threads: rx ends
\* a sequence whose source does with a MissingBackpressureException.
QueueNeverOverflows == error # "overflow"

\* The child sees the driver's results in the driver's order, without a gap:
\* what the driver has delivered is what the child has seen, what the Worker
\* holds, the queue, and the result on its way through the bridge.
InOrder ==
    ~childUnsubscribed /\ error = "none" =>
        LET held == childNexts + (IF working = "next" THEN 1 ELSE 0)
            crossing == IF pc[Driver] \in {"onNext", "sendNext"} THEN 1 ELSE 0
        IN  /\ emitted = held + Len(queue) + crossing
            /\ \A i \in 1..Len(queue) : queue[i] = held + i

\* However many hops there are, an unsubscribe of the child closes the
\* driver's subscription.
ChildUnsubscribeReachesDriver == childUnsubscribed ~> cancels = 1
=============================================================================
