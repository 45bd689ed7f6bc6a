----------------------- MODULE AdaptedDeliveryProofs -----------------------
(***************************************************************************)
(* The bridge behind observeOn, for every queue size, limit and set of     *)
(* threads.                                                                *)
(*                                                                         *)
(* Every step of the composition is a step of the bridge or leaves the     *)
(* bridge alone, so everything proved of the bridge holds here too.  That  *)
(* the queue never overflows follows from the bridge's Backpressure and    *)
(* from Credit: the operator has asked for its queue's size and for what   *)
(* has left the queue since, less what it still counts.                    *)
(*                                                                         *)
(* To the application the composition is an Observable of the same         *)
(* contract, except that it starts before it is asked: every step is one   *)
(* ObservableContract allows, or none that the application can see.        *)
(***************************************************************************)
EXTENDS AdaptedDelivery, DemandProofs, SequenceTheorems

Held == childNexts + (IF working = "next" THEN 1 ELSE 0)

\* What the operator has asked of the bridge.
Credit ==
    \/ asked = 0 /\ childNexts = 0 /\ taken = 0 /\ working # "next" /\ wiring = "new"
    \/ asked > 0 /\ asked = Queue + childNexts - taken

\* The queue holds no more than was delivered and has not left it.
Queued == Len(queue) + Held <= nexts

\* Unsubscribing goes from the child to the parent, and only a terminal event
\* finishes the parent.
Order ==
    /\ ~safe
    /\ cutters # {} \/ unsubscribed => childUnsubscribed
    /\ finished => terminals > 0 \/ unsubscribed
    /\ working = "next" => taken < Limit

\* As long as nothing went wrong the queue is what is missing.
Sequential ==
    ~childUnsubscribed /\ error = "none" =>
        /\ nexts = Held + Len(queue)
        /\ \A i \in 1..Len(queue) : queue[i] = Held + i

AInv ==
    /\ DeliveryTypeOK /\ QueueNeverOverflows
    /\ Credit /\ Queued /\ Order /\ Sequential

-----------------------------------------------------------------------------
\* The bridge does not notice what surrounds it.
LEMMA StepIsBridgeStep == TypeOK /\ [DeliveryNext]_deliveryVars => [Next]_vars
<1> SUFFICES ASSUME TypeOK, [DeliveryNext]_deliveryVars PROVE [Next]_vars
  OBVIOUS
<1> USE AdapterAssumption
<1>1. ASSUME Create PROVE Next
  <2>1. PICK t \in Threads : Ask(t, Queue)
    BY <1>1 DEF Create
  <2>2. Queue \in 0..MaxAsk
    BY <1>1, <2>1, BridgeAssumption DEF Create, Ask
  <2> QED BY <2>1, <2>2 DEF Next
<1>2. ASSUME BridgeStep PROVE Next
  BY <1>2 DEF BridgeStep, Next, Continue, Callback
<1>3. ASSUME Parent PROVE Next
  BY <1>3 DEF Parent, ParentOnNext, ParentEnds, Next, Continue, Callback
<1>4. ASSUME Replenish PROVE Next
  <2>1. Ask(Worker, Limit)
    BY <1>4 DEF Replenish
  <2>2. Limit \in 0..MaxAsk
    BY <2>1, BridgeAssumption DEF Ask, TypeOK
  <2> QED BY <2>1, <2>2 DEF Next
<1>5. ASSUME NEW t \in Threads, Cut(t) PROVE Next
  BY <1>5 DEF Cut, Next
<1>6. ASSUME Work, ~Replenish PROVE UNCHANGED vars
  BY <1>6 DEF Work, Poll, Terminate, Clear, Emit, EmitThrows, EmitEnd
<1>7. ASSUME NEW n \in 1..MaxLong, ChildRequest(n) PROVE UNCHANGED vars
  BY <1>7 DEF ChildRequest
<1>8. ASSUME NEW t \in Threads, ChildUnsubscribe(t) PROVE UNCHANGED vars
  BY <1>8 DEF ChildUnsubscribe
<1> QED
  BY <1>1, <1>2, <1>3, <1>4, <1>5, <1>6, <1>7, <1>8 DEF DeliveryNext, deliveryVars

\* Every run of the composition is one of the bridge.
THEOREM AdaptedIsBridge == DeliverySpec => Spec
<1>1. DeliveryInit => Init
  BY DEF DeliveryInit
<1>2. Init => IInv
  BY InitIInv
<1>3. IInv => TypeOK
  BY DEF IInv
<1>4. IInv /\ [DeliveryNext]_deliveryVars => IInv'
  BY <1>3, StepIsBridgeStep, NextIInv
<1> QED BY <1>1, <1>2, <1>3, <1>4, StepIsBridgeStep, PTL DEF DeliverySpec, Spec

\* What a step of the bridge that does not reach the parent leaves alone.
LEMMA BridgeStepKeeps ==
    ASSUME TypeOK, DInv, BridgeStep
    PROVE  /\ UNCHANGED <<safe, unsubscribed, nexts, terminals, asked>>
           /\ asked = 0 => wiring' = wiring
<1>1. CASE asked > 0 /\ OnSubscribe
  BY <1>1, BridgeAssumption DEF OnSubscribe, rxVars, seenVars
<1>2. CASE asked > 0 /\ AddSubscription
  BY <1>2, BridgeAssumption DEF AddSubscription, seenVars
<1>3. CASE asked > 0 /\ SetProducer
  <2>1. pending # NotSet
    BY <1>3, BridgeAssumption DEF SetProducer, DInv
  <2> QED BY <1>3, <2>1, BridgeAssumption DEF SetProducer, rxVars, seenVars
<1>4. CASE \E p \in Procs : RequestCheck(p) \/ SubscriptionRequest(p)
                            \/ InnerUnsubscribe(p) \/ SubscriptionUnsubscribe(p)
  BY <1>4 DEF RequestCheck, SubscriptionRequest, InnerUnsubscribe, bridgeVars,
     SubscriptionUnsubscribe, rxVars, seenVars
<1>5. CASE OnNext \/ OnError \/ OnComplete
  BY <1>5 DEF OnNext, OnError, OnComplete, Guard, bridgeVars, rxVars, seenVars
<1>6. CASE Source
  BY <1>6 DEF Source, SourceNext, SourceComplete, SourceError, bridgeVars, rxVars, seenVars
<1> QED BY <1>1, <1>2, <1>3, <1>4, <1>5, <1>6 DEF BridgeStep, Wire

LEMMA InitAInv == DeliveryInit => AInv
<1> SUFFICES ASSUME DeliveryInit PROVE AInv
  OBVIOUS
<1> USE AdapterAssumption
<1>1. TypeOK
  BY InitIInv DEF DeliveryInit, IInv
<1>2. queue = <<>> /\ Len(queue) = 0 /\ queue \in Seq(Nat)
  BY DEF DeliveryInit
<1>3. DeliveryTypeOK
  <2>1. taken \in 0..Limit /\ cutters \subseteq Threads
    BY DEF DeliveryInit
  <2> QED BY <1>1, <1>2, <2>1 DEF DeliveryInit, DeliveryTypeOK
<1> QED
  BY <1>2, <1>3 DEF DeliveryInit, Init, AInv, QueueNeverOverflows, Credit, Queued, Held,
     Order, Sequential

\* Steps that leave the operator and the child alone.
LEMMA AdapterStays ==
    ASSUME AInv, TypeOK', UNCHANGED adapterVars,
           UNCHANGED <<safe, unsubscribed, nexts, terminals, asked>>,
           asked = 0 => wiring' = wiring
    PROVE  AInv'
<1>1. UNCHANGED <<queue, finished, error, working, taken, childAsked, childUnsubscribed,
                  cutters, childNexts, childOutcome, childLate>>
  BY DEF adapterVars, operatorVars, childVars
<1>2. DeliveryTypeOK' /\ QueueNeverOverflows'
  BY <1>1 DEF AInv, DeliveryTypeOK, QueueNeverOverflows
<1>3. Held' = Held
  BY <1>1 DEF Held
<1>4. Credit' /\ Queued' /\ Order' /\ Sequential'
  BY <1>1, <1>3 DEF AInv, Credit, Queued, Order, Sequential
<1> QED BY <1>2, <1>4 DEF AInv

\* Every step preserves the invariant.
LEMMA NextAInv ==
    IInv /\ IInv' /\ DInv /\ Backpressure' /\ AInv /\ [DeliveryNext]_deliveryVars => AInv'
<1> SUFFICES ASSUME IInv, IInv', DInv, Backpressure', AInv, [DeliveryNext]_deliveryVars
             PROVE  AInv'
  OBVIOUS
<1> USE AdapterAssumption
<1>0. /\ TypeOK /\ TypeOK' /\ DeliveryTypeOK /\ Credit /\ Queued /\ Order /\ Sequential
      /\ error # "overflow"
  BY DEF IInv, AInv, QueueNeverOverflows
<1>t. /\ queue \in Seq(Nat) /\ Len(queue) \in Nat /\ childNexts \in Nat /\ taken \in 0..Limit
      /\ nexts \in Nat /\ asked \in Nat /\ nexts' \in Nat /\ asked' \in Nat
  BY <1>0 DEF DeliveryTypeOK, TypeOK
<1>1. CASE Create
  <2>1. PICK t \in Threads : Ask(t, Queue)
    BY <1>1 DEF Create
  <2>2. /\ asked' = Queue /\ asked = 0 /\ UNCHANGED <<safe, unsubscribed, nexts, terminals>>
    BY <1>1, <2>1 DEF Create, Ask, seenVars
  <2>3. UNCHANGED <<queue, finished, error, working, taken, childAsked, childUnsubscribed,
                    cutters, childNexts, childOutcome, childLate>>
    BY <1>1 DEF Create, adapterVars, operatorVars, childVars
  <2>4. Held' = Held
    BY <2>3 DEF Held
  <2>5. Credit'
    BY <1>0, <1>t, <2>2, <2>3 DEF Credit
  <2>6. Queued' /\ Order' /\ Sequential'
    BY <1>0, <2>2, <2>3, <2>4 DEF Queued, Order, Sequential
  <2>7. DeliveryTypeOK' /\ QueueNeverOverflows'
    BY <1>0, <2>3 DEF DeliveryTypeOK, QueueNeverOverflows
  <2> QED BY <2>5, <2>6, <2>7 DEF AInv
<1>2. CASE BridgeStep
  BY <1>0, <1>2, BridgeStepKeeps, AdapterStays DEF BridgeStep
<1>3. CASE ParentOnNext
  <2>1. /\ nexts' = nexts + 1 /\ pc[Driver] = "sendNext"
        /\ UNCHANGED <<safe, unsubscribed, terminals, asked, wiring>>
    BY <1>3 DEF ParentOnNext, SendNext, bridgeVars, rxVars
  <2>2. /\ UNCHANGED <<working, taken, childAsked, childUnsubscribed,
                       cutters, childNexts, childOutcome, childLate>>
    BY <1>3 DEF ParentOnNext, childVars
  <2>3. Held' = Held /\ Held \in Nat /\ Credit'
    BY <1>0, <1>t, <2>1, <2>2 DEF Held, Credit
  <2>4. nexts + 1 <= asked
    BY <1>t, <2>1 DEF Backpressure
  <2>5. CASE Deaf
    <3>1. UNCHANGED <<queue, finished, error>>
      BY <1>3, <2>5 DEF ParentOnNext
    <3>2. childUnsubscribed
      <4>1. terminals = 0
        BY <2>1 DEF IInv, Stages, Sending
      <4> QED BY <1>0, <2>5, <4>1 DEF Deaf, Order
    <3>3. Queued' /\ Order' /\ Sequential'
      BY <1>0, <1>t, <2>1, <2>2, <2>3, <3>1, <3>2 DEF Queued, Order, Sequential
    <3>4. DeliveryTypeOK' /\ QueueNeverOverflows'
      BY <1>0, <2>2, <3>1 DEF DeliveryTypeOK, QueueNeverOverflows
    <3> QED BY <2>3, <3>3, <3>4 DEF AInv
  <2>6. CASE ~Deaf
    <3>1. Len(queue) < Queue
      <4>1. asked = Queue + childNexts - taken
        BY <1>0, <1>t, <2>4 DEF Credit
      <4>2. Len(queue) + childNexts <= nexts
        BY <1>0, <1>t DEF Queued, Held
      <4> QED BY <1>t, <2>4, <4>1, <4>2
    <3>2. queue' = Append(queue, nexts + 1) /\ UNCHANGED <<finished, error>>
      BY <1>3, <2>6, <3>1 DEF ParentOnNext
    <3>3. /\ queue' \in Seq(Nat) /\ Len(queue') = Len(queue) + 1
          /\ \A i \in 1..Len(queue) : queue'[i] = queue[i]
          /\ queue'[Len(queue) + 1] = nexts + 1
      BY <1>t, <3>2, AppendProperties
    <3>4. Queued' /\ Order'
      BY <1>0, <1>t, <2>1, <2>2, <2>3, <3>2, <3>3 DEF Queued, Order
    <3>5. Sequential'
      <4> SUFFICES ASSUME ~childUnsubscribed, error = "none"
                   PROVE  /\ nexts' = Held' + Len(queue')
                          /\ \A i \in 1..Len(queue') : queue'[i] = Held' + i
        BY <2>2, <3>2 DEF Sequential
      <4>1. nexts = Held + Len(queue) /\ \A i \in 1..Len(queue) : queue[i] = Held + i
        BY <1>0 DEF Sequential
      <4>2. nexts' = Held' + Len(queue')
        BY <1>t, <2>1, <2>3, <3>3, <4>1
      <4>3. ASSUME NEW i \in 1..Len(queue') PROVE queue'[i] = Held' + i
        <5>1. CASE i = Len(queue) + 1
          BY <1>t, <2>3, <3>3, <4>1, <5>1
        <5>2. CASE i # Len(queue) + 1
          <6>1. i \in 1..Len(queue)
            BY <1>t, <3>3, <5>2
          <6> QED BY <2>3, <3>3, <4>1, <6>1
        <5> QED BY <5>1, <5>2
      <4> QED BY <4>2, <4>3
    <3>6. DeliveryTypeOK' /\ QueueNeverOverflows'
      BY <1>0, <2>2, <3>2, <3>3 DEF DeliveryTypeOK, QueueNeverOverflows
    <3> QED BY <2>3, <3>4, <3>5, <3>6 DEF AInv
  <2> QED BY <2>5, <2>6
<1>4. CASE ParentEnds
  <2>1. PICK p \in Procs, kind \in {"error", "completed"} : Terminal(p, kind)
    BY <1>4 DEF ParentEnds, SendError, SendCompleted, RequestCatch, Procs
  <2>2. /\ terminals' = terminals + 1
        /\ UNCHANGED <<safe, unsubscribed, nexts, asked, wiring>>
    BY <1>0, <2>1 DEF Terminal, Order, bridgeVars
  <2>3. UNCHANGED <<queue, working, taken, childAsked, childUnsubscribed,
                    cutters, childNexts, childOutcome, childLate>>
    BY <1>4 DEF ParentEnds, childVars
  <2>4. finished' \in BOOLEAN /\ error' \in {"source", error}
    BY <1>4 DEF ParentEnds
  <2>5. terminals' > 0
    BY <1>0, <2>2 DEF TypeOK
  <2>6. Held' = Held
    BY <2>3 DEF Held
  <2>7. Credit' /\ Queued' /\ Order' /\ Sequential'
    BY <1>0, <2>2, <2>3, <2>4, <2>5, <2>6 DEF Credit, Queued, Order, Sequential
  <2>8. DeliveryTypeOK' /\ QueueNeverOverflows'
    BY <1>0, <2>3, <2>4 DEF DeliveryTypeOK, QueueNeverOverflows
  <2> QED BY <2>7, <2>8 DEF AInv
<1>5. CASE Poll
  <2>1. /\ UNCHANGED <<safe, unsubscribed, nexts, terminals, asked, wiring>>
        /\ UNCHANGED <<finished, error, taken, childAsked, childUnsubscribed,
                       cutters, childNexts, childOutcome, childLate>>
    BY <1>5 DEF Poll, vars, bridgeVars, rxVars, seenVars, childVars
  <2>2. /\ working = "idle" /\ working' = "next" /\ taken < Limit
        /\ queue # <<>> /\ queue' = Tail(queue)
    BY <1>5 DEF Poll, WorkerAt
  <2>3. /\ queue' \in Seq(Nat) /\ Len(queue') = Len(queue) - 1
        /\ \A i \in 1..Len(queue') : queue'[i] = queue[i + 1]
    BY <1>t, <2>2, HeadTailProperties
  <2>4. Held = childNexts /\ Held' = childNexts + 1 /\ Len(queue') \in Nat
    <3>1. Len(queue') \in Nat
      BY <2>3, LenProperties
    <3> QED BY <1>t, <2>1, <2>2, <3>1 DEF Held
  <2>5. Credit'
    <3>1. asked > 0 /\ asked = Queue + childNexts - taken
      <4>1. Len(queue) > 0
        BY <1>t, <2>2, EmptySeq
      <4>2. nexts > 0
        BY <1>0, <1>t, <2>4, <4>1 DEF Queued
      <4>3. asked > 0
        BY <1>t, <2>1, <4>2 DEF Backpressure
      <4> QED BY <1>0, <1>t, <4>3 DEF Credit
    <3> QED BY <2>1, <3>1 DEF Credit
  <2>6. Queued' /\ Order'
    BY <1>0, <1>t, <2>1, <2>2, <2>3, <2>4 DEF Queued, Order
  <2>7. Sequential'
    <3> SUFFICES ASSUME ~childUnsubscribed, error = "none"
                 PROVE  /\ nexts' = Held' + Len(queue')
                        /\ \A i \in 1..Len(queue') : queue'[i] = Held' + i
      BY <2>1 DEF Sequential
    <3>1. nexts = Held + Len(queue) /\ \A i \in 1..Len(queue) : queue[i] = Held + i
      BY <1>0 DEF Sequential
    <3>2. nexts' = Held' + Len(queue')
      BY <1>t, <2>1, <2>3, <2>4, <3>1
    <3>3. ASSUME NEW i \in 1..Len(queue') PROVE queue'[i] = Held' + i
      <4>1. i + 1 \in 1..Len(queue)
        BY <1>t, <2>3, <2>4
      <4>2. queue'[i] = queue[i + 1]
        BY <2>3
      <4>3. queue[i + 1] = Held + (i + 1)
        BY <3>1, <4>1
      <4>4. i \in Nat /\ childNexts \in Nat
        BY <1>t
      <4> QED BY <2>4, <4>2, <4>3, <4>4
    <3> QED BY <3>2, <3>3
  <2>8. DeliveryTypeOK' /\ QueueNeverOverflows'
    BY <1>0, <2>1, <2>2, <2>3 DEF DeliveryTypeOK, QueueNeverOverflows
  <2> QED BY <2>5, <2>6, <2>7, <2>8 DEF AInv
<1>6. CASE Terminate
  <2>1. /\ UNCHANGED <<safe, unsubscribed, nexts, terminals, asked, wiring>>
        /\ UNCHANGED <<finished, error, taken, childAsked, childUnsubscribed,
                       cutters, childNexts, childOutcome, childLate>>
    BY <1>6 DEF Terminate, vars, bridgeVars, rxVars, seenVars, childVars
  <2>2. /\ working = "idle" /\ working' \in {"error", "completed"}
        /\ queue' = queue \/ (queue' = <<>> /\ error # "none")
    BY <1>6 DEF Terminate, WorkerAt
  <2>3. queue' \in Seq(Nat) /\ Len(queue') <= Len(queue) /\ Len(queue') \in Nat
    <3>1. CASE queue' = queue
      BY <1>t, <3>1
    <3>2. CASE queue' = <<>>
      <4>1. queue' \in Seq(Nat) /\ Len(queue') = 0
        BY <3>2
      <4> QED BY <1>t, <4>1
    <3> QED BY <2>2, <3>1, <3>2
  <2>4. Held' = Held
    BY <2>1, <2>2 DEF Held
  <2>5. Credit' /\ Order'
    BY <1>0, <2>1, <2>2 DEF Credit, Order
  <2>6. Queued'
    BY <1>0, <1>t, <2>1, <2>3, <2>4 DEF Queued, Held
  <2>7. Sequential'
    BY <1>0, <2>1, <2>2, <2>4 DEF Sequential
  <2>8. DeliveryTypeOK' /\ QueueNeverOverflows'
    BY <1>0, <2>1, <2>2, <2>3 DEF DeliveryTypeOK, QueueNeverOverflows
  <2> QED BY <2>5, <2>6, <2>7, <2>8 DEF AInv
<1>7. CASE Clear
  <2>1. /\ UNCHANGED <<safe, unsubscribed, nexts, terminals, asked, wiring>>
        /\ UNCHANGED <<finished, error, working, taken, childAsked, childUnsubscribed,
                       cutters, childNexts, childOutcome, childLate>>
    BY <1>7 DEF Clear, vars, bridgeVars, rxVars, seenVars, childVars
  <2>2. childUnsubscribed /\ queue' = <<>>
    BY <1>7 DEF Clear
  <2>3. queue' \in Seq(Nat) /\ Len(queue') = 0
    BY <2>2
  <2>4. Held' = Held /\ Held \in Nat
    BY <1>t, <2>1 DEF Held
  <2>5. Credit' /\ Order' /\ Sequential'
    BY <1>0, <2>1, <2>2 DEF Credit, Order, Sequential
  <2>6. Queued'
    BY <1>0, <1>t, <2>1, <2>3, <2>4 DEF Queued
  <2>7. DeliveryTypeOK' /\ QueueNeverOverflows'
    BY <1>0, <2>1, <2>3 DEF DeliveryTypeOK, QueueNeverOverflows
  <2> QED BY <2>5, <2>6, <2>7 DEF AInv
<1>8. CASE Emit \/ EmitThrows
  <2>1. /\ UNCHANGED <<safe, unsubscribed, nexts, terminals, asked, wiring>>
        /\ UNCHANGED <<queue, finished, error, childAsked>>
    BY <1>8 DEF Emit, EmitThrows, vars, bridgeVars, rxVars, seenVars
  <2>2. /\ working = "next" /\ working' \in {"idle", "over"}
        /\ taken' = taken + 1 /\ childNexts' = childNexts + 1
        /\ childOutcome' \in {childOutcome, "error"}
        /\ childLate' \in {childLate, childLate + 1}
    BY <1>8 DEF Emit, EmitThrows, WorkerAt, ChildLate
  <2>3. /\ childUnsubscribed' \in BOOLEAN
        /\ childUnsubscribed => childUnsubscribed'
        /\ cutters' = cutters \/ (cutters' \subseteq Threads /\ childUnsubscribed')
    BY <1>0, <1>8 DEF Emit, EmitThrows, CutBy, DeliveryTypeOK
  <2>4. Held = childNexts + 1 /\ Held' = childNexts + 1 /\ taken < Limit
    BY <1>0, <1>t, <2>2 DEF Held, Order
  <2>5. Credit'
    BY <1>0, <1>t, <2>1, <2>2 DEF Credit
  <2>6. Queued' /\ Order' /\ Sequential'
    <3>1. Queued' /\ Sequential'
      BY <1>0, <1>t, <2>1, <2>3, <2>4 DEF Queued, Sequential
    <3>2. Order'
      BY <1>0, <2>1, <2>2, <2>3 DEF Order
    <3> QED BY <3>1, <3>2
  <2>7. DeliveryTypeOK' /\ QueueNeverOverflows'
    <3>1. taken' \in 0..Limit /\ childNexts' \in Nat
      BY <1>t, <2>2, <2>4
    <3>2. childLate' \in Nat
      BY <1>0, <2>2 DEF DeliveryTypeOK
    <3>3. cutters' \subseteq Threads
      BY <1>0, <2>3 DEF DeliveryTypeOK
    <3>4. childOutcome' \in {"none", "error", "completed"}
      BY <1>0, <2>2 DEF DeliveryTypeOK
    <3> QED BY <1>0, <2>1, <2>2, <2>3, <3>1, <3>2, <3>3, <3>4
             DEF DeliveryTypeOK, QueueNeverOverflows
  <2> QED BY <2>5, <2>6, <2>7 DEF AInv
<1>9. CASE EmitEnd
  <2>1. /\ UNCHANGED <<safe, unsubscribed, nexts, terminals, asked, wiring>>
        /\ UNCHANGED <<queue, finished, error, taken, childAsked, childNexts>>
    BY <1>9 DEF EmitEnd, vars, bridgeVars, rxVars, seenVars
  <2>2. /\ working \in {"error", "completed"} /\ working' = "over"
        /\ childOutcome' = working
        /\ childLate' \in {childLate, childLate + 1}
        /\ childUnsubscribed' /\ cutters' \in {cutters, cutters \cup {Worker}}
    BY <1>9 DEF EmitEnd, ChildLate, CutBy
  <2>3. Held' = Held
    BY <2>1, <2>2 DEF Held
  <2>4. Credit' /\ Queued' /\ Order' /\ Sequential'
    BY <1>0, <2>1, <2>2, <2>3 DEF Credit, Queued, Order, Sequential
  <2>5. DeliveryTypeOK' /\ QueueNeverOverflows'
    BY <1>0, <2>1, <2>2 DEF DeliveryTypeOK, QueueNeverOverflows
  <2> QED BY <2>4, <2>5 DEF AInv
<1>10. CASE Replenish
  <2>1. /\ asked' = asked + Limit
        /\ UNCHANGED <<safe, unsubscribed, nexts, terminals>>
    BY <1>10 DEF Replenish, Ask, seenVars
  <2>2. /\ taken = Limit /\ taken' = 0
        /\ UNCHANGED <<queue, finished, error, working, childAsked, childUnsubscribed,
                       cutters, childNexts, childOutcome, childLate>>
    BY <1>10 DEF Replenish, childVars
  <2>3. Held' = Held
    BY <2>2 DEF Held
  <2>4. Credit'
    BY <1>0, <1>t, <2>1, <2>2 DEF Credit
  <2>5. Queued' /\ Order' /\ Sequential'
    BY <1>0, <2>1, <2>2, <2>3 DEF Queued, Order, Sequential
  <2>6. DeliveryTypeOK' /\ QueueNeverOverflows'
    BY <1>0, <2>2 DEF DeliveryTypeOK, QueueNeverOverflows
  <2> QED BY <2>4, <2>5, <2>6 DEF AInv
<1>11. CASE \E n \in 1..MaxLong : ChildRequest(n)
  <2>1. PICK n \in 1..MaxLong : ChildRequest(n)
    BY <1>11
  <2>2. /\ UNCHANGED <<safe, unsubscribed, nexts, terminals, asked, wiring>>
        /\ UNCHANGED <<queue, finished, error, working, taken, childUnsubscribed, cutters,
                       childNexts, childOutcome, childLate>>
        /\ childAsked' = childAsked + n
    BY <2>1 DEF ChildRequest, vars, bridgeVars, rxVars, seenVars, operatorVars
  <2>3. Held' = Held
    BY <2>2 DEF Held
  <2>4. Credit' /\ Queued' /\ Order' /\ Sequential'
    BY <1>0, <2>2, <2>3 DEF Credit, Queued, Order, Sequential
  <2>5. DeliveryTypeOK' /\ QueueNeverOverflows'
    BY <1>0, <2>2 DEF DeliveryTypeOK, QueueNeverOverflows
  <2> QED BY <2>4, <2>5 DEF AInv
<1>12. CASE \E t \in Threads : ChildUnsubscribe(t) \/ Cut(t)
  <2>1. PICK t \in Threads : ChildUnsubscribe(t) \/ Cut(t)
    BY <1>12
  <2>2. /\ UNCHANGED <<safe, nexts, terminals, asked, wiring>>
        /\ UNCHANGED <<queue, finished, error, working, taken, childAsked,
                       childNexts, childOutcome, childLate>>
    BY <2>1 DEF ChildUnsubscribe, Cut, Unsubscribe, vars, bridgeVars, rxVars, seenVars,
       operatorVars
  <2>3. childUnsubscribed' /\ cutters' \subseteq cutters \cup {t}
    BY <1>0, <2>1 DEF ChildUnsubscribe, Cut, CutBy, Order
  <2>4. Held' = Held
    BY <2>2 DEF Held
  <2>5. finished => terminals > 0 \/ unsubscribed'
    BY <1>0, <2>1 DEF Order, ChildUnsubscribe, Cut, Unsubscribe, UnsubscribeBy, vars, rxVars
  <2>6. Credit' /\ Queued' /\ Order' /\ Sequential'
    BY <1>0, <2>2, <2>3, <2>4, <2>5 DEF Credit, Queued, Order, Sequential
  <2>7. childUnsubscribed' \in BOOLEAN
    BY <1>0, <2>1 DEF ChildUnsubscribe, Cut, CutBy, DeliveryTypeOK
  <2>8. DeliveryTypeOK' /\ QueueNeverOverflows'
    BY <1>0, <2>2, <2>3, <2>7 DEF DeliveryTypeOK, QueueNeverOverflows
  <2> QED BY <2>6, <2>8 DEF AInv
<1>13. CASE UNCHANGED deliveryVars
  BY <1>0, <1>13, AdapterStays DEF deliveryVars, vars, bridgeVars, rxVars, seenVars
<1> QED
  BY <1>1, <1>2, <1>3, <1>4, <1>5, <1>6, <1>7, <1>8, <1>9, <1>10, <1>11, <1>12, <1>13
     DEF DeliveryNext, Parent, Work

\* Both invariants, the bridge's and the composition's, hold in every run.
THEOREM AdaptedInvariance == DeliverySpec => [](IInv /\ AInv)
<1>1. DeliveryInit => IInv /\ DInv /\ AInv
  BY InitIInv, InitDInv, InitAInv DEF DeliveryInit
<1>2. DeliverySpec => []IInv
  BY AdaptedIsBridge, Invariance, PTL
<1>3. DeliverySpec => []DInv
  <2>1. IInv => TypeOK
    BY DEF IInv
  <2>2. IInv /\ IInv' /\ DInv /\ [DeliveryNext]_deliveryVars => DInv'
    BY <2>1, StepIsBridgeStep, NextDInv
  <2> QED BY <1>1, <1>2, <2>2, PTL DEF DeliverySpec
<1>4. DeliverySpec => []Backpressure
  BY AdaptedIsBridge, OnlyWhatWasAsked, PTL
<1> QED BY <1>1, <1>2, <1>3, <1>4, NextAInv, PTL DEF DeliverySpec

\* The operator's queue never overflows, whatever its size and its limit.
THEOREM NoOverflow == DeliverySpec => []QueueNeverOverflows
<1>1. AInv => QueueNeverOverflows
  BY DEF AInv
<1> QED BY <1>1, AdaptedInvariance, PTL

\* The child sees the driver's results in order and without a gap.
THEOREM NothingLost == DeliverySpec => []InOrder
<1>1. IInv /\ AInv => InOrder
  <2> SUFFICES ASSUME IInv, AInv, ~childUnsubscribed, error = "none"
               PROVE  LET held == childNexts + (IF working = "next" THEN 1 ELSE 0)
                          crossing == IF pc[Driver] \in {"onNext", "sendNext"} THEN 1 ELSE 0
                      IN  /\ emitted = held + Len(queue) + crossing
                          /\ \A i \in 1..Len(queue) : queue[i] = held + i
    BY DEF InOrder
  <2>1. ~unsubscribed
    BY DEF AInv, Order
  <2>2. emitted = IF pc[Driver] \in {"onNext", "sendNext"} THEN nexts + 1 ELSE nexts
    BY <2>1 DEF IInv, Counted
  <2>3. nexts = Held + Len(queue) /\ \A i \in 1..Len(queue) : queue[i] = Held + i
    BY DEF AInv, Sequential
  <2>4. Len(queue) \in Nat /\ childNexts \in Nat /\ nexts \in Nat
    BY DEF AInv, DeliveryTypeOK, TypeOK
  <2>5. CASE pc[Driver] \in {"onNext", "sendNext"}
    BY <2>2, <2>3, <2>4, <2>5 DEF Held
  <2>6. CASE pc[Driver] \notin {"onNext", "sendNext"}
    BY <2>2, <2>3, <2>4, <2>6 DEF Held
  <2> QED BY <2>5, <2>6
<1> QED BY <1>1, AdaptedInvariance, PTL

\* Every variable of the composition keeps its type.
THEOREM AdaptedTypes == DeliverySpec => []DeliveryTypeOK
<1>1. AInv => DeliveryTypeOK
  BY DEF AInv
<1> QED BY <1>1, AdaptedInvariance, PTL

-----------------------------------------------------------------------------
(***************************************************************************)
(* The contract behind the adapter, step by step.                          *)
(***************************************************************************)

\* Behind the adapter the application has the Observable it had without: the
\* same sequences, the same effect of an unsubscribe, the same promise of an
\* end.  But the operation starts although nothing was asked for.
ChildContract == INSTANCE ObservableContract WITH
                     Prefetches <- TRUE,
                     Results    <- 0..MaxResults,
                     asked      <- childAsked,
                     cancelled  <- childUnsubscribed,
                     started    <- Sent,
                     nexts      <- childNexts,
                     outcome    <- childOutcome,
                     late       <- childLate

childContractVars == <<childAsked, childUnsubscribed, Sent, total, childNexts,
                       childOutcome, childLate>>

\* What the Worker is about to do is still allowed when it does it; and the
\* queue is only taken for the whole sequence when the bridge has ended it.
ChildInv ==
    /\ childOutcome # "none" <=> working = "over"
    /\ working = "next" => childNexts < childAsked
    /\ \/ childLate = 0
       \/ childLate = 1 /\ childUnsubscribed /\ working \in {"idle", "over"}
    /\ finished /\ error = "none" /\ ~childUnsubscribed => outcome = "completed"
    /\ working \in {"error", "completed", "over"} => op # "none"
    /\ working = "completed" => Sent
    /\ working = "completed" => childNexts = total

LEMMA InitChildInv == DeliveryInit => ChildInv
  BY DEF DeliveryInit, ChildInv

\* The operation is started once, by a step of the bridge.
OneStart ==
    /\ total' = total
    /\ op' = "none" => op = "none"
    /\ Sent => Sent'
    /\ Sent' => Sent \/ op = "none"

LEMMA OpStays == [Next]_vars => OneStart
<1> SUFFICES ASSUME [Next]_vars PROVE OneStart
  OBVIOUS
<1> USE DEF OneStart, Sent
<1>1. CASE Wire \/ Source \/ UNCHANGED vars
  BY <1>1 DEF Wire, OnSubscribe, AddSubscription, SetProducer, Source, SourceNext,
              SourceComplete, SourceError, Delivering, vars, driverVars
<1>2. ASSUME NEW t \in Threads, (\E n \in 0..MaxAsk : Ask(t, n)) \/ Unsubscribe(t)
      PROVE  UNCHANGED <<total, op>>
  BY <1>2 DEF Ask, Unsubscribe, driverVars
<1>3. ASSUME NEW p \in Procs, Continue(p)
      PROVE  OneStart
  BY <1>3 DEF Continue, RequestCheck, SubscriptionRequest, SourceRequest, RequestCatch,
              Terminal, InnerUnsubscribe, SubscriptionUnsubscribe, driverVars
<1>4. CASE Callback
  BY <1>4 DEF Callback, OnNext, OnError, OnComplete, Guard, SendNext, SendNextThrows,
              SendError, SendCompleted, Terminal, driverVars
<1> QED BY <1>1, <1>2, <1>3, <1>4 DEF Next

\* Steps the child does not notice keep its invariant, if those of the parent
\* finish only with the sequence; the one thing they may do for the contract
\* is to start the operation.
LEMMA Unnoticed ==
    ASSUME ChildInv, WithinTotal, [Next]_vars, UNCHANGED <<childVars, working>>,
           finished' /\ error' = "none" /\ ~childUnsubscribed => outcome' = "completed"
    PROVE  ChildInv' /\ (ChildContract!Next \/ UNCHANGED childContractVars)
<1>1. OneStart
  BY OpStays
<1>2. UNCHANGED <<childAsked, childUnsubscribed, childNexts, childOutcome, childLate, working>>
  BY DEF childVars
<1>3. ChildInv'
  BY <1>1, <1>2 DEF ChildInv, OneStart
<1>4. CASE ~Sent /\ Sent'
  <2>1. childOutcome = "none"
    BY <1>1, <1>4 DEF ChildInv, OneStart
  <2>2. ChildContract!Start
    BY <1>1, <1>2, <1>4, <2>1 DEF ChildContract!Start, ChildContract!Wanted, WithinTotal,
                                  OneStart
  <2> QED BY <1>3, <2>2 DEF ChildContract!Next
<1>5. CASE ~(~Sent /\ Sent')
  <2>1. Sent' = Sent /\ total' = total
    BY <1>1, <1>5 DEF OneStart, Sent
  <2> QED BY <1>1, <1>2, <1>3, <2>1 DEF childContractVars
<1> QED BY <1>3, <1>4, <1>5

LEMMA StepChild ==
    ASSUME IInv, DInv, WithinTotal, AInv, ChildInv, [DeliveryNext]_deliveryVars
    PROVE  ChildInv' /\ (ChildContract!Next \/ UNCHANGED childContractVars)
<1> DEFINE Goal == ChildInv' /\ (ChildContract!Next \/ UNCHANGED childContractVars)
<1>0. /\ TypeOK /\ Order /\ Queued /\ Sequential /\ [Next]_vars
      /\ childNexts \in Nat /\ childAsked \in Nat /\ total \in Nat /\ nexts \in Nat
      /\ emitted \in Nat /\ queue \in Seq(Nat) /\ Len(queue) \in Nat
  BY StepIsBridgeStep DEF IInv, AInv, DeliveryTypeOK, TypeOK
\* What the Worker holds is a result of the operation.
<1>t. working = "next" => childNexts < total /\ Sent
  BY <1>0 DEF Queued, Held, DInv, WithinTotal, Sent
<1>1. CASE Create
  <2>1. UNCHANGED <<outcome, adapterVars>>
    BY <1>1 DEF Create, Ask, seenVars
  <2> QED BY <1>0, <2>1, Unnoticed DEF ChildInv, Sent, adapterVars, operatorVars
<1>2. CASE BridgeStep
  <2>1. outcome' = outcome /\ UNCHANGED adapterVars
    BY <1>2 DEF BridgeStep, Wire, OnSubscribe, AddSubscription, SetProducer, RequestCheck,
       SubscriptionRequest, InnerUnsubscribe, SubscriptionUnsubscribe, OnNext, OnError,
       OnComplete, Guard, Source, SourceNext, SourceComplete, SourceError, seenVars
  <2> QED BY <1>0, <2>1, Unnoticed DEF ChildInv, Sent, adapterVars, operatorVars
<1>3. CASE ParentOnNext
  <2>1. /\ outcome' = outcome /\ UNCHANGED <<childVars, working, childUnsubscribed>>
        /\ finished' /\ error' = "none" => finished /\ error = "none"
    BY <1>3 DEF ParentOnNext, SendNext, childVars
  <2> QED BY <1>0, <2>1, Unnoticed DEF ChildInv, Sent
<1>4. CASE ParentEnds
  <2>1. /\ UNCHANGED <<childVars, working, childUnsubscribed>>
        /\ finished' = (finished \/ ~unsubscribed)
        /\ error' = IF ~Deaf /\ outcome' = "error" THEN "source" ELSE error
    BY <1>4 DEF ParentEnds, childVars
  <2>2. outcome' \in {"error", "completed"} /\ outcome = "none"
    BY <1>4 DEF ParentEnds, SendError, SendCompleted, RequestCatch, Terminal, IInv, Stages,
                Sending
  <2>3. finished' /\ error' = "none" /\ ~childUnsubscribed => outcome' = "completed"
    BY <2>1, <2>2 DEF Deaf, ChildInv
  <2> QED BY <1>0, <2>1, <2>3, Unnoticed
<1>5. CASE Poll
  <2>1. /\ working = "idle" /\ ~childUnsubscribed /\ childNexts < childAsked
        /\ working' = "next"
        /\ UNCHANGED <<vars, finished, error, childVars>>
    BY <1>5 DEF Poll, WorkerAt
  <2> QED BY <2>1 DEF ChildInv, childContractVars, Sent, childVars, vars, driverVars, seenVars
<1>6. CASE Terminate
  <2>1. /\ working = "idle" /\ ~childUnsubscribed /\ finished
        /\ \/ error # "none" /\ working' = "error"
           \/ error = "none" /\ queue = <<>> /\ working' = "completed"
        /\ UNCHANGED <<vars, finished, error, childVars>>
    BY <1>6 DEF Terminate, WorkerAt
  <2>2. op # "none" /\ (working' = "completed" => Sent)
    BY <1>0, <2>1 DEF Order, IInv, Stages, TypeOK, ChildInv, Sent
  <2>3. working' = "completed" => childNexts = total
    <3> SUFFICES ASSUME working' = "completed" PROVE childNexts = total
      OBVIOUS
    <3>1. error = "none" /\ queue = <<>> /\ Len(queue) = 0
      BY <2>1
    <3>2. nexts = childNexts
      BY <1>0, <2>1, <3>1 DEF Sequential, Held
    <3>3. nexts = total
      BY <2>1, <3>1 DEF ChildInv, IInv, Counted
    <3> QED BY <3>2, <3>3
  <2> QED BY <2>1, <2>2, <2>3 DEF ChildInv, childContractVars, Sent, childVars, vars,
      driverVars, seenVars
<1>7. CASE Clear
  BY <1>7 DEF Clear, ChildInv, childContractVars, Sent, childVars, vars, driverVars, seenVars
<1>8. CASE Emit
  <2>1. /\ working = "next" /\ working' = "idle" /\ childNexts' = childNexts + 1 /\ ChildLate
        /\ UNCHANGED <<vars, finished, error, childAsked, childUnsubscribed, childOutcome>>
    BY <1>8 DEF Emit, WorkerAt
  <2>2. UNCHANGED <<op, total, outcome>>
    BY <2>1 DEF vars, driverVars, seenVars
  <2>3. ChildInv'
    BY <2>1, <2>2 DEF ChildInv, ChildLate, Sent
  <2>4. ChildContract!NextResult
    BY <1>t, <2>1, <2>2 DEF ChildContract!NextResult, ChildContract!Cross, Sent, ChildInv,
        ChildLate
  <2> QED BY <2>3, <2>4 DEF ChildContract!Next
<1>9. CASE EmitThrows
  <2>1. /\ working = "next" /\ working' = "over" /\ childNexts' = childNexts + 1 /\ ChildLate
        /\ childOutcome' = "error" /\ childUnsubscribed' = TRUE
        /\ UNCHANGED <<vars, finished, error, childAsked>>
    BY <1>9 DEF EmitThrows, WorkerAt, CutBy
  <2>2. UNCHANGED <<op, total, outcome>>
    BY <2>1 DEF vars, driverVars, seenVars
  <2>3. ChildInv'
    BY <1>t, <2>1, <2>2 DEF ChildInv, ChildLate, Sent
  <2>4. ChildContract!RefusedResult
    BY <1>t, <2>1, <2>2 DEF ChildContract!RefusedResult, ChildContract!Cross, Sent, ChildInv,
                            ChildLate
  <2> QED BY <2>3, <2>4 DEF ChildContract!Next
<1>10. CASE EmitEnd
  <2>1. /\ working \in {"error", "completed"} /\ working' = "over"
        /\ childOutcome' = working /\ ChildLate /\ childUnsubscribed' = TRUE
        /\ UNCHANGED <<vars, finished, error, childAsked, childNexts>>
    BY <1>10 DEF EmitEnd, CutBy
  <2>2. UNCHANGED <<op, total, outcome>>
    BY <2>1 DEF vars, driverVars, seenVars
  <2>3. ChildInv'
    BY <2>1, <2>2 DEF ChildInv, ChildLate, Sent
  <2>4. ChildContract!Finish
    BY <2>1, <2>2 DEF ChildContract!Finish, ChildContract!Wanted, ChildContract!Cross, Sent,
        ChildInv, ChildLate
  <2> QED BY <2>3, <2>4 DEF ChildContract!Next
<1>11. CASE Replenish
  <2>1. UNCHANGED <<outcome, finished, error, working, childVars>>
    BY <1>11 DEF Replenish, Ask, seenVars
  <2> QED BY <1>0, <2>1, Unnoticed DEF ChildInv, Sent
<1>12. ASSUME NEW n \in 1..MaxLong, ChildRequest(n) PROVE Goal
  <2>1. /\ childAsked' = childAsked + n
        /\ UNCHANGED <<vars, operatorVars, childUnsubscribed, childNexts, childOutcome,
                       childLate>>
    BY <1>12 DEF ChildRequest
  <2>2. childAsked' > childAsked
    BY <1>0, <2>1, BridgeAssumption
  <2>3. UNCHANGED <<op, total, outcome, working, finished, error>>
    BY <2>1 DEF vars, driverVars, seenVars, operatorVars
  <2>4. childNexts < childAsked => childNexts < childAsked'
    BY <1>0, <2>1, <2>2
  <2> QED BY <2>1, <2>2, <2>3, <2>4 DEF Sent, ChildInv, ChildContract!Next,
      ChildContract!Request
<1>13. ASSUME NEW t \in Threads, ChildUnsubscribe(t) PROVE Goal
  <2>1. /\ childUnsubscribed' = TRUE
        /\ UNCHANGED <<vars, operatorVars, childAsked, childNexts, childOutcome, childLate>>
    BY <1>13 DEF ChildUnsubscribe, CutBy
  <2>2. UNCHANGED <<op, total, outcome, working, finished, error>>
    BY <2>1 DEF vars, driverVars, seenVars, operatorVars
  <2> QED BY <2>1, <2>2 DEF Sent, ChildInv, ChildContract!Next, ChildContract!Cancel
<1>14. ASSUME NEW t \in Threads, Cut(t) PROVE Goal
  <2>1. UNCHANGED <<op, total, outcome, working, finished, error, childAsked,
                    childUnsubscribed, childNexts, childOutcome, childLate>>
    BY <1>14 DEF Cut, Unsubscribe, driverVars, seenVars, operatorVars
  <2> QED BY <2>1 DEF ChildInv, childContractVars, Sent
<1>15. CASE UNCHANGED deliveryVars
  BY <1>15 DEF deliveryVars, vars, driverVars, seenVars, adapterVars, operatorVars, childVars,
               ChildInv, childContractVars, Sent
<1> QED
  BY <1>1, <1>2, <1>3, <1>4, <1>5, <1>6, <1>7, <1>8, <1>9, <1>10, <1>11, <1>12, <1>13,
     <1>14, <1>15 DEF DeliveryNext, Parent, Work

\* The application behind the adapter sees the contract and nothing else,
\* whatever the sizes of the queue and of the refills.
THEOREM AdapterKeepsContract == DeliverySpec => ChildContract!Safety
<1>1. DeliveryInit => ChildContract!Init /\ WithinTotal /\ ChildInv
  BY InitChildInv, BridgeAssumption DEF DeliveryInit, Init, ChildContract!Init, WithinTotal,
      Sent
<1>2. IInv => TypeOK
  BY DEF IInv
<1>3. IInv /\ WithinTotal /\ [DeliveryNext]_deliveryVars => WithinTotal'
  BY <1>2, StepIsBridgeStep, NextWithinTotal
<1>4. IInv /\ IInv' /\ DInv /\ [DeliveryNext]_deliveryVars => DInv'
  BY <1>2, StepIsBridgeStep, NextDInv
<1>5. DeliveryInit => DInv
  BY InitDInv DEF DeliveryInit
<1>6. IInv /\ DInv /\ WithinTotal /\ AInv /\ ChildInv /\ [DeliveryNext]_deliveryVars
        => ChildInv' /\ [ChildContract!Next]_(ChildContract!vars)
  BY StepChild DEF ChildContract!vars, childContractVars, Sent
<1> QED BY <1>1, <1>3, <1>4, <1>5, <1>6, AdaptedInvariance, PTL
        DEF DeliverySpec, ChildContract!Safety
=============================================================================
