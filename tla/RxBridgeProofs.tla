-------------------------- MODULE RxBridgeProofs --------------------------
(***************************************************************************)
(* The safety properties of RxBridge, proved for every set of threads and  *)
(* every value of the bounds.                                              *)
(*                                                                         *)
(* None of them is inductive by itself.  IInv adds what links the program  *)
(* counters to the rest of the state: where a process can only be once the *)
(* operation has reached a certain stage (Stages), what a request under    *)
(* way stands for (Wanted), who is on the way to unsubscribe (OnTheWay)    *)
(* and which results are between the driver and the subscriber (Counted).  *)
(***************************************************************************)
EXTENDS RxBridge, TLAPS

\* Past its test of isSubscribed(), a callback will call the subscriber.
Sending == pc[Driver] \in {"sendNext", "sendError", "sendCompleted"}

\* Application threads and the wirer never run the callbacks, the driver
\* never requests; the wirer is elsewhere until the bridge is wired, and no
\* request reaches the bridge before.
Roles ==
    /\ pc[Driver] \in PCs \ {"request", "call", "catch"}
    /\ \A p \in Procs : p # Driver =>
            pc[p] \in {"idle", "request", "call", "catch", "cancel", "close"}
    /\ wiring \in {"new", "add"} => pc[Wirer] = "idle"
    /\ \A p \in Procs : pc[p] \in {"request", "call"} => wiring = "done"

\* What goes on at each stage of the operation: results only while it runs,
\* one way to end it once it is over or could not be started.
Stages ==
    /\ terminals \in {0, 1}
    /\ outcome = "none" <=> terminals = 0
    /\ outcome = "completed" => op = "over"
    /\ threw => terminals = 1
    /\ op = "none" => terminals = 0
    /\ op = "running" /\ terminals > 0 => threw
    /\ threw => op \in {"running", "over"} /\ unsubscribed
    /\ pc[Driver] \in {"onNext", "sendNext"} => op = "running"
    /\ pc[Driver] \in {"onError", "onComplete", "sendError", "sendCompleted"} => op = "over"
    /\ pc[Driver] \in {"onError", "onComplete"} => terminals = 0 \/ threw
    /\ Sending => terminals = 0
    /\ \A p \in Procs : pc[p] = "catch" => op = "failed" /\ terminals = 0
    /\ \A p, q \in Procs : pc[p] = "catch" /\ pc[q] = "catch" => p = q

\* Whatever is passed on was asked for.
Wanted ==
    /\ \A p \in Procs : pc[p] = "call" => amount[p] > 0
    /\ \A p \in Procs : amount[p] > 0 => asked > 0
    /\ pending > 0 => asked > 0
    /\ op # "none" => asked > 0

\* After a late call nobody is left that could make a second one.
LateIsLast ==
    /\ late \in {0, 1}
    /\ late = 1 => /\ unsubscribed
                   /\ op # "none"
                   /\ ~Sending
                   /\ \A p \in Procs : pc[p] # "catch"

\* The one process that found the flag unset unsubscribes the driver.
OnTheWay ==
    /\ wiring # "new" => subscription
    /\ added => wiring \in {"producer", "done"}
    /\ wiring \in {"producer", "done"} /\ ~added => unsubscribed
    /\ ~inner => cancels = 0 /\ \A p \in Procs : pc[p] # "close"
    /\ \A p, q \in Procs : pc[p] = "close" /\ pc[q] = "close" => p = q
    /\ \A p \in Procs : pc[p] = "close" => cancels = 0
    /\ cancels \in {0, 1}
    /\ inner => cancels = 1 \/ \E p \in Procs : pc[p] = "close"
    /\ unsubscribed /\ wiring \in {"producer", "done"} =>
            inner \/ \E p \in Procs : pc[p] = "cancel"

\* A subscribed subscriber has seen every result but the one in flight.
Counted ==
    /\ ~unsubscribed =>
            emitted = IF pc[Driver] \in {"onNext", "sendNext"} THEN nexts + 1 ELSE nexts
    /\ pc[Driver] = "onComplete" => emitted = total
    /\ pc[Driver] = "sendCompleted" => nexts = total
    /\ outcome = "completed" => nexts = total

IInv == TypeOK /\ Roles /\ Stages /\ Wanted /\ LateIsLast /\ OnTheWay /\ Counted

-----------------------------------------------------------------------------
\* The invariant holds when nothing has been subscribed yet.
LEMMA InitIInv == Init => IInv
<1> SUFFICES ASSUME Init PROVE IInv
  OBVIOUS
<1>1. TypeOK
  <2>1. pc \in [Procs -> PCs] /\ amount \in [Procs -> Nat]
    BY DEF Init, PCs
  <2>2. /\ safe \in BOOLEAN /\ subscription \in BOOLEAN /\ inner \in BOOLEAN
        /\ unsubscribed \in BOOLEAN /\ added \in BOOLEAN
    BY Zenon DEF Init
  <2>3. /\ total \in Nat /\ emitted \in Nat /\ cancels \in Nat /\ demand \in 0..MaxLong
        /\ asked \in Nat /\ nexts \in Nat /\ terminals \in Nat /\ late \in Nat
    BY BridgeAssumption DEF Init
  <2> QED BY <2>1, <2>2, <2>3 DEF Init, TypeOK
<1>2. Roles
  BY BridgeAssumption DEF Init, Roles, PCs, Procs
<1>3. Stages
  BY BridgeAssumption DEF Init, Stages, Sending, Procs
<1>4. Wanted
  BY BridgeAssumption DEF Init, Wanted, NotSet, Procs
<1>5. LateIsLast
  BY BridgeAssumption DEF Init, LateIsLast, Sending, Procs
<1>6. OnTheWay
  BY BridgeAssumption DEF Init, OnTheWay, Procs
<1>7. Counted
  BY BridgeAssumption DEF Init, Counted, Procs
<1> QED BY <1>1, <1>2, <1>3, <1>4, <1>5, <1>6, <1>7 DEF IInv

\* Every step of every process preserves it.
LEMMA NextIInv == IInv /\ [Next]_vars => IInv'
<1> SUFFICES ASSUME IInv, [Next]_vars PROVE IInv'
  OBVIOUS
<1> USE BridgeAssumption DEF Procs, Sending
<1>1. ASSUME OnSubscribe PROVE IInv'
  <2>1. TypeOK'
    BY <1>1 DEF IInv, TypeOK, PCs, NotSet, OnSubscribe, bridgeVars, rxVars,
       driverVars, seenVars
  <2>2. Roles'
    BY <1>1 DEF IInv, Roles, TypeOK, PCs, OnSubscribe, bridgeVars, rxVars,
       driverVars, seenVars
  <2>3. Stages'
    BY <1>1 DEF IInv, Stages, Roles, TypeOK, PCs, OnSubscribe, bridgeVars,
       rxVars, driverVars, seenVars
  <2>4. Wanted'
    BY <1>1 DEF IInv, Wanted, TypeOK, NotSet, OnSubscribe, bridgeVars, rxVars,
       driverVars, seenVars
  <2>5. LateIsLast'
    BY <1>1 DEF IInv, LateIsLast, Stages, Roles, TypeOK, Sending, OnSubscribe,
       bridgeVars, rxVars, driverVars, seenVars
  <2>6. OnTheWay'
    BY <1>1 DEF IInv, OnTheWay, Roles, TypeOK, OnSubscribe, bridgeVars, rxVars,
       driverVars, seenVars
  <2>7. Counted'
    BY <1>1 DEF IInv, Counted, Stages, Roles, TypeOK, OnSubscribe, bridgeVars,
       rxVars, driverVars, seenVars
  <2> QED BY <2>1, <2>2, <2>3, <2>4, <2>5, <2>6, <2>7 DEF IInv
<1>2. ASSUME AddSubscription PROVE IInv'
  <2>1. TypeOK'
    BY <1>2 DEF IInv, TypeOK, PCs, NotSet, AddSubscription, Goto, bridgeVars,
       rxVars, driverVars, seenVars
  <2>2. Roles'
    BY <1>2 DEF IInv, Roles, TypeOK, PCs, AddSubscription, Goto, bridgeVars,
       rxVars, driverVars, seenVars
  <2>3. Stages'
    BY <1>2 DEF IInv, Stages, Roles, TypeOK, PCs, AddSubscription, Goto,
       bridgeVars, rxVars, driverVars, seenVars
  <2>4. Wanted'
    BY <1>2 DEF IInv, Wanted, TypeOK, NotSet, AddSubscription, Goto, bridgeVars,
       rxVars, driverVars, seenVars
  <2>5. LateIsLast'
    BY <1>2 DEF IInv, LateIsLast, Stages, Roles, TypeOK, Sending,
       AddSubscription, Goto, bridgeVars, rxVars, driverVars, seenVars
  <2>6. OnTheWay'
    <3>1. CASE unsubscribed
      BY <1>2, <3>1 DEF IInv, OnTheWay, Roles, TypeOK, AddSubscription, Goto,
         bridgeVars, rxVars, driverVars, seenVars
    <3>2. CASE ~unsubscribed
      BY <1>2, <3>2 DEF IInv, OnTheWay, Roles, TypeOK, AddSubscription, Goto,
         bridgeVars, rxVars, driverVars, seenVars
    <3> QED BY <3>1, <3>2
  <2>7. Counted'
    BY <1>2 DEF IInv, Counted, Stages, Roles, TypeOK, AddSubscription, Goto,
       bridgeVars, rxVars, driverVars, seenVars
  <2> QED BY <2>1, <2>2, <2>3, <2>4, <2>5, <2>6, <2>7 DEF IInv
<1>3. ASSUME SetProducer PROVE IInv'
  <2>1. TypeOK'
    BY <1>3 DEF IInv, TypeOK, PCs, NotSet, SetProducer, Goto, bridgeVars,
       rxVars, driverVars, seenVars
  <2>2. Roles'
    BY <1>3 DEF IInv, Roles, TypeOK, PCs, SetProducer, Goto, bridgeVars, rxVars,
       driverVars, seenVars
  <2>3. Stages'
    BY <1>3 DEF IInv, Stages, Roles, TypeOK, PCs, SetProducer, Goto, bridgeVars,
       rxVars, driverVars, seenVars
  <2>4. Wanted'
    BY <1>3 DEF IInv, Wanted, TypeOK, NotSet, SetProducer, Goto, bridgeVars,
       rxVars, driverVars, seenVars
  <2>5. LateIsLast'
    BY <1>3 DEF IInv, LateIsLast, Stages, Roles, TypeOK, Sending, SetProducer,
       Goto, bridgeVars, rxVars, driverVars, seenVars
  <2>6. OnTheWay'
    BY <1>3 DEF IInv, OnTheWay, Roles, TypeOK, SetProducer, Goto, bridgeVars,
       rxVars, driverVars, seenVars
  <2>7. Counted'
    BY <1>3 DEF IInv, Counted, Stages, Roles, TypeOK, SetProducer, Goto,
       bridgeVars, rxVars, driverVars, seenVars
  <2> QED BY <2>1, <2>2, <2>3, <2>4, <2>5, <2>6, <2>7 DEF IInv
<1>4. ASSUME NEW p \in Procs, RequestCheck(p) PROVE IInv'
  <2>1. TypeOK'
    BY <1>4 DEF IInv, TypeOK, PCs, NotSet, RequestCheck, Goto, bridgeVars,
       rxVars, driverVars, seenVars
  <2>2. Roles'
    BY <1>4 DEF IInv, Roles, TypeOK, PCs, RequestCheck, Goto, bridgeVars,
       rxVars, driverVars, seenVars
  <2>3. Stages'
    BY <1>4 DEF IInv, Stages, Roles, TypeOK, PCs, RequestCheck, Goto,
       bridgeVars, rxVars, driverVars, seenVars
  <2>4. Wanted'
    BY <1>4 DEF IInv, Wanted, TypeOK, NotSet, RequestCheck, Goto, bridgeVars,
       rxVars, driverVars, seenVars
  <2>5. LateIsLast'
    BY <1>4 DEF IInv, LateIsLast, Stages, Roles, TypeOK, Sending, RequestCheck,
       Goto, bridgeVars, rxVars, driverVars, seenVars
  <2>6. OnTheWay'
    BY <1>4 DEF IInv, OnTheWay, Roles, TypeOK, RequestCheck, Goto, bridgeVars,
       rxVars, driverVars, seenVars
  <2>7. Counted'
    BY <1>4 DEF IInv, Counted, Stages, Roles, TypeOK, RequestCheck, Goto,
       bridgeVars, rxVars, driverVars, seenVars
  <2> QED BY <2>1, <2>2, <2>3, <2>4, <2>5, <2>6, <2>7 DEF IInv
<1>5. ASSUME NEW p \in Procs, SubscriptionRequest(p) PROVE IInv'
  <2>1. TypeOK'
    BY <1>5 DEF IInv, TypeOK, PCs, NotSet, SubscriptionRequest, SourceRequest,
       Sat, Goto, bridgeVars, rxVars, driverVars, seenVars
  <2>2. Roles'
    BY <1>5 DEF IInv, Roles, TypeOK, PCs, SubscriptionRequest, SourceRequest,
       Sat, Goto, bridgeVars, rxVars, driverVars, seenVars
  <2>3. Stages'
    <3>1. PICK thrown \in BOOLEAN :
               /\ SourceRequest(amount[p], thrown)
               /\ Goto(p, IF thrown THEN "catch" ELSE "idle")
      <4>1. subscription
        BY <1>5 DEF IInv, OnTheWay, Roles, TypeOK, SubscriptionRequest
      <4> QED BY <1>5, <4>1, Zenon DEF SubscriptionRequest
    <3>2. CASE thrown
      BY <1>5, <3>1, <3>2 DEF IInv, Wanted, Stages, Roles, TypeOK, PCs,
         SubscriptionRequest, SourceRequest, Goto, bridgeVars, rxVars,
         driverVars, seenVars
    <3>3. CASE ~thrown
      BY <1>5, <3>1, <3>3 DEF IInv, Stages, Roles, TypeOK, PCs,
         SubscriptionRequest, SourceRequest, Goto, bridgeVars, rxVars,
         driverVars, seenVars
    <3> QED BY <3>2, <3>3
  <2>4. Wanted'
    BY <1>5 DEF IInv, Wanted, TypeOK, NotSet, SubscriptionRequest,
       SourceRequest, Sat, Goto, bridgeVars, rxVars, driverVars, seenVars
  <2>5. LateIsLast'
    <3>1. PICK thrown \in BOOLEAN :
               /\ SourceRequest(amount[p], thrown)
               /\ Goto(p, IF thrown THEN "catch" ELSE "idle")
      <4>1. subscription
        BY <1>5 DEF IInv, OnTheWay, Roles, TypeOK, SubscriptionRequest
      <4> QED BY <1>5, <4>1, Zenon DEF SubscriptionRequest
    <3>2. CASE thrown
      BY <1>5, <3>1, <3>2 DEF IInv, Wanted, LateIsLast, Stages, Roles, TypeOK,
         Sending, SubscriptionRequest, SourceRequest, Goto, bridgeVars, rxVars,
         driverVars, seenVars
    <3>3. CASE ~thrown
      BY <1>5, <3>1, <3>3 DEF IInv, LateIsLast, Stages, Roles, TypeOK, Sending,
         SubscriptionRequest, SourceRequest, Goto, bridgeVars, rxVars,
         driverVars, seenVars
    <3> QED BY <3>2, <3>3
  <2>6. OnTheWay'
    BY <1>5 DEF IInv, OnTheWay, Roles, TypeOK, SubscriptionRequest,
       SourceRequest, Sat, Goto, bridgeVars, rxVars, driverVars, seenVars
  <2>7. Counted'
    BY <1>5 DEF IInv, Counted, Stages, Roles, TypeOK, SubscriptionRequest,
       SourceRequest, Sat, Goto, bridgeVars, rxVars, driverVars, seenVars
  <2> QED BY <2>1, <2>2, <2>3, <2>4, <2>5, <2>6, <2>7 DEF IInv
<1>6. ASSUME NEW p \in Procs, RequestCatch(p) PROVE IInv'
  <2>1. TypeOK'
    <3>1. CASE safe
      BY <1>6, <3>1 DEF IInv, TypeOK, PCs, NotSet, RequestCatch, Terminal,
         CountLate, UnsubscribeBy, Goto, bridgeVars, rxVars, driverVars,
         seenVars
    <3>2. CASE ~safe
      BY <1>6, <3>2 DEF IInv, TypeOK, PCs, NotSet, RequestCatch, Terminal,
         CountLate, UnsubscribeBy, Goto, bridgeVars, rxVars, driverVars,
         seenVars
    <3> QED BY <3>1, <3>2
  <2>2. Roles'
    BY <1>6 DEF IInv, Roles, TypeOK, PCs, RequestCatch, Terminal, CountLate,
       UnsubscribeBy, Goto, bridgeVars, rxVars, driverVars, seenVars
  <2>3. Stages'
    BY <1>6 DEF IInv, Stages, Roles, TypeOK, PCs, RequestCatch, Terminal,
       CountLate, UnsubscribeBy, Goto, bridgeVars, rxVars, driverVars, seenVars
  <2>4. Wanted'
    BY <1>6 DEF IInv, Wanted, TypeOK, NotSet, RequestCatch, Terminal, CountLate,
       UnsubscribeBy, Goto, bridgeVars, rxVars, driverVars, seenVars
  <2>5. LateIsLast'
    BY <1>6 DEF IInv, LateIsLast, Stages, Roles, TypeOK, Sending, RequestCatch,
       Terminal, CountLate, UnsubscribeBy, Goto, bridgeVars, rxVars, driverVars,
       seenVars
  <2>6. OnTheWay'
    BY <1>6 DEF IInv, OnTheWay, Roles, TypeOK, RequestCatch, Terminal,
       CountLate, UnsubscribeBy, Goto, bridgeVars, rxVars, driverVars, seenVars
  <2>7. Counted'
    BY <1>6 DEF IInv, Counted, Stages, Roles, TypeOK, RequestCatch, Terminal,
       CountLate, UnsubscribeBy, Goto, bridgeVars, rxVars, driverVars, seenVars
  <2> QED BY <2>1, <2>2, <2>3, <2>4, <2>5, <2>6, <2>7 DEF IInv
<1>7. ASSUME NEW p \in Procs, InnerUnsubscribe(p) PROVE IInv'
  <2>1. TypeOK'
    BY <1>7 DEF IInv, TypeOK, PCs, NotSet, InnerUnsubscribe, Goto, bridgeVars,
       rxVars, driverVars, seenVars
  <2>2. Roles'
    BY <1>7 DEF IInv, Roles, TypeOK, PCs, InnerUnsubscribe, Goto, bridgeVars,
       rxVars, driverVars, seenVars
  <2>3. Stages'
    BY <1>7 DEF IInv, Stages, Roles, TypeOK, PCs, InnerUnsubscribe, Goto,
       bridgeVars, rxVars, driverVars, seenVars
  <2>4. Wanted'
    BY <1>7 DEF IInv, Wanted, TypeOK, NotSet, InnerUnsubscribe, Goto,
       bridgeVars, rxVars, driverVars, seenVars
  <2>5. LateIsLast'
    BY <1>7 DEF IInv, LateIsLast, Stages, Roles, TypeOK, Sending,
       InnerUnsubscribe, Goto, bridgeVars, rxVars, driverVars, seenVars
  <2>6. OnTheWay'
    BY <1>7 DEF IInv, OnTheWay, Roles, TypeOK, InnerUnsubscribe, Goto,
       bridgeVars, rxVars, driverVars, seenVars
  <2>7. Counted'
    BY <1>7 DEF IInv, Counted, Stages, Roles, TypeOK, InnerUnsubscribe, Goto,
       bridgeVars, rxVars, driverVars, seenVars
  <2> QED BY <2>1, <2>2, <2>3, <2>4, <2>5, <2>6, <2>7 DEF IInv
<1>8. ASSUME NEW p \in Procs, SubscriptionUnsubscribe(p) PROVE IInv'
  <2>1. TypeOK'
    BY <1>8 DEF IInv, TypeOK, PCs, NotSet, SubscriptionUnsubscribe, Goto,
       bridgeVars, rxVars, driverVars, seenVars
  <2>2. Roles'
    BY <1>8 DEF IInv, Roles, TypeOK, PCs, SubscriptionUnsubscribe, Goto,
       bridgeVars, rxVars, driverVars, seenVars
  <2>3. Stages'
    BY <1>8 DEF IInv, Stages, Roles, TypeOK, PCs, SubscriptionUnsubscribe, Goto,
       bridgeVars, rxVars, driverVars, seenVars
  <2>4. Wanted'
    BY <1>8 DEF IInv, Wanted, TypeOK, NotSet, SubscriptionUnsubscribe, Goto,
       bridgeVars, rxVars, driverVars, seenVars
  <2>5. LateIsLast'
    BY <1>8 DEF IInv, LateIsLast, Stages, Roles, TypeOK, Sending,
       SubscriptionUnsubscribe, Goto, bridgeVars, rxVars, driverVars, seenVars
  <2>6. OnTheWay'
    BY <1>8 DEF IInv, OnTheWay, Roles, TypeOK, SubscriptionUnsubscribe, Goto,
       bridgeVars, rxVars, driverVars, seenVars
  <2>7. Counted'
    BY <1>8 DEF IInv, Counted, Stages, Roles, TypeOK, SubscriptionUnsubscribe,
       Goto, bridgeVars, rxVars, driverVars, seenVars
  <2> QED BY <2>1, <2>2, <2>3, <2>4, <2>5, <2>6, <2>7 DEF IInv
<1>9. ASSUME OnNext PROVE IInv'
  <2>1. TypeOK'
    BY <1>9 DEF IInv, TypeOK, PCs, NotSet, OnNext, Guard, Goto, bridgeVars,
       rxVars, driverVars, seenVars
  <2>2. Roles'
    BY <1>9 DEF IInv, Roles, TypeOK, PCs, OnNext, Guard, Goto, bridgeVars,
       rxVars, driverVars, seenVars
  <2>3. Stages'
    BY <1>9 DEF IInv, Stages, Roles, TypeOK, PCs, OnNext, Guard, Goto,
       bridgeVars, rxVars, driverVars, seenVars
  <2>4. Wanted'
    BY <1>9 DEF IInv, Wanted, TypeOK, NotSet, OnNext, Guard, Goto, bridgeVars,
       rxVars, driverVars, seenVars
  <2>5. LateIsLast'
    BY <1>9 DEF IInv, LateIsLast, Stages, Roles, TypeOK, Sending, OnNext, Guard,
       Goto, bridgeVars, rxVars, driverVars, seenVars
  <2>6. OnTheWay'
    BY <1>9 DEF IInv, OnTheWay, Roles, TypeOK, OnNext, Guard, Goto, bridgeVars,
       rxVars, driverVars, seenVars
  <2>7. Counted'
    BY <1>9 DEF IInv, Counted, Stages, Roles, TypeOK, OnNext, Guard, Goto,
       bridgeVars, rxVars, driverVars, seenVars
  <2> QED BY <2>1, <2>2, <2>3, <2>4, <2>5, <2>6, <2>7 DEF IInv
<1>10. ASSUME OnError PROVE IInv'
  <2>1. TypeOK'
    BY <1>10 DEF IInv, TypeOK, PCs, NotSet, OnError, Guard, Goto, bridgeVars,
       rxVars, driverVars, seenVars
  <2>2. Roles'
    BY <1>10 DEF IInv, Roles, TypeOK, PCs, OnError, Guard, Goto, bridgeVars,
       rxVars, driverVars, seenVars
  <2>3. Stages'
    BY <1>10 DEF IInv, Stages, Roles, TypeOK, PCs, OnError, Guard, Goto,
       bridgeVars, rxVars, driverVars, seenVars
  <2>4. Wanted'
    BY <1>10 DEF IInv, Wanted, TypeOK, NotSet, OnError, Guard, Goto, bridgeVars,
       rxVars, driverVars, seenVars
  <2>5. LateIsLast'
    BY <1>10 DEF IInv, LateIsLast, Stages, Roles, TypeOK, Sending, OnError,
       Guard, Goto, bridgeVars, rxVars, driverVars, seenVars
  <2>6. OnTheWay'
    BY <1>10 DEF IInv, OnTheWay, Roles, TypeOK, OnError, Guard, Goto,
       bridgeVars, rxVars, driverVars, seenVars
  <2>7. Counted'
    BY <1>10 DEF IInv, Counted, Stages, Roles, TypeOK, OnError, Guard, Goto,
       bridgeVars, rxVars, driverVars, seenVars
  <2> QED BY <2>1, <2>2, <2>3, <2>4, <2>5, <2>6, <2>7 DEF IInv
<1>11. ASSUME OnComplete PROVE IInv'
  <2>1. TypeOK'
    BY <1>11 DEF IInv, TypeOK, PCs, NotSet, OnComplete, Guard, Goto, bridgeVars,
       rxVars, driverVars, seenVars
  <2>2. Roles'
    BY <1>11 DEF IInv, Roles, TypeOK, PCs, OnComplete, Guard, Goto, bridgeVars,
       rxVars, driverVars, seenVars
  <2>3. Stages'
    BY <1>11 DEF IInv, Stages, Roles, TypeOK, PCs, OnComplete, Guard, Goto,
       bridgeVars, rxVars, driverVars, seenVars
  <2>4. Wanted'
    BY <1>11 DEF IInv, Wanted, TypeOK, NotSet, OnComplete, Guard, Goto,
       bridgeVars, rxVars, driverVars, seenVars
  <2>5. LateIsLast'
    BY <1>11 DEF IInv, LateIsLast, Stages, Roles, TypeOK, Sending, OnComplete,
       Guard, Goto, bridgeVars, rxVars, driverVars, seenVars
  <2>6. OnTheWay'
    BY <1>11 DEF IInv, OnTheWay, Roles, TypeOK, OnComplete, Guard, Goto,
       bridgeVars, rxVars, driverVars, seenVars
  <2>7. Counted'
    BY <1>11 DEF IInv, Counted, Stages, Roles, TypeOK, OnComplete, Guard, Goto,
       bridgeVars, rxVars, driverVars, seenVars
  <2> QED BY <2>1, <2>2, <2>3, <2>4, <2>5, <2>6, <2>7 DEF IInv
<1>12. ASSUME SendNext PROVE IInv'
  <2>1. TypeOK'
    BY <1>12 DEF IInv, TypeOK, PCs, NotSet, SendNext, CountLate, Goto,
       bridgeVars, rxVars, driverVars, seenVars
  <2>2. Roles'
    BY <1>12 DEF IInv, Roles, TypeOK, PCs, SendNext, CountLate, Goto,
       bridgeVars, rxVars, driverVars, seenVars
  <2>3. Stages'
    BY <1>12 DEF IInv, Stages, Roles, TypeOK, PCs, SendNext, CountLate, Goto,
       bridgeVars, rxVars, driverVars, seenVars
  <2>4. Wanted'
    BY <1>12 DEF IInv, Wanted, TypeOK, NotSet, SendNext, CountLate, Goto,
       bridgeVars, rxVars, driverVars, seenVars
  <2>5. LateIsLast'
    BY <1>12 DEF IInv, LateIsLast, Stages, Roles, TypeOK, Sending, SendNext,
       CountLate, Goto, bridgeVars, rxVars, driverVars, seenVars
  <2>6. OnTheWay'
    BY <1>12 DEF IInv, OnTheWay, Roles, TypeOK, SendNext, CountLate, Goto,
       bridgeVars, rxVars, driverVars, seenVars
  <2>7. Counted'
    BY <1>12 DEF IInv, Counted, Stages, Roles, TypeOK, SendNext, CountLate,
       Goto, bridgeVars, rxVars, driverVars, seenVars
  <2> QED BY <2>1, <2>2, <2>3, <2>4, <2>5, <2>6, <2>7 DEF IInv
<1>13. ASSUME SendError PROVE IInv'
  <2>1. TypeOK'
    <3>1. CASE safe
      BY <1>13, <3>1 DEF IInv, TypeOK, PCs, NotSet, SendError, Terminal,
         CountLate, UnsubscribeBy, Goto, bridgeVars, rxVars, driverVars,
         seenVars
    <3>2. CASE ~safe
      BY <1>13, <3>2 DEF IInv, TypeOK, PCs, NotSet, SendError, Terminal,
         CountLate, UnsubscribeBy, Goto, bridgeVars, rxVars, driverVars,
         seenVars
    <3> QED BY <3>1, <3>2
  <2>2. Roles'
    BY <1>13 DEF IInv, Roles, TypeOK, PCs, SendError, Terminal, CountLate,
       UnsubscribeBy, Goto, bridgeVars, rxVars, driverVars, seenVars
  <2>3. Stages'
    BY <1>13 DEF IInv, Stages, Roles, TypeOK, PCs, SendError, Terminal,
       CountLate, UnsubscribeBy, Goto, bridgeVars, rxVars, driverVars, seenVars
  <2>4. Wanted'
    BY <1>13 DEF IInv, Wanted, TypeOK, NotSet, SendError, Terminal, CountLate,
       UnsubscribeBy, Goto, bridgeVars, rxVars, driverVars, seenVars
  <2>5. LateIsLast'
    BY <1>13 DEF IInv, LateIsLast, Stages, Roles, TypeOK, Sending, SendError,
       Terminal, CountLate, UnsubscribeBy, Goto, bridgeVars, rxVars, driverVars,
       seenVars
  <2>6. OnTheWay'
    BY <1>13 DEF IInv, OnTheWay, Roles, TypeOK, SendError, Terminal, CountLate,
       UnsubscribeBy, Goto, bridgeVars, rxVars, driverVars, seenVars
  <2>7. Counted'
    BY <1>13 DEF IInv, Counted, Stages, Roles, TypeOK, SendError, Terminal,
       CountLate, UnsubscribeBy, Goto, bridgeVars, rxVars, driverVars, seenVars
  <2> QED BY <2>1, <2>2, <2>3, <2>4, <2>5, <2>6, <2>7 DEF IInv
<1>14. ASSUME SendCompleted PROVE IInv'
  <2>1. TypeOK'
    <3>1. CASE safe
      BY <1>14, <3>1 DEF IInv, TypeOK, PCs, NotSet, SendCompleted, Terminal,
         CountLate, UnsubscribeBy, Goto, bridgeVars, rxVars, driverVars,
         seenVars
    <3>2. CASE ~safe
      BY <1>14, <3>2 DEF IInv, TypeOK, PCs, NotSet, SendCompleted, Terminal,
         CountLate, UnsubscribeBy, Goto, bridgeVars, rxVars, driverVars,
         seenVars
    <3> QED BY <3>1, <3>2
  <2>2. Roles'
    BY <1>14 DEF IInv, Roles, TypeOK, PCs, SendCompleted, Terminal, CountLate,
       UnsubscribeBy, Goto, bridgeVars, rxVars, driverVars, seenVars
  <2>3. Stages'
    BY <1>14 DEF IInv, Stages, Roles, TypeOK, PCs, SendCompleted, Terminal,
       CountLate, UnsubscribeBy, Goto, bridgeVars, rxVars, driverVars, seenVars
  <2>4. Wanted'
    BY <1>14 DEF IInv, Wanted, TypeOK, NotSet, SendCompleted, Terminal,
       CountLate, UnsubscribeBy, Goto, bridgeVars, rxVars, driverVars, seenVars
  <2>5. LateIsLast'
    BY <1>14 DEF IInv, LateIsLast, Stages, Roles, TypeOK, Sending,
       SendCompleted, Terminal, CountLate, UnsubscribeBy, Goto, bridgeVars,
       rxVars, driverVars, seenVars
  <2>6. OnTheWay'
    BY <1>14 DEF IInv, OnTheWay, Roles, TypeOK, SendCompleted, Terminal,
       CountLate, UnsubscribeBy, Goto, bridgeVars, rxVars, driverVars, seenVars
  <2>7. Counted'
    BY <1>14 DEF IInv, Counted, Stages, Roles, TypeOK, SendCompleted, Terminal,
       CountLate, UnsubscribeBy, Goto, bridgeVars, rxVars, driverVars, seenVars
  <2> QED BY <2>1, <2>2, <2>3, <2>4, <2>5, <2>6, <2>7 DEF IInv
<1>15. ASSUME SourceNext PROVE IInv'
  <2>1. TypeOK'
    BY <1>15 DEF IInv, TypeOK, PCs, NotSet, SourceNext, Delivering, Goto,
       bridgeVars, rxVars, driverVars, seenVars
  <2>2. Roles'
    BY <1>15 DEF IInv, Roles, TypeOK, PCs, SourceNext, Delivering, Goto,
       bridgeVars, rxVars, driverVars, seenVars
  <2>3. Stages'
    BY <1>15 DEF IInv, Stages, Roles, TypeOK, PCs, SourceNext, Delivering, Goto,
       bridgeVars, rxVars, driverVars, seenVars
  <2>4. Wanted'
    BY <1>15 DEF IInv, Wanted, TypeOK, NotSet, SourceNext, Delivering, Goto,
       bridgeVars, rxVars, driverVars, seenVars
  <2>5. LateIsLast'
    BY <1>15 DEF IInv, LateIsLast, Stages, Roles, TypeOK, Sending, SourceNext,
       Delivering, Goto, bridgeVars, rxVars, driverVars, seenVars
  <2>6. OnTheWay'
    BY <1>15 DEF IInv, OnTheWay, Roles, TypeOK, SourceNext, Delivering, Goto,
       bridgeVars, rxVars, driverVars, seenVars
  <2>7. Counted'
    BY <1>15 DEF IInv, Counted, Stages, Roles, TypeOK, SourceNext, Delivering,
       Goto, bridgeVars, rxVars, driverVars, seenVars
  <2> QED BY <2>1, <2>2, <2>3, <2>4, <2>5, <2>6, <2>7 DEF IInv
<1>16. ASSUME SourceComplete PROVE IInv'
  <2>1. TypeOK'
    BY <1>16 DEF IInv, TypeOK, PCs, NotSet, SourceComplete, Delivering, Goto,
       bridgeVars, rxVars, driverVars, seenVars
  <2>2. Roles'
    BY <1>16 DEF IInv, Roles, TypeOK, PCs, SourceComplete, Delivering, Goto,
       bridgeVars, rxVars, driverVars, seenVars
  <2>3. Stages'
    BY <1>16 DEF IInv, Stages, Roles, TypeOK, PCs, SourceComplete, Delivering,
       Goto, bridgeVars, rxVars, driverVars, seenVars
  <2>4. Wanted'
    BY <1>16 DEF IInv, Wanted, TypeOK, NotSet, SourceComplete, Delivering, Goto,
       bridgeVars, rxVars, driverVars, seenVars
  <2>5. LateIsLast'
    BY <1>16 DEF IInv, LateIsLast, Stages, Roles, TypeOK, Sending,
       SourceComplete, Delivering, Goto, bridgeVars, rxVars, driverVars,
       seenVars
  <2>6. OnTheWay'
    BY <1>16 DEF IInv, OnTheWay, Roles, TypeOK, SourceComplete, Delivering,
       Goto, bridgeVars, rxVars, driverVars, seenVars
  <2>7. Counted'
    BY <1>16 DEF IInv, Counted, Stages, Roles, TypeOK, SourceComplete,
       Delivering, Goto, bridgeVars, rxVars, driverVars, seenVars
  <2> QED BY <2>1, <2>2, <2>3, <2>4, <2>5, <2>6, <2>7 DEF IInv
<1>17. ASSUME SourceError PROVE IInv'
  <2>1. TypeOK'
    BY <1>17 DEF IInv, TypeOK, PCs, NotSet, SourceError, Delivering, Goto,
       bridgeVars, rxVars, driverVars, seenVars
  <2>2. Roles'
    BY <1>17 DEF IInv, Roles, TypeOK, PCs, SourceError, Delivering, Goto,
       bridgeVars, rxVars, driverVars, seenVars
  <2>3. Stages'
    BY <1>17 DEF IInv, Stages, Roles, TypeOK, PCs, SourceError, Delivering,
       Goto, bridgeVars, rxVars, driverVars, seenVars
  <2>4. Wanted'
    BY <1>17 DEF IInv, Wanted, TypeOK, NotSet, SourceError, Delivering, Goto,
       bridgeVars, rxVars, driverVars, seenVars
  <2>5. LateIsLast'
    BY <1>17 DEF IInv, LateIsLast, Stages, Roles, TypeOK, Sending, SourceError,
       Delivering, Goto, bridgeVars, rxVars, driverVars, seenVars
  <2>6. OnTheWay'
    BY <1>17 DEF IInv, OnTheWay, Roles, TypeOK, SourceError, Delivering, Goto,
       bridgeVars, rxVars, driverVars, seenVars
  <2>7. Counted'
    BY <1>17 DEF IInv, Counted, Stages, Roles, TypeOK, SourceError, Delivering,
       Goto, bridgeVars, rxVars, driverVars, seenVars
  <2> QED BY <2>1, <2>2, <2>3, <2>4, <2>5, <2>6, <2>7 DEF IInv
<1>18. ASSUME NEW t \in Threads, NEW n \in 0..MaxAsk, Ask(t, n) PROVE IInv'
  <2>1. TypeOK'
    BY <1>18 DEF IInv, TypeOK, PCs, NotSet, Ask, Sat, Goto, bridgeVars, rxVars,
       driverVars, seenVars
  <2>2. Roles'
    BY <1>18 DEF IInv, Roles, TypeOK, PCs, Ask, Sat, Goto, bridgeVars, rxVars,
       driverVars, seenVars
  <2>3. Stages'
    BY <1>18 DEF IInv, Stages, Roles, TypeOK, PCs, Ask, Sat, Goto, bridgeVars,
       rxVars, driverVars, seenVars
  <2>4. Wanted'
    BY <1>18 DEF IInv, Wanted, TypeOK, NotSet, Ask, Sat, Goto, bridgeVars,
       rxVars, driverVars, seenVars
  <2>5. LateIsLast'
    BY <1>18 DEF IInv, LateIsLast, Stages, Roles, TypeOK, Sending, Ask, Sat,
       Goto, bridgeVars, rxVars, driverVars, seenVars
  <2>6. OnTheWay'
    BY <1>18 DEF IInv, OnTheWay, Roles, TypeOK, Ask, Sat, Goto, bridgeVars,
       rxVars, driverVars, seenVars
  <2>7. Counted'
    BY <1>18 DEF IInv, Counted, Stages, Roles, TypeOK, Ask, Sat, Goto,
       bridgeVars, rxVars, driverVars, seenVars
  <2> QED BY <2>1, <2>2, <2>3, <2>4, <2>5, <2>6, <2>7 DEF IInv
<1>19. ASSUME NEW t \in Threads, Unsubscribe(t) PROVE IInv'
  <2>1. TypeOK'
    BY <1>19 DEF IInv, TypeOK, PCs, NotSet, Unsubscribe, UnsubscribeBy, Goto,
       bridgeVars, rxVars, driverVars, seenVars
  <2>2. Roles'
    BY <1>19 DEF IInv, Roles, TypeOK, PCs, Unsubscribe, UnsubscribeBy, Goto,
       bridgeVars, rxVars, driverVars, seenVars
  <2>3. Stages'
    BY <1>19 DEF IInv, Stages, Roles, TypeOK, PCs, Unsubscribe, UnsubscribeBy,
       Goto, bridgeVars, rxVars, driverVars, seenVars
  <2>4. Wanted'
    BY <1>19 DEF IInv, Wanted, TypeOK, NotSet, Unsubscribe, UnsubscribeBy, Goto,
       bridgeVars, rxVars, driverVars, seenVars
  <2>5. LateIsLast'
    BY <1>19 DEF IInv, LateIsLast, Stages, Roles, TypeOK, Sending, Unsubscribe,
       UnsubscribeBy, Goto, bridgeVars, rxVars, driverVars, seenVars
  <2>6. OnTheWay'
    BY <1>19 DEF IInv, OnTheWay, Roles, TypeOK, Unsubscribe, UnsubscribeBy,
       Goto, bridgeVars, rxVars, driverVars, seenVars
  <2>7. Counted'
    BY <1>19 DEF IInv, Counted, Stages, Roles, TypeOK, Unsubscribe,
       UnsubscribeBy, Goto, bridgeVars, rxVars, driverVars, seenVars
  <2> QED BY <2>1, <2>2, <2>3, <2>4, <2>5, <2>6, <2>7 DEF IInv
<1>20. CASE UNCHANGED vars
  BY <1>20 DEF IInv, TypeOK, PCs, Roles, Stages, Wanted, LateIsLast, Sending,
     OnTheWay,
     Counted, vars, bridgeVars, rxVars, driverVars, seenVars
<1>21. ASSUME SendNextThrows PROVE IInv'
  <2>1. TypeOK'
    BY <1>21 DEF IInv, TypeOK, PCs, NotSet, SendNextThrows, CountLate,
       UnsubscribeBy, Goto, bridgeVars, rxVars, driverVars, seenVars
  <2>2. Roles'
    BY <1>21 DEF IInv, Roles, TypeOK, PCs, SendNextThrows, CountLate,
       UnsubscribeBy, Goto, bridgeVars, rxVars, driverVars, seenVars
  <2>3. Stages'
    BY <1>21 DEF IInv, Stages, Roles, TypeOK, PCs, SendNextThrows, CountLate,
       UnsubscribeBy, Goto, bridgeVars, rxVars, driverVars, seenVars
  <2>4. Wanted'
    BY <1>21 DEF IInv, Wanted, TypeOK, NotSet, SendNextThrows, CountLate,
       UnsubscribeBy, Goto, bridgeVars, rxVars, driverVars, seenVars
  <2>5. LateIsLast'
    BY <1>21 DEF IInv, LateIsLast, Stages, Roles, TypeOK, Sending,
       SendNextThrows, CountLate, UnsubscribeBy, Goto, bridgeVars, rxVars,
       driverVars, seenVars
  <2>6. OnTheWay'
    BY <1>21 DEF IInv, OnTheWay, Roles, TypeOK, SendNextThrows, CountLate,
       UnsubscribeBy, Goto, bridgeVars, rxVars, driverVars, seenVars
  <2>7. Counted'
    BY <1>21 DEF IInv, Counted, Stages, Roles, TypeOK, SendNextThrows,
       CountLate, UnsubscribeBy, Goto, bridgeVars, rxVars, driverVars, seenVars
  <2> QED BY <2>1, <2>2, <2>3, <2>4, <2>5, <2>6, <2>7 DEF IInv
<1> QED
  BY <1>1, <1>2, <1>3, <1>4, <1>5, <1>6, <1>7, <1>8, <1>9, <1>10, <1>11, <1>12,
     <1>13, <1>14, <1>15, <1>16, <1>17, <1>18, <1>19, <1>20, <1>21 DEF Next, Wire,
     Continue, Callback, Source

-----------------------------------------------------------------------------
\* IInv holds in every reachable state, for every set of threads.
THEOREM Invariance == Spec => []IInv
<1>1. Init => IInv
  BY InitIInv
<1>2. IInv /\ [Next]_vars => IInv'
  BY NextIInv
<1> QED BY <1>1, <1>2, PTL DEF Spec

\* Every variable of the bridge keeps its type, and no demand handed to the
\* driver exceeds Long.MAX_VALUE.
THEOREM TypeCorrect == Spec => []TypeOK
<1>1. IInv => TypeOK
  BY DEF IInv
<1> QED BY <1>1, Invariance, PTL

\* onError and onCompleted are called at most once in total.
THEOREM OneTerminal == Spec => []AtMostOneTerminal
<1>1. IInv => AtMostOneTerminal
  BY DEF IInv, Stages, AtMostOneTerminal
<1> QED BY <1>1, Invariance, PTL

\* A subscriber told that the sequence is complete has received every result
\* of the operation, whatever unsubscribe raced with the deliveries.
THEOREM Whole == Spec => []WholeSequence
<1>1. IInv => WholeSequence
  BY DEF IInv, Counted, WholeSequence
<1> QED BY <1>1, Invariance, PTL

\* Although no lock orders unsubscribe and the callbacks, at most one call
\* reaches the subscriber after it has unsubscribed.
THEOREM OneLateCall == Spec => []OneLateCallAtMost
<1>1. IInv => OneLateCallAtMost
  BY DEF IInv, LateIsLast, OneLateCallAtMost
<1> QED BY <1>1, Invariance, PTL

\* However many threads unsubscribe, the driver is told at most once.
THEOREM OneCancel == Spec => []CancelledAtMostOnce
<1>1. IInv => CancelledAtMostOnce
  BY DEF IInv, OnTheWay, CancelledAtMostOnce
<1> QED BY <1>1, Invariance, PTL

\* Once a subscriber is unsubscribed and the threads have left the bridge,
\* the driver's subscription is unsubscribed too.
THEOREM NoLeak == Spec => []NoLeakedCursor
<1>1. IInv => NoLeakedCursor
  BY DEF IInv, OnTheWay, NoLeakedCursor
<1> QED BY <1>1, Invariance, PTL

\* An operation starts only for a subscriber that has asked for results.
THEOREM StartsOnDemand == Spec => []Cold
<1>1. IInv => Cold
  BY DEF IInv, Wanted, Cold
<1> QED BY <1>1, Invariance, PTL

\* The subscriber is told of an error only when the operation has one.
THEOREM RealErrors == Spec => []ErrorsAreReal
<1>1. IInv => ErrorsAreReal
  BY DEF IInv, TypeOK, Stages, ErrorsAreReal
<1> QED BY <1>1, Invariance, PTL

\* After its terminal event a subscriber receives nothing more.
THEOREM Silence == Spec => NothingAfterTerminal
<1> DEFINE Quiet == terminals > 0 => UNCHANGED <<nexts, terminals, outcome>>
<1>1. IInv /\ [Next]_vars => [Quiet]_vars
  <2> SUFFICES ASSUME IInv, Next, terminals > 0
               PROVE  UNCHANGED <<nexts, terminals, outcome>>
    OBVIOUS
  <2>1. /\ pc[Driver] \notin {"sendNext", "sendError", "sendCompleted"}
        /\ \A p \in Procs : pc[p] # "catch"
    BY DEF IInv, Stages, Sending
  <2>2. Wire => UNCHANGED <<nexts, terminals, outcome>>
    BY DEF Wire, OnSubscribe, AddSubscription, SetProducer, seenVars
  <2>3. ASSUME NEW p \in Procs, Continue(p)
        PROVE  UNCHANGED <<nexts, terminals, outcome>>
    BY <2>1, <2>3 DEF Continue, RequestCheck, SubscriptionRequest, RequestCatch,
       InnerUnsubscribe, SubscriptionUnsubscribe, seenVars
  <2>4. Callback => UNCHANGED <<nexts, terminals, outcome>>
    BY <2>1 DEF Callback, OnNext, OnError, OnComplete, Guard, SendNext, SendNextThrows,
       SendError, SendCompleted, seenVars
  <2>5. Source => UNCHANGED <<nexts, terminals, outcome>>
    BY DEF Source, SourceNext, SourceComplete, SourceError, seenVars
  <2>6. ASSUME NEW t \in Threads, NEW n \in 0..MaxAsk, Ask(t, n) \/ Unsubscribe(t)
        PROVE  UNCHANGED <<nexts, terminals, outcome>>
    BY <2>6 DEF Ask, Unsubscribe, seenVars
  <2> QED BY <2>2, <2>3, <2>4, <2>5, <2>6, BridgeAssumption DEF Next
<1>2. Spec => [][Quiet]_vars
  BY <1>1, Invariance, PTL DEF Spec
<1> QED BY <1>2 DEF NothingAfterTerminal
=============================================================================
