------------------------ MODULE ClientLifecycleProofs ------------------------
(***************************************************************************)
(* Closing, for every number of clients, handles and subscriptions.        *)
(*                                                                         *)
(* What close promises to an operation depends on when the operation was   *)
(* asked for.  The invariant therefore follows a subscription: it has not  *)
(* asked yet and has nothing, it is running, or it is over and frozen as   *)
(* it ended.  A subscription that asked late went from the first of these  *)
(* to the last in one step, because a client somebody has closed is closed *)
(* for good.                                                               *)
(***************************************************************************)
EXTENDS ClientLifecycle, TLAPS

\* The driver's own view of a client agrees with who called close.
ClosedForGood == \A c \in Clients : state[c] = "closed" <=> c \in ended

\* A subscription with nothing asked for has nothing.
Untouched(s) ==
    stage[s] \in {"none", "subscribed"} =>
        received[s] = 0 /\ ~underway[s] /\ outcome[s] = "none" /\ s \notin late

Running(s) ==
    /\ underway[s] => stage[s] = "running"
    /\ stage[s] = "running" => outcome[s] = "none" /\ s \notin late

\* How a subscription may have ended.
Over(s) ==
    /\ s \in late => received[s] = 0 /\ outcome[s] \in {"none", "closed"}
    /\ outcome[s] = "closed" => Ended(s)
    /\ outcome[s] = "completed" => received[s] = rounds[s]

LInv ==
    /\ TypeOK
    /\ ClosedForGood
    /\ \A s \in Subs : Untouched(s) /\ Running(s) /\ Over(s)

-----------------------------------------------------------------------------
\* The driver's view and the history of close calls say the same of a
\* subscription's client.
LEMMA ClosedIsEnded ==
    ASSUME TypeOK, ClosedForGood, NEW s \in Subs
    PROVE  Closed(s) <=> Ended(s)
BY DEF TypeOK, ClosedForGood, Closed, Ended

LEMMA InitLInv == Init => LInv
<1> SUFFICES ASSUME Init PROVE LInv
  OBVIOUS
<1>1. TypeOK
  BY LifecycleAssumption DEF Init, TypeOK
<1>2. ClosedForGood
  BY DEF Init, ClosedForGood
<1>3. \A s \in Subs : Untouched(s) /\ Running(s) /\ Over(s)
  BY DEF Init, Untouched, Running, Over
<1> QED BY <1>1, <1>2, <1>3 DEF LInv

-----------------------------------------------------------------------------
(***************************************************************************)
(* Steps that leave the subscriptions alone.                               *)
(***************************************************************************)

\* A step that only adds to ended keeps what is true of the subscriptions.
LEMMA SubscriptionsKept ==
    ASSUME LInv, UNCHANGED operationVars, ended \subseteq ended'
    PROVE  \A s \in Subs : Untouched(s)' /\ Running(s)' /\ Over(s)'
BY DEF LInv, Untouched, Running, Over, Ended, operationVars

LEMMA CreateKeeps == LInv /\ Create => LInv'
<1> SUFFICES ASSUME LInv, Create PROVE LInv'
  OBVIOUS
<1>1. ended' = ended /\ UNCHANGED operationVars
  BY DEF Create, CreateAsync, CreateWithoutAdapter, CreateFromSettings, CreateShared
<1>2. \A s \in Subs : Untouched(s)' /\ Running(s)' /\ Over(s)'
  BY <1>1, SubscriptionsKept
<1>3. TypeOK' /\ ClosedForGood'
  <2>1. CASE \E c \in Clients : CreateAsync(c) \/ CreateWithoutAdapter(c)
    BY <2>1 DEF LInv, CreateAsync, CreateWithoutAdapter, NewDriverClient, TypeOK,
                ClosedForGood, operationVars
  <2>2. CASE \E h \in Handles, c \in Clients : CreateFromSettings(h, c)
    BY <2>2 DEF LInv, CreateFromSettings, NewDriverClient, NewMongoClient, TypeOK,
                ClosedForGood, operationVars
  <2>3. CASE \E h \in Handles, c \in Clients : CreateShared(h, c)
    BY <2>3 DEF LInv, CreateShared, NewMongoClient, TypeOK, ClosedForGood, operationVars
  <2> QED BY <2>1, <2>2, <2>3 DEF Create
<1> QED BY <1>2, <1>3 DEF LInv

LEMMA CloseKeeps == ASSUME NEW c \in Clients PROVE LInv /\ CloseDriver(c) => LInv'
<1> SUFFICES ASSUME LInv, CloseDriver(c) PROVE LInv'
  OBVIOUS
<1>1. \A s \in Subs : Untouched(s)' /\ Running(s)' /\ Over(s)'
  BY SubscriptionsKept DEF CloseDriver
<1>2. TypeOK' /\ ClosedForGood'
  BY DEF LInv, CloseDriver, TypeOK, ClosedForGood, operationVars
<1> QED BY <1>1, <1>2 DEF LInv

-----------------------------------------------------------------------------
(***************************************************************************)
(* Steps of one subscription: the others and the clients stay.             *)
(***************************************************************************)
LEMMA SubscriptionKeeps ==
    ASSUME NEW s \in Subs,
           \/ \E h \in Handles : Subscribe(s, h)
           \/ Request(s) \/ Driver(s) \/ Unsubscribe(s),
           LInv
    PROVE  LInv'
<1> USE DEF LInv
<1>1. UNCHANGED clientVars
  BY DEF Subscribe, Request, Driver, Answered, RoundFails, NextBatch, OnComplete, Unsubscribe
<1>2. ClosedForGood'
  BY <1>1 DEF ClosedForGood, clientVars
<1>3. Closed(s) <=> Ended(s)
  BY ClosedIsEnded
<1>4. ASSUME NEW h \in Handles, Subscribe(s, h) PROVE LInv'
  <2>1. TypeOK'
    BY <1>4 DEF Subscribe, TypeOK, clientVars
  <2>2. \A r \in Subs : Untouched(r)' /\ Running(r)' /\ Over(r)'
    BY <1>4 DEF Subscribe, TypeOK, clientVars, Untouched, Running, Over, Ended
  <2> QED BY <2>1, <2>2, <1>2
<1>5. ASSUME Request(s) PROVE LInv'
  <2>1. TypeOK'
    BY <1>5 DEF Request, Send, OnError, Tell, MarkLate, TypeOK, clientVars
  <2>2. \A r \in Subs : Untouched(r)' /\ Running(r)' /\ Over(r)'
    <3>1. CASE Send(s)
      BY <1>3, <1>5, <3>1 DEF Request, Send, MarkLate, TypeOK, clientVars, Untouched, Running,
                       Over, Ended
    <3>2. CASE Closed(s) /\ OnError(s, "closed")
      BY <1>3, <1>5, <3>2 DEF Request, OnError, Tell, MarkLate, TypeOK, clientVars, Untouched,
                       Running, Over, Ended
    <3>3. CASE ~Closed(s) /\ OnError(s, "failed")
      BY <1>3, <1>5, <3>3 DEF Request, OnError, Tell, MarkLate, TypeOK, clientVars, Untouched,
                       Running, Over, Ended
    <3> QED BY <1>5, <3>1, <3>2, <3>3 DEF Request
  <2> QED BY <2>1, <2>2, <1>2
<1>6. ASSUME Answered(s) PROVE LInv'
  <2>1. TypeOK'
    BY <1>6 DEF Answered, TypeOK, clientVars
  <2>2. \A r \in Subs : Untouched(r)' /\ Running(r)' /\ Over(r)'
    BY <1>6 DEF Answered, TypeOK, clientVars, Untouched, Running, Over, Ended
  <2> QED BY <2>1, <2>2, <1>2
<1>7. ASSUME RoundFails(s) PROVE LInv'
  <2>1. TypeOK'
    BY <1>7 DEF RoundFails, OnError, Tell, TypeOK, clientVars
  <2>2. \A r \in Subs : Untouched(r)' /\ Running(r)' /\ Over(r)'
    BY <1>3, <1>7 DEF RoundFails, OnError, Tell, TypeOK, clientVars, Untouched, Running,
                      Over, Ended
  <2> QED BY <2>1, <2>2, <1>2
<1>8. ASSUME NextBatch(s) PROVE LInv'
  <2>1. TypeOK'
    BY <1>8 DEF NextBatch, Send, OnError, Tell, TypeOK, clientVars
  <2>2. \A r \in Subs : Untouched(r)' /\ Running(r)' /\ Over(r)'
    BY <1>3, <1>8 DEF NextBatch, More, Send, OnError, Tell, TypeOK, clientVars, Untouched,
                      Running, Over, Ended
  <2> QED BY <2>1, <2>2, <1>2
<1>9. ASSUME OnComplete(s) PROVE LInv'
  <2>1. TypeOK'
    BY <1>9 DEF OnComplete, Tell, TypeOK, clientVars
  <2>2. \A r \in Subs : Untouched(r)' /\ Running(r)' /\ Over(r)'
    BY <1>9 DEF OnComplete, Tell, TypeOK, clientVars, Untouched, Running, Over, Ended
  <2> QED BY <2>1, <2>2, <1>2
<1>10. ASSUME Unsubscribe(s) PROVE LInv'
  <2>1. TypeOK'
    BY <1>10 DEF Unsubscribe, TypeOK, clientVars, operationVars
  <2>2. \A r \in Subs : Untouched(r)' /\ Running(r)' /\ Over(r)'
    BY <1>10, SubscriptionsKept DEF Unsubscribe, clientVars
  <2> QED BY <2>1, <2>2, <1>2
<1> QED BY <1>4, <1>5, <1>6, <1>7, <1>8, <1>9, <1>10 DEF Driver

-----------------------------------------------------------------------------
(***************************************************************************)
(* The invariant, and what follows from it.                                *)
(***************************************************************************)

\* LInv holds of MongoClients, its clients and their subscriptions.
THEOREM LifecycleInvariance == Spec => []LInv
<1>1. LInv /\ [Next]_vars => LInv'
  <2> SUFFICES ASSUME LInv, [Next]_vars PROVE LInv'
    OBVIOUS
  <2>1. CASE Create
    BY <2>1, CreateKeeps
  <2>2. CASE \E h \in Handles : Close(h)
    <3>1. PICK h \in Handles : Close(h)
      BY <2>2
    <3>2. PICK c \in wrapped[h] : CloseDriver(c)
      BY <3>1 DEF Close
    <3>3. c \in Clients
      BY DEF LInv, TypeOK
    <3> QED BY <3>2, <3>3, CloseKeeps
  <2>3. CASE \E c \in Clients : CloseAsync(c)
    BY <2>3, CloseKeeps DEF CloseAsync
  <2>4. CASE \E s \in Subs : \/ \E h \in Handles : Subscribe(s, h)
                             \/ Request(s) \/ Driver(s) \/ Unsubscribe(s)
    BY <2>4, SubscriptionKeeps
  <2>5. CASE UNCHANGED vars
    BY <2>5 DEF LInv, TypeOK, ClosedForGood, Untouched, Running, Over, Ended, vars,
                clientVars, operationVars
  <2> QED BY <2>1, <2>2, <2>3, <2>4, <2>5 DEF Next
<1> QED BY InitLInv, <1>1, PTL DEF Spec

\* The variables keep their types.
THEOREM LifecycleTypes == Spec => []TypeOK
<1>1. LInv => TypeOK
  BY DEF LInv
<1> QED BY LifecycleInvariance, <1>1, PTL

\* MongoClientImpl.close, on any handle of the same driver client: an
\* operation asked for afterwards delivers nothing and ends, if anybody is
\* told, by saying that the client is closed; nobody else is told so.
THEOREM CloseReaches == Spec => []CloseReachesItsUsers
<1>1. LInv => CloseReachesItsUsers
  BY DEF LInv, Over, CloseReachesItsUsers
<1> QED BY LifecycleInvariance, <1>1, PTL

\* A query completes with all its rounds, whatever is closed meanwhile.
THEOREM NoTruncation == Spec => []NoTruncatedCompletion
<1>1. LInv => NoTruncatedCompletion
  BY DEF LInv, Over, NoTruncatedCompletion
<1> QED BY LifecycleInvariance, <1>1, PTL
=============================================================================
