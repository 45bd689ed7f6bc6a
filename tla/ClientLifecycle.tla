--------------------------- MODULE ClientLifecycle ---------------------------
(***************************************************************************)
(* MongoClients and MongoClientImpl: how clients come to be, how they are  *)
(* closed, and what that does to operations.                               *)
(*                                                                         *)
(* A client of this API is a handle around a client of the callback        *)
(* driver, which owns the connections and the monitor threads.  create     *)
(* makes a driver client of its own, or is given one that the application  *)
(* keeps using: close, by either API, closes the driver client for both.   *)
(* Databases, collections and queries hold the driver's objects, not the   *)
(* handle, so a subscription may be made, may ask for results and may be   *)
(* in the middle of a cursor when its client is closed.                    *)
(*                                                                         *)
(* An operation takes one round to the server (a one-shot operation) or    *)
(* several (a cursor and its batches).  A round that is under way when the *)
(* client is closed may still succeed; a later one is refused.             *)
(***************************************************************************)
EXTENDS Integers

CONSTANTS
    Clients,    \* clients of the callback driver
    Handles,    \* clients of this API
    Subs,       \* subscriptions to Observables of any handle's objects
    MaxRounds   \* bound: rounds of one operation

ASSUME LifecycleAssumption == MaxRounds \in Nat \ {0}

VARIABLES
    state,          \* of each driver client: "none", "open" or "closed"
    owned,          \* driver clients the application made and keeps
    wrapped,        \* the driver client of each handle, as a set of at most one
    \* ---- subscriptions
    source,         \* the driver client a subscription's operation runs on
    stage,          \* "none", "subscribed", "running", "over"
    rounds,         \* rounds its operation takes
    received,       \* rounds whose results were delivered
    underway,       \* a round has been sent to the server
    unsubscribed,
    outcome,        \* "none", "completed", "failed", or "closed": its client was
    \* ---- history
    ended,          \* driver clients somebody called close for
    late            \* operations requested after that

clientVars == <<state, owned, wrapped, ended>>
operationVars == <<source, stage, rounds, received, underway, outcome, late>>
vars == <<clientVars, operationVars, unsubscribed>>

Init ==
    /\ state = [c \in Clients |-> "none"]
    /\ owned = {} /\ ended = {}
    /\ wrapped = [h \in Handles |-> {}]
    /\ source = [s \in Subs |-> {}]
    /\ stage = [s \in Subs |-> "none"]
    /\ rounds \in [Subs -> 1..MaxRounds]
    /\ received = [s \in Subs |-> 0]
    /\ underway = [s \in Subs |-> FALSE]
    /\ unsubscribed = [s \in Subs |-> FALSE]
    /\ outcome = [s \in Subs |-> "none"]
    /\ late = {}

-----------------------------------------------------------------------------
(***************************************************************************)
(* Creating and closing.                                                   *)
(***************************************************************************)

\* com.mongodb.async.client.MongoClients.create (external): the driver client
\* starts to monitor its servers.
NewDriverClient(c) ==
    /\ state[c] = "none"
    /\ state' = [state EXCEPT ![c] = "open"]

\* The application makes one of its own.
CreateAsync(c) ==
    /\ NewDriverClient(c)
    /\ owned' = owned \cup {c}
    /\ UNCHANGED <<wrapped, ended, operationVars, unsubscribed>>

\* The MongoClientImpl constructor.
NewMongoClient(h, c) ==
    /\ wrapped[h] = {}
    /\ wrapped' = [wrapped EXCEPT ![h] = {c}]

\* create(settings or connection string, adapter)
CreateFromSettings(h, c) ==
    /\ NewDriverClient(c)
    /\ NewMongoClient(h, c)
    /\ UNCHANGED <<owned, ended, operationVars, unsubscribed>>

\* ... and the adapter is null.  The driver client is made first, as an
\* argument of the call whose constructor then throws.
CreateWithoutAdapter(c) ==
    /\ NewDriverClient(c)
    /\ UNCHANGED <<owned, wrapped, ended, operationVars, unsubscribed>>

\* create(asyncMongoClient)
CreateShared(h, c) ==
    /\ c \in owned
    /\ NewMongoClient(h, c)
    /\ UNCHANGED <<state, owned, ended, operationVars, unsubscribed>>

\* The driver's close (external).
CloseDriver(c) ==
    /\ state[c] # "none"
    /\ state' = [state EXCEPT ![c] = "closed"]
    /\ ended' = ended \cup {c}
    /\ UNCHANGED <<owned, wrapped, operationVars, unsubscribed>>

\* mutant: a handle leaves a driver client alone that it was given
CloseOwnOnly(h) ==
    /\ wrapped[h] # {}
    /\ state' = [c \in Clients |-> IF c \in wrapped[h] \ owned THEN "closed" ELSE state[c]]
    /\ ended' = ended \cup wrapped[h]
    /\ UNCHANGED <<owned, wrapped, operationVars, unsubscribed>>

\* MongoClientImpl.close: wrapped.close()
Close(h) == \E c \in wrapped[h] : CloseDriver(c)

CloseAsync(c) == c \in owned /\ CloseDriver(c)

-----------------------------------------------------------------------------
(***************************************************************************)
(* Operations.                                                             *)
(***************************************************************************)

\* Neither deriving objects from a handle, closed or not, nor subscribing to
\* their Observables asks anything of the driver client.
Subscribe(s, h) ==
    /\ stage[s] = "none"
    /\ wrapped[h] # {}
    /\ source' = [source EXCEPT ![s] = wrapped[h]]
    /\ stage' = [stage EXCEPT ![s] = "subscribed"]
    /\ UNCHANGED <<clientVars, rounds, received, underway, unsubscribed, outcome, late>>

Closed(s) == \E c \in source[s] : state[c] = "closed"
Ended(s)  == source[s] \cap ended # {}

\* What the subscriber is told at the end, if it is still there.
Tell(s, what) ==
    /\ stage' = [stage EXCEPT ![s] = "over"]
    /\ underway' = [underway EXCEPT ![s] = FALSE]
    /\ outcome' = IF unsubscribed[s] THEN outcome ELSE [outcome EXCEPT ![s] = what]
    /\ UNCHANGED <<source, rounds>>

\* mutant: the Observer's onError ends the sequence like onComplete
OnErrorCompletes(s, why) == Tell(s, "completed")

\* mutant: the Observer passes null on instead of the error
OnErrorPassesNull(s, why) == Tell(s, "null")

OnError(s, why) == Tell(s, why)

\* A round is refused by a closed client, or sent to the server.
Send(s) ==
    /\ ~Closed(s)
    /\ underway' = [underway EXCEPT ![s] = TRUE]
    /\ stage' = [stage EXCEPT ![s] = "running"]
    /\ UNCHANGED <<source, rounds, outcome>>

MarkLate(s) == late' = IF Ended(s) THEN late \cup {s} ELSE late

\* mutant: an exception of the driver is swallowed
RequestSwallows(s) ==
    /\ stage[s] = "subscribed" /\ ~unsubscribed[s]
    /\ \/ Send(s)
       \/ stage' = [stage EXCEPT ![s] = "over"]
          /\ UNCHANGED <<source, rounds, underway, outcome>>
    /\ MarkLate(s)
    /\ UNCHANGED <<clientVars, received, unsubscribed>>

\* The first request starts the operation.  The driver throws when its client
\* is closed, or when it refuses the operation; the catch makes that onError.
Request(s) ==
    /\ stage[s] = "subscribed" /\ ~unsubscribed[s]
    /\ \/ Send(s)
       \/ Closed(s) /\ OnError(s, "closed")
       \/ ~Closed(s) /\ OnError(s, "failed")
    /\ MarkLate(s)
    /\ UNCHANGED <<clientVars, received, unsubscribed>>

\* The answer of the server to the round under way, and its delivery.
Answered(s) ==
    /\ underway[s]
    /\ underway' = [underway EXCEPT ![s] = FALSE]
    /\ received' = IF unsubscribed[s] THEN received ELSE [received EXCEPT ![s] = @ + 1]
    /\ UNCHANGED <<clientVars, source, stage, rounds, unsubscribed, outcome, late>>

\* Instead: the connection fails, or is closed with its client.
RoundFails(s) ==
    /\ underway[s]
    /\ OnError(s, IF Closed(s) THEN "closed" ELSE "failed")
    /\ UNCHANGED <<clientVars, received, unsubscribed, late>>

\* The next batch of a cursor.  A batch has been delivered: the subscriber has
\* asked for more, or the cursor waits.
More(s) == stage[s] = "running" /\ ~underway[s] /\ received[s] < rounds[s] /\ ~unsubscribed[s]

NextBatch(s) ==
    /\ More(s)
    /\ \/ Send(s)
       \/ Closed(s) /\ OnError(s, "closed")
    /\ UNCHANGED <<clientVars, received, unsubscribed, late>>

OnComplete(s) ==
    /\ stage[s] = "running"
    /\ received[s] = rounds[s]
    /\ Tell(s, "completed")
    /\ UNCHANGED <<clientVars, received, unsubscribed, late>>

Unsubscribe(s) ==
    /\ source[s] # {} /\ ~unsubscribed[s]
    /\ unsubscribed' = [unsubscribed EXCEPT ![s] = TRUE]
    /\ UNCHANGED <<clientVars, operationVars>>

-----------------------------------------------------------------------------
Create ==
    \/ \E c \in Clients : CreateAsync(c) \/ CreateWithoutAdapter(c)
    \/ \E h \in Handles, c \in Clients : CreateFromSettings(h, c) \/ CreateShared(h, c)

\* What the driver does by itself.
Driver(s) == Answered(s) \/ RoundFails(s) \/ NextBatch(s) \/ OnComplete(s)

Next ==
    \/ Create
    \/ \E h \in Handles : Close(h)
    \/ \E c \in Clients : CloseAsync(c)
    \/ \E s \in Subs : \/ \E h \in Handles : Subscribe(s, h)
                       \/ Request(s) \/ Driver(s) \/ Unsubscribe(s)

Spec == Init /\ [][Next]_vars

\* The driver answers a round (its timeouts, when the server does not) and
\* goes on.  Subscribers ask for everything.  Nobody has to subscribe, to
\* create or to close.
Fairness == \A s \in Subs : WF_vars(Request(s)) /\ WF_vars(Driver(s))

FairSpec == Spec /\ Fairness

-----------------------------------------------------------------------------
TypeOK ==
    /\ state \in [Clients -> {"none", "open", "closed"}]
    /\ owned \subseteq Clients /\ ended \subseteq Clients
    /\ wrapped \in [Handles -> SUBSET Clients]
    /\ source \in [Subs -> SUBSET Clients]
    /\ stage \in [Subs -> {"none", "subscribed", "running", "over"}]
    /\ rounds \in [Subs -> Nat] /\ received \in [Subs -> Nat]
    /\ underway \in [Subs -> BOOLEAN] /\ unsubscribed \in [Subs -> BOOLEAN]
    /\ outcome \in [Subs -> {"none", "completed", "failed", "closed"}]
    /\ late \subseteq Subs

\* "Calling close from either API will close the client": an operation that
\* is asked for afterwards yields nothing, through whichever handle or derived
\* object it goes, and its subscriber is told that the client is closed.  And
\* nobody else is told so: two clients have nothing in common.
CloseReachesItsUsers ==
    \A s \in Subs :
        /\ s \in late => received[s] = 0 /\ outcome[s] \in {"none", "closed"}
        /\ outcome[s] = "closed" => Ended(s)

\* A query whose client is closed between two batches does not look complete.
NoTruncatedCompletion ==
    \A s \in Subs : outcome[s] = "completed" => received[s] = rounds[s]

\* Closing does not leave a subscriber without an answer: whoever asked gets
\* one or has unsubscribed, whenever its client is closed.
EveryRequestIsAnswered ==
    \A s \in Subs : stage[s] = "subscribed" ~> outcome[s] # "none" \/ unsubscribed[s]

\* MongoClient: its instances "are responsible for maintaining" the cluster's
\* threads and pools, and close them.  So a driver client that is open belongs
\* to a handle, or to the application itself.
NoOrphanedClient ==
    \A c \in Clients : state[c] = "open" => c \in owned \/ \E h \in Handles : c \in wrapped[h]
=============================================================================
