----------------------------- MODULE Operations -----------------------------
(***************************************************************************)
(* The one-shot operations of MongoCollection, MongoDatabase, the queries  *)
(* and GridFS.  Each of them is                                            *)
(*                                                                         *)
(*   RxObservables.create(observe(callback -> wrapped.op(..., callback)))  *)
(*                                                                         *)
(* and may differ in how the callback's result becomes a sequence.  The    *)
(* Observable is cold: the server sees the operation once for every        *)
(* subscription that requests something, so subscribing again (a retry)    *)
(* runs it again.                                                          *)
(*                                                                         *)
(* Here several subscribers share ONE such Observable; the server may      *)
(* carry an operation out and the connection still fail before the answer. *)
(* The bridge of each subscription is taken at its contract (RxBridge).    *)
(***************************************************************************)
EXTENDS Integers, Sequences

CONSTANTS
    Subs,       \* subscribers of the Observable
    MaxAsk,     \* bound: results one subscriber requests
    MaxList     \* bound: results of an operation that returns a list

ASSUME OperationsAssumption == MaxAsk \in Nat /\ MaxList \in Nat

-----------------------------------------------------------------------------
(***************************************************************************)
(* What each operation's callback is given by the wrapped driver:          *)
(*   "void"      nothing; voidToSuccessCallback stands in between          *)
(*   "value"     a result that is never null                               *)
(*   "nullable"  a document, or null when nothing matched                  *)
(*   "list"      a list, flattened by observeAndFlatten                    *)
(***************************************************************************)

Count == [count |-> "value"]

Inserts == [bulkWrite |-> "value", insertOne |-> "void", insertMany |-> "void"]

Deletes == [deleteOne |-> "value", deleteMany |-> "value"]

Updates == [replaceOne |-> "value", updateOne |-> "value", updateMany |-> "value"]

FindOneAnd == [findOneAndDelete |-> "nullable", findOneAndReplace |-> "nullable",
               findOneAndUpdate |-> "nullable"]

CollectionAdmin == [dropCollection |-> "void", createIndex |-> "value"]

IndexAdmin == [dropIndex |-> "void", renameCollection |-> "void"]

CreateIndexes == [createIndexes |-> "list"]

RunCommand == [runCommand |-> "value"]

DatabaseDrop == [dropDatabase |-> "void"]

DatabaseAdmin == [createCollection |-> "void", createView |-> "void"]

First == [findFirst |-> "nullable"]

GridFSFirst == [gridFSFindFirst |-> "nullable"]

MapReduceToCollection == [mapReduceToCollection |-> "void"]

AggregateToCollection == [aggregateToCollection |-> "void"]

Uploads == [uploadFromStream |-> "value", uploadFromStreamWithId |-> "void"]

Downloads == [downloadToStream |-> "value"]

BucketAdmin == [deleteFile |-> "void", renameFile |-> "void", dropBucket |-> "void"]

UploadStream == [writeUpload |-> "value", closeUpload |-> "void", abortUpload |-> "void"]

DownloadStream == [getGridFSFile |-> "value", readDownload |-> "value",
                   closeDownload |-> "void"]

\* They are named apart, so an operation is in one of these.
Tables == { Count, Inserts, Deletes, Updates, FindOneAnd, CollectionAdmin, IndexAdmin,
            CreateIndexes, RunCommand, DatabaseDrop, DatabaseAdmin, First, GridFSFirst,
            MapReduceToCollection, AggregateToCollection, Uploads, Downloads,
            BucketAdmin, UploadStream, DownloadStream }

Table == [m \in UNION {DOMAIN t : t \in Tables} |->
              (CHOOSE t \in Tables : m \in DOMAIN t)[m]]

-----------------------------------------------------------------------------
VARIABLES
    op,         \* the method the Observable was obtained from
    phase,      \* of each subscription: "new", "subscribed", "sent", "answered"
    asked,      \* results requested
    executed,   \* times the server carried the operation out for it
    effect,     \* the results the server then had
    todo,       \* results the driver has for it and not delivered yet
    end,        \* how the sequence ends once they are: "error", "completed"
    seen,       \* results it received
    outcome,    \* its terminal event: "none", "error", "completed"
    unsubscribed

vars == <<op, phase, asked, executed, effect, todo, end, seen, outcome, unsubscribed>>

SUCCESS == 0                \* Success.SUCCESS, the only non-document
Items(n) == [i \in 1..n |-> i]

\* What the server may find for an operation of this shape.
Effects == CASE Table[op] = "void"     -> {<<>>}
             [] Table[op] = "value"    -> {Items(1)}
             [] Table[op] = "nullable" -> {<<>>, Items(1)}
             [] Table[op] = "list"     -> {Items(n) : n \in 1..MaxList}

Init ==
    /\ op \in DOMAIN Table
    /\ phase = [s \in Subs |-> "new"]
    /\ asked = [s \in Subs |-> 0]
    /\ executed = [s \in Subs |-> 0]
    /\ effect = [s \in Subs |-> <<>>]
    /\ todo = [s \in Subs |-> <<>>]
    /\ end = [s \in Subs |-> "none"]
    /\ seen = [s \in Subs |-> <<>>]
    /\ outcome = [s \in Subs |-> "none"]
    /\ unsubscribed = [s \in Subs |-> FALSE]

-----------------------------------------------------------------------------
\* mutant: the operation runs although nothing was asked for
SubscribeRuns(s) ==
    /\ phase[s] = "new"
    /\ phase' = [phase EXCEPT ![s] = "sent"]
    /\ UNCHANGED <<op, asked, executed, effect, todo, end, seen, outcome, unsubscribed>>

\* Observable.subscribe(s): nothing is sent yet.
Subscribe(s) ==
    /\ phase[s] = "new"
    /\ phase' = [phase EXCEPT ![s] = "subscribed"]
    /\ UNCHANGED <<op, asked, executed, effect, todo, end, seen, outcome, unsubscribed>>

\* mutant: an exception of the Block is swallowed
RequestSwallows(s, n) ==
    /\ phase[s] # "new"
    /\ ~unsubscribed[s]
    /\ asked[s] + n <= MaxAsk
    /\ asked' = [asked EXCEPT ![s] = @ + n]
    /\ \/ UNCHANGED phase
       \/ phase[s] = "subscribed" /\ phase' = [phase EXCEPT ![s] = "sent"]
    /\ UNCHANGED <<op, executed, effect, todo, end, seen, outcome, unsubscribed>>

\* The first request runs the Block: wrapped.op(..., callback).  It throws
\* when the driver refuses the operation outright (a closed client, an
\* argument it does not accept); the bridge reports that.
Request(s, n) ==
    /\ phase[s] # "new"
    /\ ~unsubscribed[s]
    /\ asked[s] + n <= MaxAsk
    /\ asked' = [asked EXCEPT ![s] = @ + n]
    /\ IF phase[s] # "subscribed"
       THEN UNCHANGED <<phase, end>>
       ELSE \/ phase' = [phase EXCEPT ![s] = "sent"] /\ UNCHANGED end
            \/ /\ phase' = [phase EXCEPT ![s] = "answered"]
               /\ end' = [end EXCEPT ![s] = "error"]
    /\ UNCHANGED <<op, executed, effect, todo, seen, outcome, unsubscribed>>

\* The server carries the operation out.
Execute(s) ==
    /\ phase[s] = "sent"
    /\ executed[s] = 0
    /\ executed' = [executed EXCEPT ![s] = 1]
    /\ \E e \in Effects : effect' = [effect EXCEPT ![s] = e]
    /\ UNCHANGED <<op, phase, asked, todo, end, seen, outcome, unsubscribed>>

\* What the wrapped driver passes to its callback: the result, null when
\* there is none, or an error.
Raw(s, failed) == [ null  |-> failed \/ effect[s] = <<>>,
                    items |-> IF failed THEN <<>> ELSE effect[s],
                    error |-> failed ]

\* mutant: the error is not passed on
VoidToSuccessDropsError(raw) == [null |-> FALSE, items |-> <<SUCCESS>>, error |-> FALSE]

\* mutant: null is passed on as if it were a result
VoidToSuccessNullResult(raw) == [raw EXCEPT !.null = FALSE, !.items = <<-1>>]

\* mutant: null is passed on as it is
VoidToSuccessKeepsNull(raw) == raw

\* voidToSuccessCallback: callback.onResult(Success.SUCCESS, t), whatever t is.
VoidToSuccess(raw) == [raw EXCEPT !.null = FALSE, !.items = <<SUCCESS>>]

Reply(s, failed) == IF Table[op] = "void" THEN VoidToSuccess(Raw(s, failed)) ELSE Raw(s, failed)

\* The driver's subscription turns the callback's arguments into a sequence:
\* an error goes before any result, a null result is an empty sequence.  A
\* connection may fail after the server has carried the operation out.
Answer(s) ==
    /\ phase[s] = "sent"
    /\ \E failed \in BOOLEAN :
        /\ ~failed => executed[s] = 1
        /\ LET reply == Reply(s, failed)
           IN  /\ end' = [end EXCEPT ![s] = IF reply.error THEN "error" ELSE "completed"]
               /\ todo' = [todo EXCEPT ![s] =
                              IF reply.error \/ reply.null THEN <<>> ELSE reply.items]
    /\ phase' = [phase EXCEPT ![s] = "answered"]
    /\ UNCHANGED <<op, asked, executed, effect, seen, outcome, unsubscribed>>

\* Deliveries, through the bridge: results as requested, then the end.  The
\* one call that may cross with an unsubscribe is modelled in RxBridge.
DeliverNext(s) ==
    /\ phase[s] = "answered"
    /\ ~unsubscribed[s]
    /\ todo[s] # <<>>
    /\ Len(seen[s]) < asked[s]
    /\ seen' = [seen EXCEPT ![s] = Append(@, Head(todo[s]))]
    /\ todo' = [todo EXCEPT ![s] = Tail(@)]
    /\ UNCHANGED <<op, phase, asked, executed, effect, end, outcome, unsubscribed>>

DeliverEnd(s) ==
    /\ phase[s] = "answered"
    /\ ~unsubscribed[s]
    /\ todo[s] = <<>>
    /\ outcome[s] = "none"
    /\ outcome' = [outcome EXCEPT ![s] = end[s]]
    /\ unsubscribed' = [unsubscribed EXCEPT ![s] = TRUE]
    /\ UNCHANGED <<op, phase, asked, executed, effect, todo, end, seen>>

\* Unsubscribing stops the deliveries; an operation already sent goes on.
Unsubscribe(s) ==
    /\ phase[s] # "new"
    /\ ~unsubscribed[s]
    /\ unsubscribed' = [unsubscribed EXCEPT ![s] = TRUE]
    /\ UNCHANGED <<op, phase, asked, executed, effect, todo, end, seen, outcome>>

-----------------------------------------------------------------------------
Driver(s) == Answer(s) \/ DeliverNext(s) \/ DeliverEnd(s)

Next ==
    \E s \in Subs :
        \/ Subscribe(s)
        \/ \E n \in 1..MaxAsk : Request(s, n)
        \/ Execute(s)
        \/ Driver(s)
        \/ Unsubscribe(s)

Spec == Init /\ [][Next]_vars

\* The driver answers every operation it has sent, if only with an error (its
\* timeouts), and delivers what was requested.
Fairness == \A s \in Subs : WF_vars(Driver(s))

FairSpec == Spec /\ Fairness

-----------------------------------------------------------------------------
TypeOK ==
    /\ op \in DOMAIN Table
    /\ phase \in [Subs -> {"new", "subscribed", "sent", "answered"}]
    /\ asked \in [Subs -> Nat]
    /\ executed \in [Subs -> {0, 1}]
    /\ effect \in [Subs -> Seq(Nat)]
    /\ todo \in [Subs -> Seq(Nat)]
    /\ end \in [Subs -> {"none", "error", "completed"}]
    /\ seen \in [Subs -> Seq(Nat)]
    /\ outcome \in [Subs -> {"none", "error", "completed"}]
    /\ unsubscribed \in [Subs -> BOOLEAN]

\* A subscriber is told that the operation succeeded - by onCompleted or by
\* any result - only when the server carried it out for THIS subscription;
\* the SUCCESS of a void operation is never made up for a failed one.
SuccessIsReal ==
    \A s \in Subs : outcome[s] = "completed" \/ seen[s] # <<>> => executed[s] = 1

\* What a completed subscriber has seen is what the server had: SUCCESS for
\* a void operation, nothing when nothing matched, every element of a list.
Expected(s) == IF Table[op] = "void" THEN <<SUCCESS>> ELSE effect[s]

CompleteAnswer ==
    \A s \in Subs : outcome[s] = "completed" => seen[s] = Expected(s)

\* Each subscription is an Observable of its own, with the one contract of the
\* bridge: the server carries the operation out once for it and only when it
\* asked for something, no matter what the others ask for, receive or refuse.
Contract(s) == INSTANCE ObservableContract WITH
                   MaxLong    <- MaxAsk,
                   Prefetches <- FALSE,
                   Results    <- Nat,
                   asked      <- asked[s],
                   cancelled  <- unsubscribed[s],
                   started    <- executed[s] = 1,
                   total      <- IF executed[s] = 1 THEN Len(Expected(s)) ELSE 0,
                   nexts      <- Len(seen[s]),
                   outcome    <- outcome[s],
                   late       <- 0

SubscriptionsKeepContract ==
    /\ \A s \in Subs : Contract(s)!Init
    /\ [][\A s \in Subs : [Contract(s)!Next]_(Contract(s)!vars)]_vars

\* Whoever requests enough gets an answer, whatever the others do.
EveryRequestIsAnswered ==
    \A s \in Subs : asked[s] = MaxAsk ~> outcome[s] # "none" \/ unsubscribed[s]
=============================================================================
