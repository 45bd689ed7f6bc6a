# Verification of the MongoDB RxJava driver

This directory holds TLA+ models of `mongo-java-driver-rx`, the configurations
that model-check them with TLC, and proofs checked by TLAPS. Source files are
named relative to `driver/src/main/com/mongodb/rx/client/`.

The driver is a thin layer: it turns the callback API of
`com.mongodb.async.client` (a jar) into `rx.Observable`s. Little of it is
computation. What can go wrong is what happens *between* its lines: the
application's threads, the thread that subscribes and the driver's callback
threads run through the same code without a lock.

## 1. Inventory

| part | state | operations | talks to |
|---|---|---|---|
| **Bridge** `internal/RxObservables.java` | field `subscription`, an `AtomicBoolean` for unsubscribe; one bridge per subscription | constructor (`onSubscribe`, `add`, `setProducer`), `request`, `onNext`, `onError`, `onComplete`, `unsubscribe` | the driver's `Subscription`, the `rx.Subscriber` |
| **One-shot operations** `MongoCollectionImpl`, `MongoDatabaseImpl`, `GridFSBucketImpl`, `GridFS*StreamImpl`, `first`/`toCollection` of the queries, `ObservableHelper` | none: the arguments captured by a `Block` | run at the first request of each subscription | the bridge; the driver's method with a `SingleResultCallback` |
| **Handles** `MongoClients`, `MongoClientImpl`, `MongoDatabaseImpl`, `MongoCollectionImpl`, `GridFSBucketImpl`, `GridFSBuckets` | immutable: wrapped object, `ObservableAdapter` | `with...`, `getDatabase`, `getCollection`, `create` | the driver's immutable handles |
| **Fluent queries** `FindObservableImpl`, `AggregateObservableImpl`, `MapReduceObservableImpl`, `DistinctObservableImpl`, `List*ObservableImpl`, `GridFSFindObservableImpl` | mutable options, kept in the wrapped iterable | setters that return `this`, `toObservable`, `subscribe` | the bridge, at `toObservable` |
| **Stream conversions** `internal/GridFSAsyncStreamHelper.java` | per call: the last result received | callback stream to Observable stream and back | application streams, the driver's GridFS loops |
| **GridFS transfers** | inside the driver: the upload or download loop | `uploadFromStream`, `downloadToStream`, `write`, `close`, `abort` | stream conversions, bridge |
| **Adapters** `ObservableAdapter`, `NoopObservableAdapter` | none | `adapt`, e.g. `observeOn` | every Observable handed out |
| **Client lifecycle** | the driver's client, possibly shared with another API | `create`, `close` | everything |
| driver information, interfaces, examples, tests, documentation | no behaviour of interest | | |

What is hard, and what correctness means there:

- *Bridge.* `isSubscribed()` and the call it guards are two steps; the `catch`
  in `request` reports an error without asking; the subscriber may unsubscribe
  before it is wired. Correct means: Rx's protocol (results, then at most one
  terminal event), no more results than requested, no request lost, no result
  missing from a completed sequence, the cursor closed exactly once, start
  failures reported, nothing executed before a request.
- *One-shot operations.* A void operation reports `SUCCESS` even with an error
  next to it; `null` means an empty sequence; the connection may fail after the
  server acted. Correct means: no success that did not happen, and the whole
  answer.
- *Handles and queries.* Handles are shared and immutable, queries shared and
  mutable; the adapter is passed on by hand. Correct means: an object depends on
  its own chain of calls and on nothing else.
- *Streams.* Calls overlap, Observables of the application may misbehave.
  Correct means: every call is answered once, with its own result.
- *Transfers.* The loop between two streams is not told of an unsubscribe, may
  fail at either end, and shares the application's stream with every other
  subscription. Correct means: a stored file is what its loop read, success is
  reported for whole transfers only, a destination never has a gap.
- *Adapters.* Results change threads behind a bounded queue, and the operator
  there requests and unsubscribes on the application's behalf. Correct means:
  no overflow, the driver's order, the same contract, unsubscribes get through.
- *Lifecycle.* A client may be shared and is closed by either API at any time.
  Correct means: closing reaches all its users and nobody else, no query looks
  complete because it was cut, everybody who asked is answered.

`PROJECT.json` lists each hazard with its line and the properties aimed at it.

## 2. Modules

| module | models |
|---|---|
| `RxBridge` | the bridge: one program counter per process, one action per step that other threads can observe |
| `ObservableContract` | abstract: what an application may rely on, in terms of what it did (`asked`, `cancelled`) and saw (`nexts`, `outcome`) only |
| `MCRxBridge` | instances for TLC, the contract with its liveness |
| `RxBridgeProofs`, `DemandProofs` | the inductive invariants and the theorems about the bridge; the demand balance; the instance of `ObservableContract` it implements |
| `AdaptedDelivery`, `MCAdaptedDelivery` | the bridge composed with `observeOn` (queue, Worker thread, refill requests) and the application behind it |
| `AdaptedDeliveryProofs` | the composition refines the bridge; its invariant and theorems; the instance of `ObservableContract` the application sees |
| `Operations` | one-shot operations: table of result shapes, several subscribers of one Observable, server, failing connection; each subscriber an instance of `ObservableContract` |
| `FluentQueries` | handles and queries over a heap of wrapped objects |
| `CallbackStreams` | the stream conversions and their composition |
| `TransferContract` | abstract: what an application may rely on when transfers share a stream, in terms of bytes, files and outcomes only |
| `GridFSTransfer` | uploads and downloads: the driver's loops over `CallbackStreams`; the instance of `TransferContract` they implement |
| `ClientLifecycle` | creating, sharing and closing clients against running operations |
| `OperationsProofs`, `FluentQueriesProofs`, `CallbackStreamsProofs`, `GridFSTransferProofs`, `ClientLifecycleProofs` | the inductive invariant of each and the theorems about it |

### RxBridge

A process is an application thread, the `Wirer` (the thread in `subscribe`) or
the `Driver` (the driver's deliveries, which it serialises). `pc` says where each
is:

| code (`RxObservables.java`) | action |
|---|---|
| 49 `subscription = s` | `OnSubscribe` |
| 50 `rxSubscriber.add` | `AddSubscription` |
| 87 `setProducer` | `SetProducer` |
| 92-95 of `request` | `RequestCheck` |
| 97 `subscription.request(n)` | `SubscriptionRequest` |
| 99 `rxSubscriber.onError(t)` in the catch | `RequestCatch` |
| 68, 75, 82 `isSubscribed()` | `OnNext`, `OnError`, `OnComplete` |
| 69, 76, 83 calls of the subscriber | `SendNext`, `SendNextThrows` (the application's `onNext` throws), `SendError`, `SendCompleted` |
| 54 `getAndSet` | `InnerUnsubscribe` |
| 55 `subscription.unsubscribe()` | `SubscriptionUnsubscribe` |

From outside come `Ask` (`Subscriber.request`, which accumulates until there is a
producer), `Unsubscribe`, and `SourceNext`, `SourceComplete`, `SourceError` of the
driver, which deliver within the demand and nothing new once unsubscribed.
`safe` says whether the subscriber unsubscribes itself after a terminal event
(`SafeSubscriber`, what `subscribe` puts there) or not (an operator that an
adapter put there); TLC checks both. A `request` made from inside `onNext` is a
request of another process here: the model allows it at every point, so also
there.

### Operations

`Table` gives every operation the shape of its callback's result; the rest is the
same code for all. Subscribers share one Observable and each runs the operation
for itself. `VoidToSuccess` is `voidToSuccessCallback`; what the driver's
subscription makes of a result (error first, null is empty) is external. A result
that crosses with an unsubscribe is left to `RxBridge`.

`SubscriptionsKeepContract` says that each subscription by itself is an Observable of
`ObservableContract`, with a `total` that is settled when its own run answers: the
Observable is cold and shared, so one run per subscription, none before it requests,
and the other subscriber changes nothing of what this one sees. It has one instance of
the contract per subscription, `Contract(s)`, and the initial states and steps of all
of them are those of one behaviour.

### FluentQueries

Our objects carry the number of the wrapped object they refer to, so that two of
them can share one. `meant` is history: the setting, adapter and options that the
application's own chain of calls adds up to. The properties compare what runs with
what was meant. All settings are one value, all options of a query another.

### CallbackStreams

A call subscribes to an Observable that is either the application's (any events,
even after the end) or a callback stream wrapped by `toAsync...Stream`. `sent` is
the history of what the Observable delivered.

### GridFSTransfer

`CallbackStreams` is instantiated with one call per turn of a loop; this module
adds the loop of each subscription (`loop`, external: it is the driver's), the
application's stream, and where the bytes are: in the source or the file, in the
buffer of a turn, in the chunks or the destination. Bytes are numbered, so a gap,
a repetition and a wrong order all show. A call the application's stream answers
moves the bytes it says it moved. `Unsubscribe` changes what `Reply` tells and
nothing else, which is what the code does.

`TransferContract` has no loops, calls, buffers or converted streams: a source deals
its bytes out to the uploads that share it, a file is written once, a download writes
its own bytes in order, and a subscriber is told something at the end. It is the
answer to what sharing a stream means: not that a file has the source's contents
(`upload_retry` refutes that), but that no byte goes to two uploads or to none. The
mapping takes `dealt` to be what a loop has read and `file` to be the one file of an
upload, if it exists; `written`, how much of the file a download has put into the
destination, is a history variable, because between a call's effect and its answer the
loop's own count is behind.

### ClientLifecycle

A handle refers to one client of the callback driver (`wrapped`), which may be the
application's own (`owned`). An operation takes one or several rounds; `Send`
refuses a round whose client is closed, `RoundFails` lets a close interrupt the
round under way, and between two rounds a cursor can find its client closed.
Objects derived from a handle hold the driver's objects, so `Subscribe` works on a
closed client and it is the request that fails.

### AdaptedDelivery

`RxBridge` is extended, not copied: each action of the composition is a step of
the bridge together with what its Subscriber, now the operator's parent, does with
the call (`Create`, `ParentOnNext`, `ParentEnds`, `BridgeStep`), or a step of the
Worker or the application that the bridge does not notice. The operator's part is
external. `queue` holds results by number; `taken` counts what left the queue since
the operator last asked. The application's view is `childAsked`,
`childUnsubscribed`, `childNexts`, `childOutcome`, `childLate`, which is what
`AdaptedDeliveryProofs` maps to `ObservableContract`. One thing differs from the bare
bridge and is the contract's `Prefetches`: behind `observeOn` the operation starts
although the application has requested nothing, because the operator requests for
it. The documentation's remark that nothing is executed before
`Subscriber.request()` (`docs/reference/content/getting-started/quick-tour-primer.md:55`)
is about the Observables as returned without such an adapter (`Cold`).

### ObservableContract

It is implemented three times, by the bridge (`BridgeContract`), by the bridge behind
`observeOn` (`ChildContract`) and by every subscription of a one-shot operation
(`Contract(s)`), which is why it says no more than they have in common. `started` means
that the operation has been sent: it is sent at most once, never after the end, and only
for somebody who asked. A sequence can end with an error without it, when the driver
refuses to start or the connection fails first, but with success only after all `total`
results. `total` is chosen when
the operation is sent; before that it means nothing.

## 3. Runs

| run | question | bounds |
|---|---|---|
| `bridge_safety` | does any interleaving break the protocol, lose or invent requests, results, errors, or leak the cursor? | 2 threads, up to 2 results, `MaxLong = 3` < `MaxAsk = 4`, so that demand saturates |
| `bridge_liveness` | do unsubscribes arrive, start failures surface? does the bridge implement `ObservableContract`, liveness included? | 2 threads, 1 result |
| `operations` | are success and completeness real for every operation, does each subscription keep the contract, and is every sufficient request answered? | 2 subscribers, all operations, lists of up to 2 |
| `queries_inheritance` | does everything run as its own chain of calls says? | 4 handles, 2 queries, 1 Observable, 1 operation |
| `streams` | does each call get its own answer, once, and from a wrapped stream always? | 2 calls, up to 3 events of an application's Observable |
| `transfers` | is a file what was read, success whole, a destination without gaps? what do transfers that share a stream promise? does every transfer end, unsubscribed or not? | 2 subscriptions of one Observable, 2 bytes, up to 2 per call |
| `upload_retry` | *violation:* does every successful upload have the contents of its source? | as `transfers` |
| `lifecycle` | whom does a close reach, does it ever make a cut query look complete, is whoever asks answered? | 2 driver clients, 2 handles, 2 subscriptions, up to 2 rounds |
| `client_orphan` | *violation:* can every open client be closed by somebody? | 1 of each |
| `adapted` | does the queue overflow, is anything lost or reordered? is it still the Observable it was, does an unsubscribe get through? | 1 application thread and the Worker, up to 5 results, queue of 4, refill after 3 |

Why these bounds are enough to meet the interesting cases: two threads race with
each other, the wirer and the driver; two results make an order; a demand limit
below the request limit makes addition saturate. Two subscribers are one and a
retry. Four handles are a client, a database, a collection and one derived from it.
Five results do not fit the queue of four, and a refill of three is asked for and
used while the queue still holds some.
`MaxAsk`, `MaxResults`, `MaxList`, `MaxEvents`, `MaxHandles`, `MaxQueries`,
`MaxObservables`, `MaxOperations` and `MaxRounds` only bound the model; the code has
no such limits. Symmetry is used in `bridge_safety` only, which has no liveness.
Deadlock is not checked where the system may really stop: when all subscriptions are
over, all calls answered, or a bound on the number of objects is reached. The bridge
never stops (one can unsubscribe for ever), and deadlock is checked there.

That a sequence ends once more was asked for than it has, that there is one terminal
event, and that nothing runs unasked are part of `ObservableContract`; the runs do not
check them a second time. `SuccessIsReal` and `FileIsWhatWasRead` are implied by
`SubscriptionsKeepContract` and `KeepsTransferContract` (no result and no completion
without `started`; a file is what was dealt, and stays it); they are proved by
themselves (`RealSuccess`, `FileComplete`) and not checked again. Neither do the runs
check the invariants of the proofs (`IInv`, `DInv`, `CInv`, `AInv`, `ChildInv`, `OInv`,
`FInv`, `SInv`, `TInv`, `LInv`), which are proved for every instance; TLC checked all of
them with the bounds of the runs above before they were proved.

Each property is accompanied by a mutant: an operator with a plausible bug of the
code in place of a definition, under which TLC finds the property violated. They
are marked `mutant` in the modules and are no part of the specifications.

**Fairness.** `RxBridge`: a thread inside the library keeps running (weak fairness
of every step of every process), and a running operation with unfulfilled demand
delivers or ends, since the driver's socket and server selection timeouts turn
silence into an error. Nothing obliges an application to request or unsubscribe.
`Operations`: the driver answers what it has sent, for the same reason; the server
need not act. `CallbackStreams`: a wrapped callback stream answers; an
application's Observable may never end, and nothing is claimed for it.
`GridFSTransfer`: the driver's loop goes on, and the application's stream answers
the calls it is given (a transfer over a stream that never answers cannot end).
`ClientLifecycle`: a round is answered or fails, and subscribers ask for all.
`AdaptedDelivery`: the fairness of the bridge, and a scheduler that runs its Worker.

**Findings.** Two runs expect a violation:

- `upload_retry`. `uploadFromStream` keeps the application's source stream in the
  Observable, and every subscription reads on where the previous one stopped. A
  second subscription, a retry after a failed first one for instance, stores what
  is left and reports success, although the method "uploads the contents" of the
  stream. Nothing in the documentation restricts the Observable to one subscription.
- `client_orphan`. `MongoClients.create(settings, adapter, ...)` builds the driver's
  client, with its monitor threads, before the constructor of `MongoClientImpl`
  refuses a null adapter; the driver's client stays open and out of reach.

## 4. Proofs

Every invariant and every action property of the passing runs is a theorem for all
values of the constants, and so is the safety part of each refinement. Each component
has one inductive invariant, proved by `Init => Inv` and, with one step per action, `Inv
/\ [Next]_vars => Inv'`; its properties follow from it. The only hypotheses are the
named `ASSUME`s of the modules: `BridgeAssumption` (finitely many threads, the roles are
distinct, the bounds are naturals), `AdapterAssumption` (the Worker is a thread, the
limit is between 1 and the size of the queue), `OperationsAssumption`,
`StreamsAssumption`, `TransferAssumption`, `LifecycleAssumption` (bounds and sizes are
naturals, some of them positive) and `FluentAssumption` (the noop adapter and the
default settings are not among the others). That the threads are finitely many is needed
only where their requests are added up; no proof needs the sets of subscribers, calls or
clients to be finite.

### The bridge

`RxBridgeProofs`: `TypeCorrect`, `OneTerminal`, `Silence` (nothing after the terminal
event), `Whole`, `OneLateCall`, `OneCancel`, `NoLeak`, `StartsOnDemand`, `RealErrors`.
`IInv` adds to them what ties the program counters to the rest:

- `Roles`: who can be at which place of the code, and that no request reaches the
  bridge before it is wired (hence the field is assigned when it is read);
- `Stages`: results are in flight only while the operation runs, a terminal event
  only once it is over, and the catch only after a failed start, of which there is
  one. This makes the unguarded `onError` of the catch safe: it excludes the
  driver's callbacks;
- `Wanted`: a request under way stands for something that was asked for;
- `LateIsLast`: after a call that crossed with an unsubscribe nobody is left who
  has passed the test;
- `OnTheWay`: the process that found the flag unset is the one that closes;
- `Counted`: a subscribed subscriber has seen all but the result in flight.

`DemandProofs`: requests are in four places, with the subscriber until there is a
producer, with threads on their way through `request`, owed by the driver, delivered.

- `OnlyWhatWasAsked` (`Backpressure`): by `DInv` they add up to no more than was
  asked for;
- `NoRequestLost` (`DemandConserved`): by `CInv` they add up to exactly that, as long as
  nobody has unsubscribed, Long.MAX_VALUE was not reached and the operation did start;
- `KeepsContract`: every step is one that `ObservableContract` allows, or changes
  nothing the application can see. `StepContract` goes through the actions one by
  one; it needs `Backpressure` (only what was asked for is delivered), `Cold`
  (nothing runs unasked), the one terminal event and the one late call.

The threads' part of the balance, `InTransit`, is a sum over all of them: the fold of
the community modules, `MapThenSumSet`. Its module gives a fold by a recursive function
on the subsets, and that there is such a function has to be shown by induction. The
library's induction theorems take a predicate as a parameter; here induction is stated
with a set in its place (a set of numbers that has 0 and with each number the next has
them all), which follows from `<` on the naturals being well-founded, and from it for
the subsets of a finite set by their size. What the steps need follows: a sum of zeros
is zero, and when one thread's amount changes the sum changes by the difference. Once
out of the balance a run never comes back into it (`CountingBefore`), so nothing need be
known of the amounts there.

### Behind `observeOn`

`AdaptedDeliveryProofs`: `StepIsBridgeStep` and `AdaptedIsBridge` show that the
composition takes only steps of `RxBridge`, so all of the above holds in it. `AInv`
then says:

- `Credit`: the operator has asked for the size of its queue and for what the child
  has received, less what it has not yet asked for again. With `Backpressure` this
  bounds what can be in the queue: `NoOverflow`;
- `Queued` and `Sequential`: queue, Worker and child together have what was
  delivered, and while nothing went wrong by consecutive numbers: `NothingLost`;
- `Order`: unsubscribing goes from child to parent, and only an end finishes it.

`AdapterKeepsContract` is the refinement of `ObservableContract` by what the
application sees behind the adapter; `ChildInv` adds where the Worker stands with the
child: a result on its way was asked for, completion is on its way only after the last
of them, and at most one call was late, by a Worker that has since gone idle.

### One-shot operations

`OperationsProofs`: `RealSuccess`, `WholeAnswer`, `OneContractEach`. `OInv`: before the
answer there is nothing to deliver (`Unanswered`); after it, what a subscriber has seen
followed by what is left for it is the whole answer, and an error has no results before
it (`AnswerKept`). `TableShapes` says that every entry of the table has one of the four
shapes; the proof then goes by shapes, not by operations.

`OneContractEach` (`SubscriptionsKeepContract`) maps every step to one of each
subscription's contract: to a step of the one it belongs to and to a stutter of all
others (`OthersUnnoticed`), since they have no variable in common but the operation.
Only who asked can have run anything (`AskedFirst`), a result is one of the answer's
that is still left (`LeftToDeliver`), and completion comes when none is.

### Handles and queries

`FluentQueriesProofs`: `AdaptersInherited`, `SettingsAreInherited` and, as an action
property, `OwnOptions` (what starts runs with the options its own query has then).
`FInv`: the history of the application's calls agrees with the heap of wrapped
objects. It does because a handle's object is never written to, and because query
number `q` has iterable number `q` and no other query has it (`QueryMeant`), so a
setter reaches one query only. That sharing is harmless for handles and absent for
queries is what inheritance rests on.

### Stream conversions

`CallbackStreamsProofs`: `OneAnswer`, `OwnAnswer`, `ConversionsCancel` (`RoundTrip`).
`SInv` follows one call: it has answered nothing while its Subscriber has seen no
terminal event (`Open`), and its answer is the one its first terminal event calls for
ever after, whatever a misbehaving Observable still emits (`Ended`). For a wrapped
callback stream `Wrapped` says where in its sequence of at most two events the
Observable is.

### Transfers

`GridFSTransferProofs`: `FileComplete`, `WholeSuccess`, `PrefixDelivered`,
`TransfersKeepContract`.
`TransferUsesStreams` shows that a transfer makes, of the converted streams, only
steps that `CallbackStreams` describes, so `SInv` holds in it. `TInv` then says where
the bytes are, by what the call under way has done: nothing yet (`Untouched`), it is
giving the number `v` (`Giving`), or it is failing (`Failing`). In an upload, what was
read is what is stored and, from the moment the source has given its number, the
buffer; in a download, what was read is the beginning of the file. While no other
subscription has started, the bytes of the application's stream are accounted for
besides: all that left the source is with the loop, and a destination has what the
loop has counted (`AloneUpload`, `AloneDownload`). Without that hypothesis an upload's
content is not what one would like (`upload_retry`).

What does hold of transfers that share a stream is `TransfersKeepContract`
(`KeepsTransferContract`), for any number of them. Most steps are internal (`Quiet`);
`SourceReads` deals, `CloseFile` writes the file, `DestinationWrites` delivers and
`Reply` tells. Two things make it true: a file is closed only by a loop that was told
the end of the source, when everything has been dealt; and `WrittenInv`, that a
destination is exactly one buffer ahead of its loop while a call that moved its bytes
has not been answered, and otherwise even with it, so that the next buffer is the one
that comes next in the file.

### Lifecycle

`ClientLifecycleProofs`: `CloseReaches`, `NoTruncation`. `LInv`: the driver's state of
a client agrees with the history of `close` (`ClosedForGood`), and a subscription has
asked for nothing, is running, or is over and stays as it ended (`Untouched`,
`Running`, `Over`). A subscription that asked after the close went from the first to
the last in one step, and therefore never received anything.

### What is only model-checked

- Liveness: the fairness part of the two contracts (`ImplementsContract`,
  `AdaptedContract`), `UnsubscribeReachesDriver`, `StartFailureIsReported`,
  `EveryRequestIsAnswered` (twice), `EveryCallIsAnswered`, `TransferEnds`,
  `ChildUnsubscribeReachesDriver`. TLAPS proves no liveness under fairness.
- The two properties that are violated.

## 5. Plan

Done: bridge, contract, one-shot operations, handles and queries, stream
conversions, transfers, adapters, lifecycle, exceptions of the application's
`onNext`; the inductive invariant of each component, and from it every invariant and
action property of the runs; the safety part of the refinements of `ObservableContract`
by the bridge, by an adapted bridge and by the subscriptions of one-shot operations, of
`TransferContract` by the transfers, and of `RxBridge` and `CallbackStreams` by the
compositions that use them.

Next: the contract for queries of several rounds (`ClientLifecycle`); a further
composition, transfers over a client that is closed under way.

## 6. Not modelled

The callback driver and rx themselves beyond what this code relies on; the
conversion of values (codecs, documents); the driver information sent to the
server (`MongoClients.getMongoDriverInformation`, text read from the manifest);
the public interfaces (declarations); the example programs, which print; tests,
build and documentation. The repository's JavaScript belongs to the documentation
site: vendored libraries (jQuery, Bootstrap, Underscore, ZeroClipboard) and a few
lines that decorate pages. None of it is part of the driver, which is Java.

Exceptions of an application's `onError` and `onCompleted`, and errors that rx
rethrows as fatal, are left out. In a transfer the methods of a stream do not
throw (`CallbackStreams` has that case for a single call, `threw`) and a write
takes the whole buffer. Arguments an application mutates after passing them (lists
of documents, options objects) are, like a query's options, read when the operation
runs; only the latter is modelled.
