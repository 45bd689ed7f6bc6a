--------------------------- MODULE FluentQueries ---------------------------
(***************************************************************************)
(* The objects an application builds its operations with.                  *)
(*                                                                         *)
(*   - MongoClient, MongoDatabase, MongoCollection and GridFSBucket are    *)
(*     immutable: a with... method returns a new object.  Each wraps an    *)
(*     object of the callback driver and carries an ObservableAdapter.     *)
(*   - The queries (FindObservable, AggregateObservable, ...) are mutable: *)
(*     a setter writes to the wrapped iterable and returns the same query, *)
(*     which may have been handed to several parts of the application.     *)
(*   - An Observable only refers to the iterable.  The options are read    *)
(*     when a subscriber's first request runs the operation.               *)
(*                                                                         *)
(* Objects are numbered in the order of their creation; the wrapped        *)
(* objects are a heap of their own, since two of ours may share one.       *)
(* Settings (codec registry, read preference, read and write concern) and  *)
(* options are one abstract value each.                                    *)
(***************************************************************************)
EXTENDS Naturals, Sequences

CONSTANTS
    Settings,       \* what a handle can be set to
    Options,        \* what a query can be set to
    NoOption,       \* what an operation without options runs with
    Adapters,       \* the application's ObservableAdapters
    Noop,           \* NoopObservableAdapter, what a client created without one has
    Default,        \* the settings a client starts with
    MaxHandles,     \* bounds: objects of each sort
    MaxQueries,
    MaxObservables,
    MaxOperations

ASSUME FluentAssumption ==
    /\ Noop \notin Adapters
    /\ Default \notin Settings
    /\ MaxHandles \in Nat /\ MaxQueries \in Nat /\ MaxObservables \in Nat
    /\ MaxOperations \in Nat

VARIABLES
    wrappedHandles,   \* the driver's handles: their settings
    wrappedIterables, \* the driver's iterables: settings and options
    handles,          \* our handles: level, wrapped object, adapter
    queries,          \* our queries: kind, wrapped iterable, adapter
    observables,      \* what it will run, adapters applied in order
    operations,       \* what was run: the Observable, settings, options
    meant             \* history: what the application's calls add up to

vars == <<wrappedHandles, wrappedIterables, handles, queries, observables,
          operations, meant>>

\* The application's own account of an object: the setting and the adapter
\* last chosen on the chain of calls that led to it.
Account(settings, adapter) == [settings |-> settings, adapter |-> adapter]

\* MongoClients.create, with an adapter or without.
Init ==
    /\ wrappedHandles = <<Default>>
    /\ wrappedIterables = <<>>
    /\ \E adapter \in Adapters \cup {Noop} :
        /\ handles = << [level |-> "client", wrapped |-> 1, adapter |-> adapter] >>
        /\ meant = [ handles     |-> << Account(Default, adapter) >>,
                     queries     |-> <<>>,
                     observables |-> <<>> ]
    /\ queries = <<>>
    /\ observables = <<>>
    /\ operations = <<>>

-----------------------------------------------------------------------------
(***************************************************************************)
(* Handles.                                                                *)
(***************************************************************************)

\* A new handle of ours around wrapped object number w.
NewHandle(level, w, adapter, account) ==
    /\ Len(handles) < MaxHandles
    /\ handles' = Append(handles, [level |-> level, wrapped |-> w, adapter |-> adapter])
    /\ meant' = [meant EXCEPT !.handles = Append(@, account)]
    /\ UNCHANGED <<wrappedIterables, queries, observables, operations>>

\* mutant: what the driver returns is dropped
NewWrappedDropped(settings) == UNCHANGED wrappedHandles

\* The driver's own handles are immutable too: it makes a new one.
NewWrapped(settings) == wrappedHandles' = Append(wrappedHandles, settings)

\* getDatabase, getCollection: the driver's child inherits the settings.
Child(h, from, to) ==
    /\ handles[h].level = from
    /\ NewWrapped(wrappedHandles[handles[h].wrapped])
    /\ NewHandle(to, Len(wrappedHandles) + 1, handles[h].adapter, meant.handles[h])

GetDatabase(h) == Child(h, "client", "database")

\* mutant: the new collection starts with the default adapter
GetCollectionNoop(h) ==
    /\ handles[h].level = "database"
    /\ NewWrapped(wrappedHandles[handles[h].wrapped])
    /\ NewHandle("collection", Len(wrappedHandles) + 1, Noop, meant.handles[h])

GetCollection(h) == Child(h, "database", "collection")

\* GridFSBuckets.create(database) takes both the wrapped database and the
\* adapter from the database.
CreateBucket(h) == Child(h, "database", "bucket")

\* withObservableAdapter: the same wrapped object, another adapter.
WithAdapter(h, level, adapter) ==
    /\ handles[h].level = level
    /\ UNCHANGED wrappedHandles
    /\ NewHandle(level, handles[h].wrapped, adapter,
                 Account(meant.handles[h].settings, adapter))

DatabaseWithAdapter(h, adapter) == WithAdapter(h, "database", adapter)

CollectionWithAdapter(h, adapter) == WithAdapter(h, "collection", adapter)

\* withCodecRegistry, withReadPreference, withWriteConcern, withReadConcern,
\* withDocumentClass, withChunkSizeBytes: another wrapped object, the same
\* adapter.
With(h, level, setting) ==
    /\ handles[h].level = level
    /\ NewWrapped(setting)
    /\ NewHandle(level, Len(wrappedHandles) + 1, handles[h].adapter,
                 Account(setting, meant.handles[h].adapter))

DatabaseWith(h, setting) == With(h, "database", setting)

\* mutant: the setting is written to the wrapped object, which is kept
CollectionWithInPlace(h, setting) ==
    /\ handles[h].level = "collection"
    /\ wrappedHandles' = [wrappedHandles EXCEPT ![handles[h].wrapped] = setting]
    /\ NewHandle("collection", handles[h].wrapped, handles[h].adapter,
                 Account(setting, meant.handles[h].adapter))

CollectionWith(h, setting) == With(h, "collection", setting)

BucketWith(h, setting) == With(h, "bucket", setting)

\* openUploadStream: a handle on the driver's upload stream, whose write,
\* close and abort are one-shot operations.
OpenUploadStream(h) == Child(h, "bucket", "upload")

\* AsyncStreamHelper.toAsyncInputStream and toAsyncOutputStream: the driver's
\* stream around bytes, a buffer or a blocking stream.  It belongs to no
\* client and inherits nothing: its adapter is the one given, or none.
ToAsyncStream(adapter) ==
    /\ NewWrapped(Default)
    /\ NewHandle("stream", Len(wrappedHandles) + 1, adapter, Account(Default, adapter))

-----------------------------------------------------------------------------
(***************************************************************************)
(* Queries.                                                                *)
(***************************************************************************)

\* Our query number Len(queries) + 1 around a new iterable, which copies the
\* settings of the handle's wrapped object and starts with the given option
\* (the filter; distinct sets it with a call of its own).
Query(h, level, kind, option) ==
    /\ handles[h].level = level
    /\ Len(queries) < MaxQueries
    /\ wrappedIterables' = Append(wrappedIterables,
            [settings |-> wrappedHandles[handles[h].wrapped], options |-> option])
    /\ queries' = Append(queries,
            [kind |-> kind, wrapped |-> Len(wrappedIterables) + 1,
             adapter |-> handles[h].adapter])
    /\ meant' = [meant EXCEPT !.queries =
            Append(@, [account |-> meant.handles[h], options |-> option])]
    /\ UNCHANGED <<wrappedHandles, handles, observables, operations>>

\* mutant: the last iterable is used again
FindReuses(h, option) ==
    /\ handles[h].level = "collection"
    /\ Len(queries) < MaxQueries
    /\ wrappedIterables' =
            IF wrappedIterables = <<>>
            THEN << [settings |-> wrappedHandles[handles[h].wrapped], options |-> option] >>
            ELSE [wrappedIterables EXCEPT ![Len(wrappedIterables)].options = option]
    /\ queries' = Append(queries,
            [kind |-> "find", wrapped |-> Len(wrappedIterables'), adapter |-> handles[h].adapter])
    /\ meant' = [meant EXCEPT !.queries =
            Append(@, [account |-> meant.handles[h], options |-> option])]
    /\ UNCHANGED <<wrappedHandles, handles, observables, operations>>

Find(h, option)            == Query(h, "collection", "find", option)
Distinct(h, option)        == Query(h, "collection", "distinct", option)
Aggregate(h, option)       == Query(h, "collection", "aggregate", option)
MapReduce(h, option)       == Query(h, "collection", "mapReduce", option)
ListIndexes(h, option)     == Query(h, "collection", "listIndexes", option)
ListCollections(h, option) == Query(h, "database", "listCollections", option)
ListDatabases(h, option)   == Query(h, "client", "listDatabases", option)
FindFiles(h, option)       == Query(h, "bucket", "findFiles", option)

\* openDownloadStream: mutable like a query, through batchSize.
OpenDownloadStream(h, option) == Query(h, "bucket", "download", option)

\* wrapped.option(value); return this;
Configure(q, kind, option) ==
    /\ queries[q].kind = kind
    /\ wrappedIterables' = [wrappedIterables EXCEPT ![queries[q].wrapped].options = option]
    /\ meant' = [meant EXCEPT !.queries[q].options = option]
    /\ UNCHANGED <<wrappedHandles, handles, queries, observables, operations>>

ConfigureFind(q, option)            == Configure(q, "find", option)
ConfigureDistinct(q, option)        == Configure(q, "distinct", option)
ConfigureAggregate(q, option)       == Configure(q, "aggregate", option)
ConfigureMapReduce(q, option)       == Configure(q, "mapReduce", option)
ConfigureListIndexes(q, option)     == Configure(q, "listIndexes", option)
ConfigureListCollections(q, option) == Configure(q, "listCollections", option)
ConfigureListDatabases(q, option)   == Configure(q, "listDatabases", option)
ConfigureFindFiles(q, option)       == Configure(q, "findFiles", option)
ConfigureDownloadStream(q, option)  == Configure(q, "download", option)

-----------------------------------------------------------------------------
(***************************************************************************)
(* Observables and what their subscriptions run.                           *)
(***************************************************************************)

\* mutant: the adapter is not applied
CreateUnadapted(target, adapter) ==
    /\ Len(observables) < MaxObservables
    /\ observables' = Append(observables, [target |-> target, adapters |-> <<>>])
    /\ UNCHANGED <<wrappedHandles, wrappedIterables, handles, queries, operations>>

\* RxObservables.create(observe(target), adapter)
Create(target, adapter) ==
    /\ Len(observables) < MaxObservables
    /\ observables' = Append(observables, [target |-> target, adapters |-> <<adapter>>])
    /\ UNCHANGED <<wrappedHandles, wrappedIterables, handles, queries, operations>>

\* toObservable, first and toCollection; subscribe is toObservable().subscribe.
\* Of a download stream: read, getGridFSFile and close.
ToObservable(q) ==
    /\ Create([sort |-> "query", wrapped |-> queries[q].wrapped], queries[q].adapter)
    /\ meant' = [meant EXCEPT !.observables = Append(@, [sort |-> "query", of |-> q])]

\* insertOne, count, runCommand, ...: the Block keeps the wrapped handle, and
\* listDatabaseNames and listCollectionNames an iterable nobody else has.
OneShot(h) ==
    /\ Create([sort |-> "handle", wrapped |-> handles[h].wrapped], handles[h].adapter)
    /\ meant' = [meant EXCEPT !.observables = Append(@, [sort |-> "handle", of |-> h])]

\* A subscriber's first request: the wrapped object runs with what it holds
\* now (external: MongoIterable.batchCursor, or the driver's method itself).
Run(o) ==
    /\ Len(operations) < MaxOperations
    /\ LET target == observables[o].target
           wrapped == IF target.sort = "query"
                      THEN wrappedIterables[target.wrapped]
                      ELSE [settings |-> wrappedHandles[target.wrapped], options |-> NoOption]
       IN  operations' = Append(operations, [of |-> o, with |-> wrapped])
    /\ UNCHANGED <<wrappedHandles, wrappedIterables, handles, queries, observables, meant>>

-----------------------------------------------------------------------------
NextHandle(h) ==
    \/ GetDatabase(h) \/ GetCollection(h) \/ CreateBucket(h) \/ OpenUploadStream(h)
    \/ \E a \in Adapters : DatabaseWithAdapter(h, a) \/ CollectionWithAdapter(h, a)
    \/ \E v \in Settings : DatabaseWith(h, v) \/ CollectionWith(h, v) \/ BucketWith(h, v)

NextQuery(h, option) ==
    \/ Find(h, option) \/ Distinct(h, option) \/ Aggregate(h, option)
    \/ MapReduce(h, option) \/ ListIndexes(h, option)
    \/ ListCollections(h, option) \/ ListDatabases(h, option)
    \/ FindFiles(h, option) \/ OpenDownloadStream(h, option)

NextOption(q, option) ==
    \/ ConfigureFind(q, option) \/ ConfigureDistinct(q, option)
    \/ ConfigureAggregate(q, option) \/ ConfigureMapReduce(q, option)
    \/ ConfigureListIndexes(q, option) \/ ConfigureListCollections(q, option)
    \/ ConfigureListDatabases(q, option) \/ ConfigureFindFiles(q, option)
    \/ ConfigureDownloadStream(q, option)

Next ==
    \/ \E h \in DOMAIN handles :
        \/ NextHandle(h)
        \/ \E option \in Options : NextQuery(h, option)
        \/ OneShot(h)
    \/ \E a \in Adapters \cup {Noop} : ToAsyncStream(a)
    \/ \E q \in DOMAIN queries :
        \/ \E option \in Options : NextOption(q, option)
        \/ ToObservable(q)
    \/ \E o \in DOMAIN observables : Run(o)

Spec == Init /\ [][Next]_vars

-----------------------------------------------------------------------------
Levels == {"client", "database", "collection", "bucket", "upload", "stream"}

Kinds == {"find", "distinct", "aggregate", "mapReduce", "listIndexes", "listCollections",
          "listDatabases", "findFiles", "download"}

Setting  == Settings \cup {Default}
Adapter  == Adapters \cup {Noop}
Accounts == [settings : Setting, adapter : Adapter]

TypeOK ==
    /\ wrappedHandles \in Seq(Setting)
    /\ wrappedIterables \in Seq([settings : Setting, options : Options])
    /\ handles \in Seq([level : Levels, wrapped : Nat, adapter : Adapter])
    /\ queries \in Seq([kind : Kinds, wrapped : Nat, adapter : Adapter])
    /\ observables \in Seq([target : [sort : {"query", "handle"}, wrapped : Nat],
                            adapters : Seq(Adapter)])
    /\ operations \in Seq([of : Nat, with : [settings : Setting,
                                             options : Options \cup {NoOption}]])
    /\ meant \in [handles     : Seq(Accounts),
                  queries     : Seq([account : Accounts, options : Options]),
                  observables : Seq([sort : {"query", "handle"}, of : Nat])]
    /\ \A h \in DOMAIN handles : handles[h].wrapped \in DOMAIN wrappedHandles
    /\ \A q \in DOMAIN queries : queries[q].wrapped \in DOMAIN wrappedIterables
    /\ \A i \in DOMAIN operations : operations[i].of \in DOMAIN observables
    /\ DOMAIN meant.handles = DOMAIN handles
    /\ DOMAIN meant.queries = DOMAIN queries
    /\ DOMAIN meant.observables = DOMAIN observables

AccountOf(o) == LET m == meant.observables[o]
                IN  IF m.sort = "query" THEN meant.queries[m.of].account
                                        ELSE meant.handles[m.of]

\* Every Observable has been through exactly one adapter, the one last chosen
\* on the chain of calls from the client to the object it came from - through
\* databases, collections, buckets and queries, and whatever was derived from
\* the same objects for somebody else.
AdapterInherited ==
    \A o \in DOMAIN observables : observables[o].adapters = << AccountOf(o).adapter >>

\* An operation runs with the settings last chosen on that chain: deriving a
\* handle never reaches back to the handles and Observables that exist.
SettingsInherited ==
    \A i \in DOMAIN operations :
        operations[i].with.settings = AccountOf(operations[i].of).settings

\* An operation runs with the options its own query has when it is run -
\* those set after its Observable was obtained included, those set on any
\* other query of the same collection not.
OptionsOfOwnQuery ==
    [][\A o \in DOMAIN observables :
        /\ Run(o)
        /\ meant.observables[o].sort = "query"
        => operations'[Len(operations')].with.options
              = meant.queries[meant.observables[o].of].options]_vars
=============================================================================
