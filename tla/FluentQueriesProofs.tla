------------------------- MODULE FluentQueriesProofs -------------------------
(***************************************************************************)
(* Inheritance, for every set of settings, options and adapters and for    *)
(* any number of objects.                                                  *)
(*                                                                         *)
(* The application's account of an object is compared with what the object *)
(* wraps.  The accounts of handles and queries agree with the heap of      *)
(* wrapped objects because a handle's object is never written to and every *)
(* query has an iterable of its own, so that a setter reaches one query    *)
(* only; an Observable points at the object it came from.                  *)
(***************************************************************************)
EXTENDS FluentQueries, SequenceTheorems, TLAPS

HandleMeant(h) ==
    meant.handles[h] = Account(wrappedHandles[handles[h].wrapped], handles[h].adapter)

\* Query number q has iterable number q, and nobody else has.
QueryMeant(q) ==
    /\ queries[q].wrapped = q
    /\ meant.queries[q].account = Account(wrappedIterables[q].settings, queries[q].adapter)
    /\ meant.queries[q].options = wrappedIterables[q].options

\* The object of ours that an Observable came from, with its adapter.
ObservableMeant(o) ==
    LET m == meant.observables[o]
    IN  \/ /\ m.sort = "query" /\ m.of \in DOMAIN queries
           /\ observables[o] = [ target   |-> [sort |-> "query", wrapped |-> m.of],
                                 adapters |-> <<queries[m.of].adapter>> ]
        \/ /\ m.sort = "handle" /\ m.of \in DOMAIN handles
           /\ observables[o] = [ target   |-> [sort |-> "handle",
                                               wrapped |-> handles[m.of].wrapped],
                                 adapters |-> <<handles[m.of].adapter>> ]

OperationMeant(i) ==
    operations[i].with.settings = AccountOf(operations[i].of).settings

FInv ==
    /\ TypeOK
    /\ Len(wrappedIterables) = Len(queries)
    /\ \A h \in DOMAIN handles : HandleMeant(h)
    /\ \A q \in DOMAIN queries : QueryMeant(q)
    /\ \A o \in DOMAIN observables : ObservableMeant(o)
    /\ \A i \in DOMAIN operations : OperationMeant(i)

-----------------------------------------------------------------------------
\* What appending does, in the terms of the invariant.
LEMMA Grows ==
    ASSUME NEW S, NEW s \in Seq(S), NEW x \in S
    PROVE  /\ Append(s, x) \in Seq(S)
           /\ Len(Append(s, x)) = Len(s) + 1
           /\ DOMAIN s = 1..Len(s) /\ Len(s) \in Nat
           /\ DOMAIN Append(s, x) = DOMAIN s \cup {Len(s) + 1}
           /\ Len(s) + 1 \notin DOMAIN s
           /\ \A i \in DOMAIN s : Append(s, x)[i] = s[i]
           /\ Append(s, x)[Len(s) + 1] = x
<1>1. Append(s, x) \in Seq(S) /\ Len(Append(s, x)) = Len(s) + 1
  BY AppendProperties
<1>2. DOMAIN s = 1..Len(s) /\ Len(s) \in Nat /\ DOMAIN Append(s, x) = 1..(Len(s) + 1)
  BY <1>1, LenProperties
<1>3. (\A i \in 1..Len(s) : Append(s, x)[i] = s[i]) /\ Append(s, x)[Len(s) + 1] = x
  BY AppendProperties
<1> QED BY <1>1, <1>2, <1>3

\* Elements of the sequences are what their types say.
LEMMA ElementsOf ==
    ASSUME NEW S, NEW s \in Seq(S), NEW i \in DOMAIN s
    PROVE  s[i] \in S /\ i \in Nat
<1>1. DOMAIN s = 1..Len(s) /\ Len(s) \in Nat
  BY LenProperties
<1> QED BY <1>1, ElementOfSeq

LEMMA Elements ==
    ASSUME TypeOK
    PROVE  /\ \A h \in DOMAIN handles :
                /\ h \in Nat /\ handles[h].wrapped \in Nat /\ handles[h].adapter \in Adapter
                /\ wrappedHandles[handles[h].wrapped] \in Setting
                /\ meant.handles[h] \in Accounts
           /\ \A q \in DOMAIN queries :
                /\ q \in Nat /\ queries[q].wrapped \in Nat /\ queries[q].adapter \in Adapter
                /\ meant.queries[q] \in [account : Accounts, options : Options]
           /\ \A i \in DOMAIN wrappedIterables :
                wrappedIterables[i] \in [settings : Setting, options : Options]
           /\ \A o \in DOMAIN observables : o \in Nat
<1>1. /\ wrappedHandles \in Seq(Setting)
      /\ wrappedIterables \in Seq([settings : Setting, options : Options])
      /\ handles \in Seq([level : Levels, wrapped : Nat, adapter : Adapter])
      /\ queries \in Seq([kind : Kinds, wrapped : Nat, adapter : Adapter])
      /\ observables \in Seq([target : [sort : {"query", "handle"}, wrapped : Nat],
                               adapters : Seq(Adapter)])
      /\ meant.handles \in Seq(Accounts)
      /\ meant.queries \in Seq([account : Accounts, options : Options])
  BY DEF TypeOK
<1>2. ASSUME NEW h \in DOMAIN handles
      PROVE  /\ h \in Nat /\ handles[h].wrapped \in Nat /\ handles[h].adapter \in Adapter
             /\ wrappedHandles[handles[h].wrapped] \in Setting
             /\ meant.handles[h] \in Accounts
  <2>1. /\ h \in DOMAIN meant.handles /\ handles[h].wrapped \in DOMAIN wrappedHandles
    BY DEF TypeOK
  <2>2. handles[h] \in [level : Levels, wrapped : Nat, adapter : Adapter] /\ h \in Nat
    BY <1>1, ElementsOf
  <2> QED BY <1>1, <2>1, <2>2, ElementsOf
<1>3. ASSUME NEW q \in DOMAIN queries
      PROVE  /\ q \in Nat /\ queries[q].wrapped \in Nat /\ queries[q].adapter \in Adapter
             /\ meant.queries[q] \in [account : Accounts, options : Options]
  <2>1. q \in DOMAIN meant.queries
    BY DEF TypeOK
  <2>2. queries[q] \in [kind : Kinds, wrapped : Nat, adapter : Adapter] /\ q \in Nat
    BY <1>1, ElementsOf
  <2> QED BY <1>1, <2>1, <2>2, ElementsOf
<1>4. ASSUME NEW i \in DOMAIN wrappedIterables
      PROVE  wrappedIterables[i] \in [settings : Setting, options : Options]
  BY <1>1, ElementsOf
<1>5. ASSUME NEW o \in DOMAIN observables PROVE o \in Nat
  BY <1>1, ElementsOf
<1> QED BY <1>2, <1>3, <1>4, <1>5

\* An Observable and an operation stay what they are while the accounts of
\* the objects they came from do.
LEMMA OldKept ==
    ASSUME FInv,
           \A h \in DOMAIN handles : /\ h \in DOMAIN handles' /\ handles'[h] = handles[h]
                                     /\ meant'.handles[h] = meant.handles[h],
           \A q \in DOMAIN queries : /\ q \in DOMAIN queries' /\ queries'[q] = queries[q]
                                     /\ meant'.queries[q].account = meant.queries[q].account,
           \A o \in DOMAIN observables : /\ observables'[o] = observables[o]
                                         /\ meant'.observables[o] = meant.observables[o]
    PROVE  /\ \A o \in DOMAIN observables : ObservableMeant(o)' /\ AccountOf(o)' = AccountOf(o)
           /\ \A i \in DOMAIN operations : operations'[i] = operations[i] => OperationMeant(i)'
<1>1. ASSUME NEW o \in DOMAIN observables
      PROVE  ObservableMeant(o)' /\ AccountOf(o)' = AccountOf(o)
  <2> DEFINE m == meant.observables[o]
  <2>1. m = meant'.observables[o] /\ ObservableMeant(o)
    BY DEF FInv
  <2>2. CASE m.sort = "query" /\ m.of \in DOMAIN queries
    BY <2>1, <2>2 DEF ObservableMeant, AccountOf
  <2>3. CASE m.sort = "handle" /\ m.of \in DOMAIN handles
    BY <2>1, <2>3 DEF ObservableMeant, AccountOf
  <2> QED BY <2>1, <2>2, <2>3 DEF ObservableMeant
<1>2. ASSUME NEW i \in DOMAIN operations, operations'[i] = operations[i]
      PROVE  OperationMeant(i)'
  BY <1>1, <1>2 DEF FInv, TypeOK, OperationMeant
<1> QED BY <1>1, <1>2

-----------------------------------------------------------------------------
(***************************************************************************)
(* One lemma per kind of step.                                             *)
(***************************************************************************)
LEMMA InitFInv == Init => FInv
<1> SUFFICES ASSUME Init PROVE FInv
  OBVIOUS
<1>1. PICK adapter \in Adapters \cup {Noop} :
        /\ handles = << [level |-> "client", wrapped |-> 1, adapter |-> adapter] >>
        /\ meant = [ handles     |-> << Account(Default, adapter) >>,
                     queries     |-> <<>>,
                     observables |-> <<>> ]
  BY DEF Init
<1>2. /\ wrappedHandles = <<Default>> /\ wrappedIterables = <<>>
      /\ queries = <<>> /\ observables = <<>> /\ operations = <<>>
  BY DEF Init
<1>3. /\ meant.handles = << Account(Default, adapter) >> /\ meant.queries = <<>>
      /\ meant.observables = <<>> /\ Account(Default, adapter) \in Accounts
  BY <1>1 DEF Accounts, Account, Setting, Adapter
<1>4. TypeOK
  <2>1. meant \in [handles     : Seq(Accounts),
                   queries     : Seq([account : Accounts, options : Options]),
                   observables : Seq([sort : {"query", "handle"}, of : Nat])]
    BY <1>1, <1>3
  <2>2. handles \in Seq([level : Levels, wrapped : Nat, adapter : Adapter])
    BY <1>1 DEF Levels, Adapter
  <2>3. wrappedHandles \in Seq(Setting)
    BY <1>2 DEF Setting
  <2>4. DOMAIN meant.handles = DOMAIN handles
    BY <1>1, <1>3
  <2>5. \A h \in DOMAIN handles : handles[h].wrapped \in DOMAIN wrappedHandles
    BY <1>1, <1>2
  <2> QED BY <1>2, <1>3, <2>1, <2>2, <2>3, <2>4, <2>5 DEF TypeOK
<1>5. \A h \in DOMAIN handles : HandleMeant(h)
  BY <1>1, <1>2, <1>3 DEF HandleMeant
<1> QED BY <1>2, <1>4, <1>5 DEF FInv

\* A new handle of ours; the wrapped ones that exist are left alone.
LEMMA HandleStep ==
    ASSUME FInv, NEW level \in Levels, NEW w \in DOMAIN wrappedHandles',
           NEW adapter \in Adapter, NEW account \in Accounts,
           NewHandle(level, w, adapter, account),
           account = Account(wrappedHandles'[w], adapter),
           wrappedHandles' \in Seq(Setting),
           DOMAIN wrappedHandles \subseteq DOMAIN wrappedHandles',
           \A i \in DOMAIN wrappedHandles : wrappedHandles'[i] = wrappedHandles[i]
    PROVE  FInv'
<1> USE DEF FInv
<1> DEFINE H == [level : Levels, wrapped : Nat, adapter : Adapter]
           new == [level |-> level, wrapped |-> w, adapter |-> adapter]
<1>1. /\ handles' = Append(handles, new)
      /\ meant' = [meant EXCEPT !.handles = Append(meant.handles, account)]
      /\ UNCHANGED <<wrappedIterables, queries, observables, operations>>
  BY DEF NewHandle
<1>2. w \in Nat
  BY LenProperties
<1>3. new \in H /\ handles \in Seq(H) /\ meant.handles \in Seq(Accounts)
  BY <1>2 DEF TypeOK
<1>4. /\ meant'.handles = Append(meant.handles, account)
      /\ meant'.queries = meant.queries /\ meant'.observables = meant.observables
  BY <1>1 DEF TypeOK
<1>5. Len(meant.handles) = Len(handles)
  BY <1>3, LenProperties DEF TypeOK
<1>6. /\ handles' \in Seq(H) /\ DOMAIN handles' = DOMAIN handles \cup {Len(handles) + 1}
      /\ \A h \in DOMAIN handles : handles'[h] = handles[h]
      /\ handles'[Len(handles) + 1] = new
  BY <1>1, <1>3, Grows
<1>7. /\ meant'.handles \in Seq(Accounts)
      /\ DOMAIN meant'.handles = DOMAIN handles \cup {Len(handles) + 1}
      /\ \A h \in DOMAIN handles : meant'.handles[h] = meant.handles[h]
      /\ meant'.handles[Len(handles) + 1] = account
  BY <1>3, <1>4, <1>5, Grows DEF TypeOK
<1> HIDE DEF H, new
<1>8. TypeOK'
  <2>1. meant' \in [handles     : Seq(Accounts),
                    queries     : Seq([account : Accounts, options : Options]),
                    observables : Seq([sort : {"query", "handle"}, of : Nat])]
    BY <1>1, <1>3, <1>7, <1>4 DEF TypeOK
  <2>2. \A h \in DOMAIN handles' : handles'[h].wrapped \in DOMAIN wrappedHandles'
    BY <1>6 DEF TypeOK, new
  <2> QED BY <1>1, <1>4, <1>6, <1>7, <2>1, <2>2 DEF TypeOK, H
<1>9. \A h \in DOMAIN handles' : HandleMeant(h)'
  <2>1. ASSUME NEW h \in DOMAIN handles PROVE HandleMeant(h)'
    BY <1>6, <1>7 DEF HandleMeant, TypeOK
  <2>2. ASSUME NEW h, h = Len(handles) + 1 PROVE HandleMeant(h)'
    BY <1>6, <1>7, <2>2 DEF HandleMeant, new
  <2> QED BY <1>6, <2>1, <2>2
<1>10. \A q \in DOMAIN queries' : QueryMeant(q)'
  BY <1>1, <1>4 DEF QueryMeant
<1>11. /\ \A o \in DOMAIN observables : ObservableMeant(o)'
       /\ \A i \in DOMAIN operations : OperationMeant(i)'
  BY <1>1, <1>4, <1>6, <1>7, OldKept
<1> QED BY <1>1, <1>8, <1>9, <1>10, <1>11

\* A new query around an iterable of its own.
LEMMA QueryStep ==
    ASSUME FInv, NEW h \in DOMAIN handles, NEW level, NEW kind \in Kinds,
           NEW option \in Options, Query(h, level, kind, option)
    PROVE  FInv'
<1> USE DEF FInv
<1> DEFINE I == [settings : Setting, options : Options]
           Q == [kind : Kinds, wrapped : Nat, adapter : Adapter]
           M == [account : Accounts, options : Options]
           iterable == [settings |-> wrappedHandles[handles[h].wrapped], options |-> option]
           query == [kind |-> kind, wrapped |-> Len(wrappedIterables) + 1,
                     adapter |-> handles[h].adapter]
           mean == [account |-> meant.handles[h], options |-> option]
           q == Len(queries) + 1
<1>1. /\ wrappedIterables' = Append(wrappedIterables, iterable)
      /\ queries' = Append(queries, query)
      /\ meant' = [meant EXCEPT !.queries = Append(meant.queries, mean)]
      /\ UNCHANGED <<wrappedHandles, handles, observables, operations>>
  BY DEF Query
<1>2. /\ wrappedIterables \in Seq(I) /\ queries \in Seq(Q) /\ meant.queries \in Seq(M)
      /\ Len(meant.queries) = Len(queries) /\ Len(wrappedIterables) = Len(queries)
      /\ Len(queries) \in Nat
  BY LenProperties DEF TypeOK
<1>3. handles[h].wrapped \in DOMAIN wrappedHandles /\ handles[h].adapter \in Adapter
  BY Elements DEF TypeOK
<1>4. wrappedHandles[handles[h].wrapped] \in Setting /\ meant.handles[h] \in Accounts
  BY Elements
<1>5. iterable \in I /\ query \in Q /\ mean \in M
  BY <1>2, <1>3, <1>4
<1>6. /\ meant'.queries = Append(meant.queries, mean)
      /\ meant'.handles = meant.handles /\ meant'.observables = meant.observables
  BY <1>1 DEF TypeOK
<1>7. /\ wrappedIterables' \in Seq(I) /\ Len(wrappedIterables') = q
      /\ DOMAIN wrappedIterables' = DOMAIN queries \cup {q}
      /\ \A p \in DOMAIN queries : wrappedIterables'[p] = wrappedIterables[p]
      /\ wrappedIterables'[q] = iterable
  BY <1>1, <1>2, <1>5, Grows
<1>8. /\ queries' \in Seq(Q) /\ Len(queries') = q /\ DOMAIN queries' = DOMAIN queries \cup {q}
      /\ \A p \in DOMAIN queries : queries'[p] = queries[p]
      /\ queries'[q] = query
  BY <1>1, <1>2, <1>5, Grows
<1>9. /\ meant'.queries \in Seq(M) /\ DOMAIN meant'.queries = DOMAIN queries \cup {q}
      /\ \A p \in DOMAIN queries : meant'.queries[p] = meant.queries[p]
      /\ meant'.queries[q] = mean
  BY <1>2, <1>5, <1>6, Grows
<1>10. \A p \in DOMAIN queries : QueryMeant(p) /\ p \in DOMAIN wrappedIterables
  BY <1>2, LenProperties
<1>11. HandleMeant(h) /\ query.wrapped = q /\ query.adapter = handles[h].adapter
       /\ iterable.settings = wrappedHandles[handles[h].wrapped] /\ iterable.options = option
       /\ mean.account = meant.handles[h] /\ mean.options = option
  BY <1>2
<1> HIDE DEF I, Q, M, iterable, query, mean, q
<1>12. \A p \in DOMAIN queries' : QueryMeant(p)'
  <2>1. ASSUME NEW p \in DOMAIN queries PROVE QueryMeant(p)'
    BY <1>7, <1>8, <1>9, <1>10 DEF QueryMeant
  <2>2. ASSUME NEW p, p = q PROVE QueryMeant(p)'
    BY <1>7, <1>8, <1>9, <1>11, <2>2 DEF QueryMeant, HandleMeant
  <2> QED BY <1>8, <2>1, <2>2
<1>13. TypeOK'
  <2>1. meant' \in [handles     : Seq(Accounts),
                    queries     : Seq([account : Accounts, options : Options]),
                    observables : Seq([sort : {"query", "handle"}, of : Nat])]
    BY <1>1, <1>6, <1>9 DEF TypeOK, M
  <2>2. \A p \in DOMAIN queries' : queries'[p].wrapped \in DOMAIN wrappedIterables'
    BY <1>7, <1>8, <1>12 DEF QueryMeant
  <2> QED BY <1>1, <1>6, <1>7, <1>8, <1>9, <2>1, <2>2 DEF TypeOK, I, Q
<1>14. \A p \in DOMAIN handles' : HandleMeant(p)'
  BY <1>1, <1>6 DEF HandleMeant
<1>15. /\ \A o \in DOMAIN observables : ObservableMeant(o)'
       /\ \A i \in DOMAIN operations : OperationMeant(i)'
  BY <1>1, <1>6, <1>8, <1>9, OldKept
<1> QED BY <1>1, <1>7, <1>8, <1>12, <1>13, <1>14, <1>15

\* A setter reaches its own query.
LEMMA ConfigureStep ==
    ASSUME FInv, NEW q \in DOMAIN queries, NEW kind, NEW option \in Options,
           Configure(q, kind, option)
    PROVE  FInv'
<1> USE DEF FInv
<1> DEFINE I == [settings : Setting, options : Options]
           M == [account : Accounts, options : Options]
<1>1. /\ wrappedIterables' = [wrappedIterables EXCEPT ![q].options = option]
      /\ meant' = [meant EXCEPT !.queries[q].options = option]
      /\ UNCHANGED <<wrappedHandles, handles, queries, observables, operations>>
  BY DEF Configure, QueryMeant
<1>2. /\ wrappedIterables \in Seq(I) /\ meant.queries \in Seq(M)
      /\ DOMAIN wrappedIterables = DOMAIN queries /\ DOMAIN meant.queries = DOMAIN queries
      /\ DOMAIN queries = 1..Len(queries) /\ Len(queries) \in Nat
  BY LenProperties DEF TypeOK
<1>3. /\ meant'.queries = [meant.queries EXCEPT ![q].options = option]
      /\ meant'.handles = meant.handles /\ meant'.observables = meant.observables
  BY <1>1 DEF TypeOK
<1>4. wrappedIterables[q] \in I /\ meant.queries[q] \in M
  BY <1>2, Elements
<1>5. /\ wrappedIterables'[q].settings = wrappedIterables[q].settings
      /\ wrappedIterables'[q].options = option
      /\ wrappedIterables'[q] \in I
      /\ \A p \in DOMAIN queries : p # q => wrappedIterables'[p] = wrappedIterables[p]
      /\ DOMAIN wrappedIterables' = DOMAIN queries
  BY <1>1, <1>2, <1>4
<1>6. /\ meant'.queries[q].account = meant.queries[q].account
      /\ meant'.queries[q].options = option
      /\ meant'.queries[q] \in M
      /\ \A p \in DOMAIN queries : p # q => meant'.queries[p] = meant.queries[p]
      /\ DOMAIN meant'.queries = DOMAIN queries
  <2>1. meant'.queries[q] = [meant.queries[q] EXCEPT !.options = option]
    BY <1>2, <1>3
  <2>2. /\ [meant.queries[q] EXCEPT !.options = option].account = meant.queries[q].account
        /\ [meant.queries[q] EXCEPT !.options = option].options = option
        /\ [meant.queries[q] EXCEPT !.options = option] \in M
    BY <1>4
  <2>3. /\ \A p \in DOMAIN queries : p # q => meant'.queries[p] = meant.queries[p]
        /\ DOMAIN meant'.queries = DOMAIN queries
    BY <1>2, <1>3
  <2> QED BY <2>1, <2>2, <2>3
<1>7. wrappedIterables' \in Seq(I) /\ Len(wrappedIterables') = Len(wrappedIterables)
  <2>1. wrappedIterables' = [wrappedIterables EXCEPT ![q] = wrappedIterables'[q]]
    BY <1>1, <1>2
  <2>2. q \in 1..Len(wrappedIterables)
    BY <1>2, LenProperties
  <2> QED BY <1>2, <1>5, <2>1, <2>2, ExceptSeq
<1>8. meant'.queries \in Seq(M)
  <2>1. meant'.queries = [meant.queries EXCEPT ![q] = meant'.queries[q]]
    BY <1>2, <1>3
  <2>2. q \in 1..Len(meant.queries)
    BY <1>2, LenProperties
  <2> QED BY <1>2, <1>6, <2>1, <2>2, ExceptSeq
<1>9. TypeOK'
  <2>1. meant' \in [handles     : Seq(Accounts),
                    queries     : Seq([account : Accounts, options : Options]),
                    observables : Seq([sort : {"query", "handle"}, of : Nat])]
    BY <1>1, <1>3, <1>8 DEF TypeOK
  <2> QED BY <1>1, <1>2, <1>3, <1>5, <1>6, <1>7, <2>1 DEF TypeOK
<1>10. \A p \in DOMAIN queries' : QueryMeant(p)'
  BY <1>1, <1>5, <1>6 DEF QueryMeant
<1>11. \A h \in DOMAIN handles' : HandleMeant(h)'
  BY <1>1, <1>3 DEF HandleMeant
<1>12. /\ \A o \in DOMAIN observables : ObservableMeant(o)'
       /\ \A i \in DOMAIN operations : OperationMeant(i)'
  BY <1>1, <1>3, <1>6, OldKept
<1> QED BY <1>1, <1>7, <1>9, <1>10, <1>11, <1>12

\* A new Observable, of a query or of a handle.
LEMMA ObservableStep ==
    ASSUME FInv,
           \/ \E q \in DOMAIN queries : ToObservable(q)
           \/ \E h \in DOMAIN handles : OneShot(h)
    PROVE  FInv'
<1> USE DEF FInv
<1> DEFINE O == [target : [sort : {"query", "handle"}, wrapped : Nat], adapters : Seq(Adapter)]
           M == [sort : {"query", "handle"}, of : Nat]
<1>1. PICK m \in M, observable \in O :
        /\ observables' = Append(observables, observable)
        /\ meant' = [meant EXCEPT !.observables = Append(meant.observables, m)]
        /\ \/ /\ m.sort = "query" /\ m.of \in DOMAIN queries
              /\ observable = [ target   |-> [sort |-> "query", wrapped |-> m.of],
                                adapters |-> <<queries[m.of].adapter>> ]
           \/ /\ m.sort = "handle" /\ m.of \in DOMAIN handles
              /\ observable = [ target   |-> [sort |-> "handle",
                                              wrapped |-> handles[m.of].wrapped],
                                adapters |-> <<handles[m.of].adapter>> ]
  <2>1. ASSUME NEW q \in DOMAIN queries, ToObservable(q)
        PROVE  \E m \in M, observable \in O :
                /\ observables' = Append(observables, observable)
                /\ meant' = [meant EXCEPT !.observables = Append(meant.observables, m)]
                /\ m.sort = "query" /\ m.of \in DOMAIN queries
                /\ observable = [ target   |-> [sort |-> "query", wrapped |-> m.of],
                                  adapters |-> <<queries[m.of].adapter>> ]
    <3> DEFINE m == [sort |-> "query", of |-> q]
               observable == [ target   |-> [sort |-> "query", wrapped |-> q],
                               adapters |-> <<queries[q].adapter>> ]
    <3>1. q \in Nat /\ queries[q].adapter \in Adapter /\ queries[q].wrapped = q
      BY Elements DEF QueryMeant
    <3>2. m \in M /\ observable \in O
      BY <3>1
    <3>3. /\ observables' = Append(observables, observable)
          /\ meant' = [meant EXCEPT !.observables = Append(meant.observables, m)]
      BY <2>1, <3>1 DEF ToObservable, Create
    <3> QED BY <3>2, <3>3
  <2>2. ASSUME NEW h \in DOMAIN handles, OneShot(h)
        PROVE  \E m \in M, observable \in O :
                /\ observables' = Append(observables, observable)
                /\ meant' = [meant EXCEPT !.observables = Append(meant.observables, m)]
                /\ m.sort = "handle" /\ m.of \in DOMAIN handles
                /\ observable = [ target   |-> [sort |-> "handle",
                                                wrapped |-> handles[m.of].wrapped],
                                  adapters |-> <<handles[m.of].adapter>> ]
    <3> DEFINE m == [sort |-> "handle", of |-> h]
               observable == [ target   |-> [sort |-> "handle", wrapped |-> handles[h].wrapped],
                               adapters |-> <<handles[h].adapter>> ]
    <3>1. h \in Nat /\ handles[h].adapter \in Adapter /\ handles[h].wrapped \in Nat
      BY Elements
    <3>2. m \in M /\ observable \in O
      BY <3>1
    <3>3. /\ observables' = Append(observables, observable)
          /\ meant' = [meant EXCEPT !.observables = Append(meant.observables, m)]
      BY <2>2 DEF OneShot, Create
    <3> QED BY <3>2, <3>3
  <2> QED BY <2>1, <2>2
<1>2. UNCHANGED <<wrappedHandles, wrappedIterables, handles, queries, operations>>
  BY DEF ToObservable, OneShot, Create
<1>3. /\ meant'.observables = Append(meant.observables, m)
      /\ meant'.handles = meant.handles /\ meant'.queries = meant.queries
  BY <1>1 DEF TypeOK
<1>4. /\ observables \in Seq(O) /\ meant.observables \in Seq(M)
      /\ Len(meant.observables) = Len(observables)
  BY LenProperties DEF TypeOK
<1> DEFINE new == Len(observables) + 1
<1>5. /\ observables' \in Seq(O) /\ DOMAIN observables' = DOMAIN observables \cup {new}
      /\ \A o \in DOMAIN observables : observables'[o] = observables[o]
      /\ observables'[new] = observable
  BY <1>1, <1>4, Grows
<1>6. /\ meant'.observables \in Seq(M)
      /\ DOMAIN meant'.observables = DOMAIN observables \cup {new}
      /\ \A o \in DOMAIN observables : meant'.observables[o] = meant.observables[o]
      /\ meant'.observables[new] = m
  <2> DEFINE accounts == meant.observables
  <2>1. accounts \in Seq(M) /\ m \in M /\ Len(accounts) + 1 = new
    BY <1>4
  <2>2. DOMAIN accounts = DOMAIN observables /\ meant'.observables = Append(accounts, m)
    BY <1>3 DEF TypeOK
  <2> HIDE DEF accounts, M, new
  <2>3. /\ Append(accounts, m) \in Seq(M)
        /\ DOMAIN Append(accounts, m) = DOMAIN accounts \cup {new}
        /\ \A o \in DOMAIN accounts : Append(accounts, m)[o] = accounts[o]
        /\ Append(accounts, m)[new] = m
    BY <2>1, Grows
  <2> QED BY <2>2, <2>3 DEF accounts
<1> HIDE DEF O, M, new
<1>7. TypeOK'
  <2>1. meant' \in [handles     : Seq(Accounts),
                    queries     : Seq([account : Accounts, options : Options]),
                    observables : Seq([sort : {"query", "handle"}, of : Nat])]
    BY <1>1, <1>3, <1>6 DEF TypeOK, M
  <2> QED BY <1>2, <1>3, <1>5, <1>6, <2>1 DEF TypeOK, O
<1>8. /\ \A o \in DOMAIN observables : ObservableMeant(o)'
      /\ \A i \in DOMAIN operations : OperationMeant(i)'
  BY <1>2, <1>3, <1>5, <1>6, OldKept
<1>9. ASSUME NEW o, o = new PROVE ObservableMeant(o)'
  BY <1>1, <1>2, <1>5, <1>6, <1>9 DEF ObservableMeant
<1>10. \A q \in DOMAIN queries' : QueryMeant(q)'
  BY <1>2, <1>3 DEF QueryMeant
<1>11. \A h \in DOMAIN handles' : HandleMeant(h)'
  BY <1>2, <1>3 DEF HandleMeant
<1> QED BY <1>2, <1>5, <1>7, <1>8, <1>9, <1>10, <1>11

\* What an operation runs with, when it is run.
LEMMA RunsWith ==
    ASSUME FInv, NEW o \in DOMAIN observables, Run(o)
    PROVE  \E with \in [settings : Setting, options : Options \cup {NoOption}] :
            /\ operations' = Append(operations, [of |-> o, with |-> with])
            /\ with.settings = AccountOf(o).settings
            /\ meant.observables[o].sort = "query" =>
                    with.options = meant.queries[meant.observables[o].of].options
<1> USE DEF FInv
<1> DEFINE m == meant.observables[o]
<1>1. ObservableMeant(o)
  OBVIOUS
<1>2. CASE m.sort = "query" /\ m.of \in DOMAIN queries
  <2> DEFINE with == wrappedIterables[m.of]
  <2>1. /\ observables[o].target.sort = "query" /\ observables[o].target.wrapped = m.of
    BY <1>1, <1>2 DEF ObservableMeant
  <2>2. operations' = Append(operations, [of |-> o, with |-> with])
    BY <2>1 DEF Run
  <2>3. QueryMeant(m.of) /\ m.of \in DOMAIN wrappedIterables
    BY <1>2 DEF QueryMeant, TypeOK
  <2>4. with \in [settings : Setting, options : Options]
    BY <2>3, Elements
  <2>5. /\ with.settings = AccountOf(o).settings
        /\ with.options = meant.queries[m.of].options
    BY <1>2, <2>3 DEF QueryMeant, AccountOf, Account
  <2> QED BY <2>2, <2>4, <2>5
<1>3. CASE m.sort = "handle" /\ m.of \in DOMAIN handles
  <2> DEFINE with == [settings |-> wrappedHandles[handles[m.of].wrapped], options |-> NoOption]
  <2>1. /\ observables[o].target.sort = "handle"
        /\ observables[o].target.wrapped = handles[m.of].wrapped
    BY <1>1, <1>3 DEF ObservableMeant
  <2>2. operations' = Append(operations, [of |-> o, with |-> with])
    BY <2>1 DEF Run
  <2>3. HandleMeant(m.of) /\ handles[m.of].wrapped \in DOMAIN wrappedHandles
    BY <1>3 DEF TypeOK
  <2>4. with \in [settings : Setting, options : Options \cup {NoOption}]
    BY <1>3, Elements
  <2>5. with.settings = AccountOf(o).settings
    BY <1>3, <2>3 DEF HandleMeant, AccountOf, Account
  <2> QED BY <1>3, <2>2, <2>4, <2>5
<1> QED BY <1>1, <1>2, <1>3 DEF ObservableMeant

LEMMA RunStep ==
    ASSUME FInv, NEW o \in DOMAIN observables, Run(o)
    PROVE  FInv'
<1> USE DEF FInv
<1> DEFINE W == [settings : Setting, options : Options \cup {NoOption}]
           P == [of : Nat, with : W]
<1>1. PICK with \in W :
        /\ operations' = Append(operations, [of |-> o, with |-> with])
        /\ with.settings = AccountOf(o).settings
  BY RunsWith
<1>2. UNCHANGED <<wrappedHandles, wrappedIterables, handles, queries, observables, meant>>
  BY DEF Run
<1> DEFINE operation == [of |-> o, with |-> with]
           new == Len(operations) + 1
<1>3. o \in Nat /\ operations \in Seq(P)
  BY Elements DEF TypeOK
<1>4. operation \in P /\ operation.of = o /\ operation.with = with
  BY <1>3
<1>5. /\ operations' \in Seq(P) /\ DOMAIN operations' = DOMAIN operations \cup {new}
      /\ \A i \in DOMAIN operations : operations'[i] = operations[i]
      /\ operations'[new] = operation
  BY <1>1, <1>3, <1>4, Grows
<1> HIDE DEF W, P, operation, new
<1>6. TypeOK'
  BY <1>2, <1>4, <1>5 DEF TypeOK, P, W
<1>7. /\ \A p \in DOMAIN observables : ObservableMeant(p)' /\ AccountOf(p)' = AccountOf(p)
      /\ \A i \in DOMAIN operations : OperationMeant(i)'
  BY <1>2, <1>5, OldKept
<1>8. ASSUME NEW i, i = new PROVE OperationMeant(i)'
  BY <1>1, <1>4, <1>5, <1>7, <1>8 DEF OperationMeant
<1>9. \A q \in DOMAIN queries' : QueryMeant(q)'
  BY <1>2 DEF QueryMeant
<1>10. \A h \in DOMAIN handles' : HandleMeant(h)'
  BY <1>2 DEF HandleMeant
<1> QED BY <1>2, <1>5, <1>6, <1>7, <1>8, <1>9, <1>10

-----------------------------------------------------------------------------
(***************************************************************************)
(* Every step, and the theorems.                                           *)
(***************************************************************************)

\* A child object or another setting: the driver makes a new wrapped object.
LEMMA NewObjectStep ==
    ASSUME FInv, NEW level \in Levels, NEW setting \in Setting, NEW adapter \in Adapter,
           NEW account, account = Account(setting, adapter),
           NewWrapped(setting),
           NewHandle(level, Len(wrappedHandles) + 1, adapter, account)
    PROVE  FInv'
<1> DEFINE w == Len(wrappedHandles) + 1
<1>1. wrappedHandles \in Seq(Setting) /\ wrappedHandles' = Append(wrappedHandles, setting)
  BY DEF FInv, TypeOK, NewWrapped
<1>2. /\ wrappedHandles' \in Seq(Setting)
      /\ DOMAIN wrappedHandles' = DOMAIN wrappedHandles \cup {w}
      /\ \A i \in DOMAIN wrappedHandles : wrappedHandles'[i] = wrappedHandles[i]
      /\ wrappedHandles'[w] = setting
  BY <1>1, Grows
<1>3. account \in Accounts
  BY DEF Accounts, Account
<1>4. w \in DOMAIN wrappedHandles' /\ NewHandle(level, w, adapter, account)
      /\ account = Account(wrappedHandles'[w], adapter)
      /\ DOMAIN wrappedHandles \subseteq DOMAIN wrappedHandles'
  BY <1>2
<1> HIDE DEF w
<1> QED BY <1>2, <1>3, <1>4, HandleStep

\* The methods of a handle that return another handle.
LEMMA NextHandleStep ==
    ASSUME FInv, NEW h \in DOMAIN handles, NextHandle(h)
    PROVE  FInv'
<1>1. /\ handles[h].adapter \in Adapter
      /\ wrappedHandles[handles[h].wrapped] \in Setting
      /\ handles[h].wrapped \in DOMAIN wrappedHandles
      /\ meant.handles[h] = Account(wrappedHandles[handles[h].wrapped], handles[h].adapter)
      /\ wrappedHandles \in Seq(Setting)
  BY Elements DEF FInv, TypeOK, HandleMeant
<1>2. ASSUME NEW from, NEW to \in Levels, Child(h, from, to) PROVE FInv'
  BY <1>1, <1>2, NewObjectStep DEF Child
<1>3. ASSUME NEW level \in Levels, NEW adapter \in Adapters, WithAdapter(h, level, adapter)
      PROVE  FInv'
  <2> DEFINE w == handles[h].wrapped
             account == Account(meant.handles[h].settings, adapter)
  <2>1. wrappedHandles' = wrappedHandles /\ NewHandle(level, w, adapter, account)
    BY <1>3 DEF WithAdapter
  <2>2. account = Account(wrappedHandles'[w], adapter) /\ account \in Accounts
        /\ adapter \in Adapter /\ w \in DOMAIN wrappedHandles'
    BY <1>1, <2>1 DEF Account, Accounts, Adapter
  <2>3. /\ wrappedHandles' \in Seq(Setting)
        /\ DOMAIN wrappedHandles \subseteq DOMAIN wrappedHandles'
        /\ \A i \in DOMAIN wrappedHandles : wrappedHandles'[i] = wrappedHandles[i]
    BY <1>1, <2>1
  <2> HIDE DEF w, account
  <2> QED BY <2>1, <2>2, <2>3, HandleStep
<1>4. ASSUME NEW level \in Levels, NEW setting \in Settings, With(h, level, setting)
      PROVE  FInv'
  <2>1. Account(setting, meant.handles[h].adapter) = Account(setting, handles[h].adapter)
        /\ setting \in Setting
    BY <1>1 DEF Account, Setting
  <2> QED BY <1>1, <1>4, <2>1, NewObjectStep DEF With
<1>5. CASE GetDatabase(h) \/ GetCollection(h) \/ CreateBucket(h) \/ OpenUploadStream(h)
  BY <1>2, <1>5 DEF GetDatabase, GetCollection, CreateBucket, OpenUploadStream, Levels
<1>6. CASE \E a \in Adapters : DatabaseWithAdapter(h, a) \/ CollectionWithAdapter(h, a)
  BY <1>3, <1>6 DEF DatabaseWithAdapter, CollectionWithAdapter, Levels
<1>7. CASE \E v \in Settings : DatabaseWith(h, v) \/ CollectionWith(h, v) \/ BucketWith(h, v)
  BY <1>4, <1>7 DEF DatabaseWith, CollectionWith, BucketWith, Levels
<1> QED BY <1>5, <1>6, <1>7 DEF NextHandle

LEMMA StepFInv ==
    ASSUME FInv, [Next]_vars
    PROVE  FInv'
<1>1. ASSUME NEW h \in DOMAIN handles, NextHandle(h) PROVE FInv'
  BY <1>1, NextHandleStep
<1>2. ASSUME NEW h \in DOMAIN handles, NEW option \in Options, NextQuery(h, option)
      PROVE  FInv'
  <2>1. ASSUME NEW level, NEW kind \in Kinds, Query(h, level, kind, option) PROVE FInv'
    BY <2>1, QueryStep
  <2> QED BY <1>2, <2>1
          DEF NextQuery, Find, Distinct, Aggregate, MapReduce, ListIndexes, ListCollections,
              ListDatabases, FindFiles, OpenDownloadStream, Kinds
<1>3. ASSUME NEW h \in DOMAIN handles, OneShot(h) PROVE FInv'
  BY <1>3, ObservableStep
<1>4. ASSUME NEW a \in Adapters \cup {Noop}, ToAsyncStream(a) PROVE FInv'
  <2>1. Default \in Setting /\ a \in Adapter /\ "stream" \in Levels
    BY DEF Setting, Adapter, Levels
  <2> QED BY <1>4, <2>1, NewObjectStep DEF ToAsyncStream
<1>5. ASSUME NEW q \in DOMAIN queries, NEW option \in Options, NextOption(q, option)
      PROVE  FInv'
  <2>1. ASSUME NEW kind, Configure(q, kind, option) PROVE FInv'
    BY <2>1, ConfigureStep
  <2> QED BY <1>5, <2>1
          DEF NextOption, ConfigureFind, ConfigureDistinct, ConfigureAggregate,
              ConfigureMapReduce, ConfigureListIndexes, ConfigureListCollections,
              ConfigureListDatabases, ConfigureFindFiles, ConfigureDownloadStream
<1>6. ASSUME NEW q \in DOMAIN queries, ToObservable(q) PROVE FInv'
  BY <1>6, ObservableStep
<1>7. ASSUME NEW o \in DOMAIN observables, Run(o) PROVE FInv'
  BY <1>7, RunStep
<1>8. CASE UNCHANGED vars
  BY <1>8 DEF FInv, TypeOK, HandleMeant, QueryMeant, ObservableMeant, OperationMeant,
              AccountOf, vars
<1> QED BY <1>1, <1>2, <1>3, <1>4, <1>5, <1>6, <1>7, <1>8 DEF Next

\* The inductive invariant holds in every reachable state.
THEOREM QueriesInvariance == Spec => []FInv
<1>1. Init => FInv
  BY InitFInv
<1>2. FInv /\ [Next]_vars => FInv'
  BY StepFInv
<1> QED BY <1>1, <1>2, PTL DEF Spec

\* The objects and their accounts are well formed: every handle wraps a handle
\* and every query an iterable that exists.
THEOREM QueriesTypes == Spec => []TypeOK
<1>1. FInv => TypeOK
  BY DEF FInv
<1> QED BY <1>1, QueriesInvariance, PTL

\* Whatever else was derived from the same objects, an Observable has been
\* through the one adapter last chosen on the chain of calls it came from.
THEOREM AdaptersInherited == Spec => []AdapterInherited
<1>1. FInv => AdapterInherited
  <2> SUFFICES ASSUME FInv, NEW o \in DOMAIN observables
               PROVE  observables[o].adapters = << AccountOf(o).adapter >>
    BY DEF AdapterInherited
  <2> DEFINE m == meant.observables[o]
  <2>1. ObservableMeant(o)
    BY DEF FInv
  <2>2. CASE m.sort = "query" /\ m.of \in DOMAIN queries
    <3>1. AccountOf(o).adapter = queries[m.of].adapter
      <4>1. QueryMeant(m.of)
        BY <2>2 DEF FInv
      <4>2. AccountOf(o) = Account(wrappedIterables[m.of].settings, queries[m.of].adapter)
        BY <2>2, <4>1 DEF QueryMeant, AccountOf
      <4> QED BY <4>2 DEF Account
    <3>2. observables[o].adapters = <<queries[m.of].adapter>>
      BY <2>1, <2>2 DEF ObservableMeant
    <3> QED BY <3>1, <3>2
  <2>3. CASE m.sort = "handle" /\ m.of \in DOMAIN handles
    <3>1. AccountOf(o).adapter = handles[m.of].adapter
      <4>1. HandleMeant(m.of)
        BY <2>3 DEF FInv
      <4>2. AccountOf(o) = Account(wrappedHandles[handles[m.of].wrapped], handles[m.of].adapter)
        BY <2>3, <4>1 DEF HandleMeant, AccountOf
      <4> QED BY <4>2 DEF Account
    <3>2. observables[o].adapters = <<handles[m.of].adapter>>
      BY <2>1, <2>3 DEF ObservableMeant
    <3> QED BY <3>1, <3>2
  <2> QED BY <2>1, <2>2, <2>3 DEF ObservableMeant
<1> QED BY <1>1, QueriesInvariance, PTL

\* An operation ran with the settings last chosen on that chain: no later call
\* reached back to it.
THEOREM SettingsAreInherited == Spec => []SettingsInherited
<1>1. FInv => SettingsInherited
  BY DEF FInv, SettingsInherited, OperationMeant
<1> QED BY <1>1, QueriesInvariance, PTL

\* An operation runs with its own query's options of that moment, whatever was
\* set on the other queries of the same collection.
THEOREM OwnOptions == Spec => OptionsOfOwnQuery
<1> DEFINE A == \A o \in DOMAIN observables :
                    /\ Run(o)
                    /\ meant.observables[o].sort = "query"
                    => operations'[Len(operations')].with.options
                          = meant.queries[meant.observables[o].of].options
<1>1. FInv => A
  <2> SUFFICES ASSUME FInv, NEW o \in DOMAIN observables, Run(o),
                      meant.observables[o].sort = "query"
               PROVE  operations'[Len(operations')].with.options
                          = meant.queries[meant.observables[o].of].options
    OBVIOUS
  <2> DEFINE W == [settings : Setting, options : Options \cup {NoOption}]
             P == [of : Nat, with : W]
  <2>1. PICK with \in W :
          /\ operations' = Append(operations, [of |-> o, with |-> with])
          /\ with.options = meant.queries[meant.observables[o].of].options
    BY RunsWith
  <2>2. operations \in Seq(P) /\ [of |-> o, with |-> with] \in P
    BY Elements DEF FInv, TypeOK
  <2>3. operations'[Len(operations')] = [of |-> o, with |-> with]
    BY <2>1, <2>2, Grows
  <2> QED BY <2>1, <2>3
<1>2. FInv /\ [Next]_vars => [A]_vars
  BY <1>1
<1> QED BY <1>2, QueriesInvariance, PTL DEF Spec, OptionsOfOwnQuery
=============================================================================
