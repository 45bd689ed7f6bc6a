---------------------------- MODULE DemandProofs ----------------------------
(***************************************************************************)
(* Backpressure of RxBridge and its converse, that no request is lost, for *)
(* every set of threads, and with them the contract: that every step of    *)
(* the bridge is one ObservableContract allows, or none that the           *)
(* application can see.                                                    *)
(*                                                                         *)
(* What is delivered was asked for because every result asked for is at    *)
(* one place at a time: with the subscriber until there is a producer,     *)
(* with a thread on its way through ObservableToProducer.request, owed by  *)
(* the driver, or delivered.  The threads' part is a sum over all of them, *)
(* which a step, changing one thread's amount, moves by the difference.    *)
(***************************************************************************)
EXTENDS RxBridgeProofs, FiniteSetsExt, FiniteSetTheorems, WellFoundedInduction

\* The amounts of all processes together.
Sum(am) == MapThenSumSet(LAMBDA p : am[p], Procs)

\* Requests that threads have accepted and not yet passed on to the driver.
InTransit == Sum(amount)

\* Requested of the subscriber while there is no producer.
HeldBack == IF wiring # "done" /\ pending # NotSet THEN pending ELSE 0

Left == asked - emitted - demand - HeldBack

DInv ==
    /\ InTransit <= Left
    /\ wiring # "done" /\ pending = NotSet => asked = 0
    /\ nexts <= emitted
    /\ pc[Driver] \in {"onNext", "sendNext"} => nexts < emitted

-----------------------------------------------------------------------------
(***************************************************************************)
(* Sums over a finite set.  The sum is a fold: a function on the subsets,  *)
(* defined by recursion.  That there is such a function, and what follows  *)
(* of it, is shown by induction over the size of the subsets; induction    *)
(* is stated with sets in place of predicates.                             *)
(***************************************************************************)

\* The element that a fold takes first.
First(s) == CHOOSE x \in s : TRUE

Step(am, it, s) == IF s = {} THEN 0 ELSE am[First(s)] + it[s \ {First(s)}]

\* it gives the sums of the sets in T.
Adds(am, T, it) == it = [s \in T |-> Step(am, it, s)]

Partial(am, S) == CHOOSE it : it = [s \in SUBSET S |-> Step(am, it, s)]

\* Induction over the natural numbers.
LEMMA NatSetInduction ==
    ASSUME NEW T, 0 \in T, \A n \in Nat : n \in T => n + 1 \in T
    PROVE  Nat \subseteq T
<1> DEFINE R == {ss \in Nat \X Nat : ss[1] < ss[2]}
<1>1. IsWellFoundedOn(R, Nat)
  BY NatLessThanWellFounded DEF OpToRel
<1>2. SUFFICES ASSUME Nat \ T # {} PROVE FALSE
  OBVIOUS
<1>3. PICK x \in Nat \ T : \A y \in Nat \ T : <<y, x>> \notin R
  <2> HIDE DEF R
  <2> QED BY <1>1, <1>2, WFMin
<1>4. x # 0 /\ x - 1 \in Nat /\ x - 1 \notin T
  BY <1>3
<1>5. <<x - 1, x>> \in R
  BY <1>3, <1>4
<1> QED BY <1>3, <1>4, <1>5

LEMMA FirstElement == ASSUME NEW s, s # {} PROVE First(s) \in s
BY DEF First

LEMMA WithoutFirst ==
    ASSUME NEW S, IsFiniteSet(S), NEW s \in SUBSET S, s # {}
    PROVE  /\ s \ {First(s)} \in SUBSET S
           /\ Cardinality(s) \in Nat /\ Cardinality(s) > 0
           /\ Cardinality(s \ {First(s)}) = Cardinality(s) - 1
<1>1. IsFiniteSet(s)
  BY FS_Subset
<1>2. Cardinality(s) \in Nat
  BY <1>1, FS_CardinalityType
<1>3. Cardinality(s) # 0
  BY <1>1, FS_EmptySet
<1>4. First(s) \in s
  BY FirstElement
<1>5. Cardinality(s \ {First(s)}) = Cardinality(s) - 1
  BY <1>1, <1>4, FS_RemoveElement
<1> QED BY <1>2, <1>3, <1>5

\* Induction over the subsets of a finite set, one element at a time.
LEMMA SubsetInduction ==
    ASSUME NEW S, IsFiniteSet(S), NEW T, {} \in T,
           \A s \in SUBSET S : s # {} /\ s \ {First(s)} \in T => s \in T
    PROVE  SUBSET S \subseteq T
<1> DEFINE N == {n \in Nat : \A s \in SUBSET S : Cardinality(s) = n => s \in T}
<1>1. 0 \in N
  BY FS_Subset, FS_EmptySet
<1>2. ASSUME NEW n \in Nat, n \in N PROVE n + 1 \in N
  <2>1. ASSUME NEW s \in SUBSET S, Cardinality(s) = n + 1 PROVE s \in T
    <3>1. s # {}
      BY <2>1, FS_EmptySet
    <3>2. s \ {First(s)} \in SUBSET S /\ Cardinality(s \ {First(s)}) = n
      BY <2>1, <3>1, WithoutFirst
    <3>3. s \ {First(s)} \in T
      BY <1>2, <3>2
    <3> QED BY <3>1, <3>3
  <2> QED BY <2>1
<1>3. Nat \subseteq N
  <2> HIDE DEF N
  <2> QED BY <1>1, <1>2, NatSetInduction
<1>4. ASSUME NEW s \in SUBSET S PROVE s \in T
  <2>1. Cardinality(s) \in Nat
    BY FS_Subset, FS_CardinalityType
  <2> QED BY <1>3, <2>1
<1> QED BY <1>4

\* The recursion defines a function.
LEMMA PartialExists ==
    ASSUME NEW S, IsFiniteSet(S), NEW am
    PROVE  \E it : Adds(am, SUBSET S, it)
<1> DEFINE D(n) == {s \in SUBSET S : Cardinality(s) <= n}
           N == {n \in Nat : \E it : Adds(am, D(n), it)}
<1>1. 0 \in N
  <2> DEFINE it == [s \in D(0) |-> 0]
  <2>1. ASSUME NEW s \in D(0) PROVE Step(am, it, s) = 0
    <3>1. s = {}
      <4>1. SUFFICES ASSUME s # {} PROVE FALSE
        OBVIOUS
      <4>2. Cardinality(s) \in Nat /\ Cardinality(s) > 0
        BY <4>1, WithoutFirst
      <4> QED BY <4>2
    <3> QED BY <3>1 DEF Step
  <2>2. it = [s \in D(0) |-> Step(am, it, s)]
    BY <2>1
  <2> QED BY <2>2 DEF Adds
<1>2. ASSUME NEW n \in Nat, n \in N PROVE n + 1 \in N
  <2>1. PICK it : it = [s \in D(n) |-> Step(am, it, s)]
    BY <1>2 DEF Adds
  <2> DEFINE jt == [s \in D(n + 1) |-> Step(am, it, s)]
  <2>2. ASSUME NEW s \in D(n + 1) PROVE Step(am, jt, s) = Step(am, it, s)
    <3>1. CASE s = {}
      BY <3>1 DEF Step
    <3>2. CASE s # {}
      <4> DEFINE r == s \ {First(s)}
      <4>1. r \in D(n) /\ r \in D(n + 1)
        BY <3>2, WithoutFirst
      <4>2. it[r] = Step(am, it, r)
        BY <2>1, <4>1
      <4>3. jt[r] = Step(am, it, r)
        BY <4>1
      <4>4. jt[r] = it[r]
        BY <4>2, <4>3
      <4> QED BY <3>2, <4>4 DEF Step
    <3> QED BY <3>1, <3>2
  <2>3. jt = [s \in D(n + 1) |-> Step(am, jt, s)]
    BY <2>2
  <2>4. Adds(am, D(n + 1), jt)
    BY <2>3 DEF Adds
  <2> QED BY <2>4
<1>3. Nat \subseteq N
  <2> HIDE DEF N
  <2> QED BY <1>1, <1>2, NatSetInduction
<1>4. Cardinality(S) \in N
  BY <1>3, FS_CardinalityType
<1>5. D(Cardinality(S)) = SUBSET S
  <2>1. \A s \in SUBSET S : Cardinality(s) <= Cardinality(S)
    BY FS_Subset
  <2> QED BY <2>1
<1> QED BY <1>4, <1>5

LEMMA PartialDef ==
    ASSUME NEW S, IsFiniteSet(S), NEW am, NEW s \in SUBSET S
    PROVE  Partial(am, S)[s] = Step(am, Partial(am, S), s)
<1>1. Partial(am, S) = [t \in SUBSET S |-> Step(am, Partial(am, S), t)]
  BY PartialExists DEF Partial, Adds
<1> QED BY <1>1

\* The sum of nothing, and of a set in terms of one without its first element.
LEMMA PartialEmpty == ASSUME NEW S, IsFiniteSet(S), NEW am PROVE Partial(am, S)[{}] = 0
<1>1. Partial(am, S)[{}] = Step(am, Partial(am, S), {})
  BY PartialDef
<1> QED BY <1>1 DEF Step

LEMMA PartialStep ==
    ASSUME NEW S, IsFiniteSet(S), NEW am, NEW s \in SUBSET S, s # {}
    PROVE  Partial(am, S)[s] = am[First(s)] + Partial(am, S)[s \ {First(s)}]
BY PartialDef DEF Step

LEMMA PartialNat ==
    ASSUME NEW S, IsFiniteSet(S), NEW am \in [S -> Nat]
    PROVE  \A s \in SUBSET S : Partial(am, S)[s] \in Nat
<1> DEFINE T == {s \in SUBSET S : Partial(am, S)[s] \in Nat}
<1>1. {} \in T
  BY PartialEmpty
<1>2. ASSUME NEW s \in SUBSET S, s # {}, s \ {First(s)} \in T PROVE s \in T
  <2>1. First(s) \in S
    BY <1>2, FirstElement
  <2>2. Partial(am, S)[s] = am[First(s)] + Partial(am, S)[s \ {First(s)}]
    BY <1>2, PartialStep
  <2> QED BY <1>2, <2>1, <2>2
<1>3. SUBSET S \subseteq T
  <2> HIDE DEF T
  <2> QED BY <1>1, <1>2, SubsetInduction
<1> QED BY <1>3

\* An amount is part of every sum that it is counted in.
LEMMA PartialPart ==
    ASSUME NEW S, IsFiniteSet(S), NEW am \in [S -> Nat], NEW p \in S
    PROVE  \A s \in SUBSET S : p \in s => am[p] <= Partial(am, S)[s]
<1> DEFINE T == {s \in SUBSET S : p \in s => am[p] <= Partial(am, S)[s]}
<1>1. {} \in T
  OBVIOUS
<1>2. ASSUME NEW s \in SUBSET S, s # {}, s \ {First(s)} \in T PROVE s \in T
  <2> DEFINE x == First(s)
  <2>1. x \in S
    BY <1>2, FirstElement
  <2>2. Partial(am, S)[s] = am[x] + Partial(am, S)[s \ {x}]
    BY <1>2, PartialStep
  <2>3. Partial(am, S)[s \ {x}] \in Nat /\ am[x] \in Nat /\ am[p] \in Nat
    BY <2>1, PartialNat
  <2>4. p \in s /\ p # x => am[p] <= Partial(am, S)[s \ {x}]
    BY <1>2
  <2> HIDE DEF x
  <2> QED BY <2>2, <2>3, <2>4
<1>3. SUBSET S \subseteq T
  <2> HIDE DEF T
  <2> QED BY <1>1, <1>2, SubsetInduction
<1> QED BY <1>3

\* An exchanged amount moves the sums that it is counted in.
LEMMA PartialChange ==
    ASSUME NEW S, IsFiniteSet(S), NEW am \in [S -> Nat], NEW p \in S, NEW v \in Nat,
           NEW bm \in [S -> Nat], bm[p] = v, \A q \in S : q # p => bm[q] = am[q]
    PROVE  \A s \in SUBSET S :
               Partial(bm, S)[s] = Partial(am, S)[s] + (IF p \in s THEN v - am[p] ELSE 0)
<1> DEFINE T == {s \in SUBSET S : Partial(bm, S)[s]
                            = Partial(am, S)[s] + (IF p \in s THEN v - am[p] ELSE 0)}
<1>1. {} \in T
  BY PartialEmpty
<1>2. ASSUME NEW s \in SUBSET S, s # {}, s \ {First(s)} \in T PROVE s \in T
  <2> DEFINE x == First(s)
  <2>1. x \in S /\ x \in s
    BY <1>2, FirstElement
  <2>2. Partial(am, S)[s] = am[x] + Partial(am, S)[s \ {x}]
    BY <1>2, PartialStep
  <2>3. Partial(bm, S)[s] = bm[x] + Partial(bm, S)[s \ {x}]
    BY <1>2, PartialStep
  <2>4. Partial(am, S)[s \ {x}] \in Nat
    BY PartialNat
  <2>5. bm[x] = am[x] + (IF p = x THEN v - am[p] ELSE 0)
    BY <2>1
  <2>6. Partial(bm, S)[s \ {x}]
            = Partial(am, S)[s \ {x}] + (IF p \in s \ {x} THEN v - am[p] ELSE 0)
    BY <1>2
  <2> HIDE DEF x
  <2>7. am[x] \in Nat /\ am[p] \in Nat
    BY <2>1
  <2> QED BY <1>2, <2>1, <2>2, <2>3, <2>4, <2>5, <2>6, <2>7
<1>3. SUBSET S \subseteq T
  <2> HIDE DEF T
  <2> QED BY <1>1, <1>2, SubsetInduction
<1> QED BY <1>3

-----------------------------------------------------------------------------
(***************************************************************************)
(* The sum over the processes.                                             *)
(***************************************************************************)
LEMMA ProcsFinite == IsFiniteSet(Procs)
<1>1. IsFiniteSet(Threads \cup {Wirer})
  BY BridgeAssumption, FS_AddElement
<1>2. IsFiniteSet((Threads \cup {Wirer}) \cup {Driver})
  BY <1>1, FS_AddElement
<1>3. Procs = (Threads \cup {Wirer}) \cup {Driver}
  BY DEF Procs
<1> QED BY <1>2, <1>3

LEMMA SumIsPartial == ASSUME NEW am PROVE Sum(am) = Partial(am, Procs)[Procs]
BY DEF Sum, MapThenSumSet, MapThenFoldSet, Partial, Step, First

LEMMA SumNat == ASSUME NEW am \in [Procs -> Nat] PROVE Sum(am) \in Nat
BY ProcsFinite, SumIsPartial, PartialNat

\* Each amount is part of the sum.
LEMMA PartOfSum ==
    ASSUME NEW am \in [Procs -> Nat], NEW p \in Procs
    PROVE  am[p] <= Sum(am)
BY ProcsFinite, SumIsPartial, PartialPart

\* When one process exchanges its amount for another one, the sum moves by
\* the difference.
LEMMA SumChange ==
    ASSUME NEW am \in [Procs -> Nat], NEW p \in Procs, NEW v \in Nat
    PROVE  Sum([am EXCEPT ![p] = v]) = Sum(am) + v - am[p]
<1> DEFINE bm == [am EXCEPT ![p] = v]
<1>1. bm \in [Procs -> Nat] /\ bm[p] = v /\ \A q \in Procs : q # p => bm[q] = am[q]
  OBVIOUS
<1> HIDE DEF bm
<1>2. Partial(bm, Procs)[Procs] = Partial(am, Procs)[Procs] + (v - am[p])
  <2>1. \A s \in SUBSET Procs :
            Partial(bm, Procs)[s]
                = Partial(am, Procs)[s] + (IF p \in s THEN v - am[p] ELSE 0)
    BY <1>1, ProcsFinite, PartialChange
  <2> QED BY <2>1
<1>3. Sum(bm) = Partial(bm, Procs)[Procs] /\ Sum(am) = Partial(am, Procs)[Procs]
  BY SumIsPartial
<1>4. Sum(am) \in Nat /\ am[p] \in Nat
  BY SumNat
<1>5. Sum(bm) = Sum(am) + v - am[p]
  BY <1>2, <1>3, <1>4
<1> QED BY <1>5 DEF bm

\* Nobody has anything before anything happens.
LEMMA SumZero == ASSUME NEW am, \A p \in Procs : am[p] = 0 PROVE Sum(am) = 0
<1> DEFINE T == {s \in SUBSET Procs : Partial(am, Procs)[s] = 0}
<1>1. {} \in T
  BY ProcsFinite, PartialEmpty
<1>2. ASSUME NEW s \in SUBSET Procs, s # {}, s \ {First(s)} \in T PROVE s \in T
  <2>1. First(s) \in Procs
    BY <1>2, FirstElement
  <2>2. Partial(am, Procs)[s] = am[First(s)] + Partial(am, Procs)[s \ {First(s)}]
    BY <1>2, ProcsFinite, PartialStep
  <2> QED BY <1>2, <2>1, <2>2
<1>3. SUBSET Procs \subseteq T
  <2> HIDE DEF T
  <2> QED BY <1>1, <1>2, ProcsFinite, SubsetInduction
<1> QED BY <1>3, SumIsPartial

-----------------------------------------------------------------------------
\* The invariant holds when nothing has been subscribed yet.
LEMMA InitSum == Init => InTransit = 0 /\ Left = 0
<1> SUFFICES ASSUME Init PROVE InTransit = 0 /\ Left = 0
  OBVIOUS
<1>1. \A p \in Procs : amount[p] = 0
  BY DEF Init
<1>2. Left = 0
  BY DEF Init, Left, HeldBack
<1> QED BY <1>1, <1>2, SumZero DEF InTransit

LEMMA InitDInv == Init => DInv
<1> SUFFICES ASSUME Init PROVE DInv
  OBVIOUS
<1>1. InTransit <= Left
  BY InitSum
<1>2. pc[Driver] = "idle" /\ asked = 0 /\ nexts = 0 /\ emitted = 0
  BY DEF Init, Procs
<1> QED BY <1>1, <1>2 DEF DInv

\* Typed facts that every step below uses.
LEMMA LeftInt == TypeOK => Left \in Int
  BY DEF TypeOK, Left, HeldBack

LEMMA InTransitNat == TypeOK => InTransit \in Nat
  BY SumNat DEF TypeOK, InTransit

\* Where the amounts stay, it is enough that as much is left.
LEMMA StillEnough ==
    ASSUME TypeOK, TypeOK', InTransit <= Left, amount' = amount, Left' >= Left
    PROVE  (InTransit <= Left)'
<1>1. Left \in Int /\ Left' \in Int /\ InTransit \in Nat
  BY LeftInt, InTransitNat DEF TypeOK, Left, HeldBack
<1>2. InTransit' = InTransit
  BY DEF InTransit
<1> QED BY <1>1, <1>2

\* What one process exchanges its amount for moves the sum.
LEMMA ExchangeSum ==
    ASSUME TypeOK, NEW p \in Procs, NEW v \in Nat, amount' = [amount EXCEPT ![p] = v]
    PROVE  InTransit' = InTransit + v - amount[p] /\ amount[p] \in Nat
<1>1. amount \in [Procs -> Nat]
  BY DEF TypeOK
<1>2. Sum(amount') = Sum(amount) + v - amount[p]
  BY <1>1, SumChange
<1> QED BY <1>1, <1>2 DEF InTransit

\* Where one process changes its amount, it is enough that the difference is
\* left.
LEMMA ExchangeEnough ==
    ASSUME TypeOK, TypeOK', InTransit <= Left,
           NEW p \in Procs, NEW v \in Nat, amount' = [amount EXCEPT ![p] = v],
           Left' >= Left + v - amount[p]
    PROVE  (InTransit <= Left)'
<1>1. Left \in Int /\ Left' \in Int /\ InTransit \in Nat
  BY LeftInt, InTransitNat DEF TypeOK, Left, HeldBack
<1>2. InTransit' = InTransit + v - amount[p] /\ amount[p] \in Nat
  BY ExchangeSum
<1> QED BY <1>1, <1>2

\* Adding with a limit adds no more than adding.
LEMMA SatBound ==
    ASSUME NEW a \in Nat, NEW b \in Nat
    PROVE  Sat(a, b) <= a + b /\ Sat(a, b) \in Nat
  BY BridgeAssumption DEF Sat

\* Every step of every process preserves the invariant.
LEMMA NextDInv == IInv /\ IInv' /\ DInv /\ [Next]_vars => DInv'
<1> SUFFICES ASSUME IInv, IInv', DInv, [Next]_vars PROVE DInv'
  OBVIOUS
<1> USE BridgeAssumption
<1>0. TypeOK /\ TypeOK' /\ Roles /\ InTransit <= Left
  BY DEF IInv, DInv
<1> DEFINE Rest == /\ wiring # "done" /\ pending = NotSet => asked = 0
                   /\ nexts <= emitted
                   /\ pc[Driver] \in {"onNext", "sendNext"} => nexts < emitted
<1>1. ASSUME OnSubscribe \/ AddSubscription PROVE DInv'
  <2>1. amount' = amount /\ Left' = Left
    BY <1>1 DEF OnSubscribe, AddSubscription, Left, HeldBack, driverVars, rxVars
  <2>2. (InTransit <= Left)'
    BY <1>0, <2>1, StillEnough, LeftInt
  <2>3. Rest'
    BY <1>0, <1>1 DEF DInv, TypeOK, Procs, OnSubscribe, AddSubscription, driverVars,
       rxVars, seenVars, Goto
  <2> QED BY <2>2, <2>3 DEF DInv
<1>2. ASSUME SetProducer PROVE DInv'
  <2> DEFINE v == IF pending = NotSet THEN MaxLong ELSE pending
  <2>1. amount' = [amount EXCEPT ![Wirer] = v] /\ v \in Nat /\ Wirer \in Procs
    BY <1>0, <1>2 DEF SetProducer, TypeOK, Procs
  <2>2. Left' = Left + v
    BY <1>0, <1>2 DEF SetProducer, Left, HeldBack, DInv, TypeOK, NotSet, driverVars, rxVars
  <2>3. amount[Wirer] \in Nat
    BY <1>0, <2>1 DEF TypeOK
  <2>4. Left' >= Left + v - amount[Wirer]
    BY <1>0, <2>1, <2>2, <2>3, LeftInt
  <2>5. (InTransit <= Left)'
    BY <1>0, <2>1, <2>4, ExchangeEnough
  <2>6. Rest'
    BY <1>0, <1>2 DEF DInv, TypeOK, Procs, SetProducer, driverVars, rxVars, seenVars, Goto
  <2> QED BY <2>5, <2>6 DEF DInv
<1>3. ASSUME NEW t \in Threads, NEW n \in 0..MaxAsk, Ask(t, n) PROVE DInv'
  <2>1. CASE wiring = "done"
    <3>1. amount' = [amount EXCEPT ![t] = n] /\ n \in Nat /\ t \in Procs
      BY <1>3, <2>1 DEF Ask, Procs
    <3>2. Left' = Left + n
      BY <1>0, <1>3, <2>1 DEF Ask, Left, HeldBack, TypeOK, bridgeVars, driverVars
    <3>3. amount[t] \in Nat
      BY <1>0, <3>1 DEF TypeOK
    <3>4. Left' >= Left + n - amount[t]
      BY <1>0, <3>1, <3>2, <3>3, LeftInt
    <3>5. (InTransit <= Left)'
      BY <1>0, <3>1, <3>4, ExchangeEnough
    <3>6. Rest'
      BY <1>0, <1>3, <2>1 DEF DInv, TypeOK, Procs, Ask, bridgeVars, driverVars, seenVars, Goto
    <3> QED BY <3>5, <3>6 DEF DInv
  <2>2. CASE wiring # "done"
    <3>1. amount' = amount /\ wiring' = wiring /\ asked' = asked + n
          /\ emitted' = emitted /\ demand' = demand
          /\ pending' = IF pending = NotSet THEN n ELSE Sat(pending, n)
      BY <1>3, <2>2 DEF Ask, bridgeVars, driverVars
    <3>2. n \in Nat /\ asked \in Nat /\ emitted \in Nat /\ demand \in Nat
          /\ pending \in Nat \cup {NotSet}
      BY <1>0 DEF TypeOK
    <3>3. pending' \in Nat /\ pending' # NotSet
      BY <3>1, <3>2, SatBound DEF NotSet
    <3>5. Left' >= Left
      <4>1. CASE pending = NotSet
        BY <3>1, <3>2, <3>3, <4>1, <2>2 DEF Left, HeldBack
      <4>2. CASE pending # NotSet
        <5>1. pending \in Nat /\ pending' <= pending + n
          BY <3>1, <3>2, <4>2, SatBound
        <5> QED BY <3>1, <3>2, <3>3, <4>2, <2>2, <5>1 DEF Left, HeldBack
      <4> QED BY <4>1, <4>2
    <3>6. (InTransit <= Left)'
      BY <1>0, <3>1, <3>5, StillEnough
    <3>7. Rest'
      BY <1>0, <1>3, <2>2, <3>3 DEF DInv, TypeOK, Procs, Ask, bridgeVars, driverVars, seenVars
    <3> QED BY <3>6, <3>7 DEF DInv
  <2> QED BY <2>1, <2>2
<1>4. ASSUME NEW p \in Procs, RequestCheck(p) PROVE DInv'
  <2>1. Left' = Left
    BY <1>4 DEF RequestCheck, Left, HeldBack, bridgeVars, rxVars, driverVars
  <2>2. (InTransit <= Left)'
    <3>1. CASE amount' = amount
      BY <1>0, <2>1, <3>1, StillEnough, LeftInt
    <3>2. CASE amount' = [amount EXCEPT ![p] = 0]
      <4>1. Left' >= Left + 0 - amount[p]
        <5>1. amount[p] \in Nat
          BY <1>0 DEF TypeOK
        <5> QED BY <1>0, <2>1, <5>1, LeftInt
      <4> QED BY <1>0, <3>2, <4>1, ExchangeEnough
    <3> QED BY <1>4, <3>1, <3>2 DEF RequestCheck
  <2>3. Rest'
    BY <1>0, <1>4 DEF DInv, TypeOK, Roles, Procs, RequestCheck, bridgeVars, driverVars,
       rxVars, seenVars, Goto
  <2> QED BY <2>2, <2>3 DEF DInv
<1>5. ASSUME NEW p \in Procs, SubscriptionRequest(p) PROVE DInv'
  <2>1. amount' = [amount EXCEPT ![p] = 0] /\ amount[p] \in Nat
    BY <1>0, <1>5 DEF SubscriptionRequest, TypeOK
  <2>2. demand' <= demand + amount[p] /\ emitted' = emitted
    <3>1. CASE subscription
      <4>1. PICK thrown \in BOOLEAN : SourceRequest(amount[p], thrown)
        BY <1>5, <3>1 DEF SubscriptionRequest
      <4>2. demand' \in {demand, Sat(demand, amount[p])} /\ emitted' = emitted
        BY <4>1 DEF SourceRequest
      <4>3. demand \in Nat
        BY <1>0 DEF TypeOK
      <4>4. Sat(demand, amount[p]) <= demand + amount[p]
        BY <2>1, <4>3, SatBound
      <4> QED BY <2>1, <4>2, <4>3, <4>4
    <3>2. CASE ~subscription
      BY <1>0, <1>5, <2>1, <3>2 DEF SubscriptionRequest, driverVars, TypeOK
    <3> QED BY <3>1, <3>2
  <2>3. asked' = asked /\ HeldBack' = HeldBack
    BY <1>5 DEF SubscriptionRequest, HeldBack, bridgeVars, rxVars
  <2>4. Left' >= Left + 0 - amount[p]
    <3>1. demand \in Nat /\ demand' \in Nat /\ asked \in Nat /\ emitted \in Nat
          /\ HeldBack \in Nat
      BY <1>0 DEF TypeOK, HeldBack
    <3> QED BY <2>1, <2>2, <2>3, <3>1 DEF Left
  <2>5. (InTransit <= Left)'
    BY <1>0, <2>1, <2>4, ExchangeEnough
  <2>6. Rest'
    BY <1>0, <1>5, <2>2 DEF DInv, TypeOK, Roles, Procs, SubscriptionRequest, bridgeVars,
       rxVars, seenVars, Goto
  <2> QED BY <2>5, <2>6 DEF DInv
<1>6. ASSUME SourceNext PROVE DInv'
  <2>1. amount' = amount /\ Left' = Left
    BY <1>0, <1>6 DEF SourceNext, Left, HeldBack, TypeOK, bridgeVars, rxVars
  <2>2. (InTransit <= Left)'
    BY <1>0, <2>1, StillEnough, LeftInt
  <2>3. Rest'
    BY <1>0, <1>6 DEF DInv, TypeOK, Procs, SourceNext, bridgeVars, rxVars, seenVars, Goto
  <2> QED BY <2>2, <2>3 DEF DInv
<1>7. ASSUME UNCHANGED <<amount, asked, emitted, demand, wiring, pending>>, Rest'
      PROVE  DInv'
  <2>1. amount' = amount /\ Left' = Left
    BY <1>7 DEF Left, HeldBack
  <2>2. (InTransit <= Left)'
    BY <1>0, <2>1, StillEnough, LeftInt
  <2> QED BY <1>7, <2>2 DEF DInv
<1>8. ASSUME SendNext \/ SendNextThrows PROVE DInv'
  <2>1. UNCHANGED <<amount, asked, emitted, demand, wiring, pending>>
    BY <1>8 DEF SendNext, SendNextThrows, bridgeVars, rxVars, driverVars
  <2>2. Rest'
    BY <1>0, <1>8 DEF DInv, TypeOK, Procs, SendNext, SendNextThrows, UnsubscribeBy,
       bridgeVars, rxVars, driverVars, Goto
  <2> QED BY <1>7, <2>1, <2>2
<1>9. ASSUME OnNext \/ OnError \/ OnComplete PROVE DInv'
  <2>1. UNCHANGED <<amount, asked, emitted, demand, wiring, pending>>
    BY <1>9 DEF OnNext, OnError, OnComplete, Guard, bridgeVars, rxVars, driverVars
  <2>2. Rest'
    BY <1>0, <1>9 DEF DInv, TypeOK, Procs, OnNext, OnError, OnComplete, Guard, bridgeVars,
       rxVars, driverVars, seenVars, Goto
  <2> QED BY <1>7, <2>1, <2>2
<1>10. ASSUME SourceComplete \/ SourceError PROVE DInv'
  <2>1. UNCHANGED <<amount, asked, emitted, demand, wiring, pending>>
    BY <1>10 DEF SourceComplete, SourceError, bridgeVars, rxVars
  <2>2. Rest'
    BY <1>0, <1>10 DEF DInv, TypeOK, Procs, SourceComplete, SourceError, bridgeVars,
       rxVars, seenVars, Goto
  <2> QED BY <1>7, <2>1, <2>2
<1>11. ASSUME SendError \/ SendCompleted \/ \E p \in Procs : RequestCatch(p) PROVE DInv'
  <2>1. PICK p \in Procs, kind \in {"error", "completed"} : Terminal(p, kind)
    BY <1>11 DEF SendError, SendCompleted, RequestCatch, Procs
  <2>2. UNCHANGED <<amount, asked, emitted, demand, wiring, pending, nexts>>
    BY <2>1 DEF Terminal, bridgeVars, driverVars
  <2>3. pc'[Driver] \notin {"onNext", "sendNext"} \/ pc'[Driver] = pc[Driver]
    BY <1>0, <2>1 DEF Terminal, UnsubscribeBy, Goto, TypeOK, Procs
  <2>4. Rest'
    BY <2>2, <2>3 DEF DInv
  <2> QED BY <1>7, <2>2, <2>4
<1>12. ASSUME NEW t \in Threads, Unsubscribe(t) PROVE DInv'
  <2>1. UNCHANGED <<amount, asked, emitted, demand, wiring, pending, nexts>>
    BY <1>12 DEF Unsubscribe, bridgeVars, driverVars, seenVars
  <2>2. pc'[Driver] = pc[Driver]
    BY <1>0, <1>12 DEF Unsubscribe, UnsubscribeBy, Goto, TypeOK, Procs
  <2>3. Rest'
    BY <2>1, <2>2 DEF DInv
  <2> QED BY <1>7, <2>1, <2>3
<1>13. ASSUME NEW p \in Procs, InnerUnsubscribe(p) \/ SubscriptionUnsubscribe(p)
       PROVE  DInv'
  <2>1. UNCHANGED <<amount, asked, emitted, demand, wiring, pending, nexts>>
    BY <1>13 DEF InnerUnsubscribe, SubscriptionUnsubscribe, bridgeVars, rxVars,
       driverVars, seenVars
  <2>2. pc'[Driver] \notin {"onNext", "sendNext"} \/ pc'[Driver] = pc[Driver]
    BY <1>0, <1>13 DEF InnerUnsubscribe, SubscriptionUnsubscribe, Goto, TypeOK, Procs
  <2>3. Rest'
    BY <2>1, <2>2 DEF DInv
  <2> QED BY <1>7, <2>1, <2>3
<1>14. ASSUME UNCHANGED vars PROVE DInv'
  <2>1. UNCHANGED <<amount, asked, emitted, demand, wiring, pending, nexts, pc>>
    BY <1>14 DEF vars, bridgeVars, rxVars, driverVars, seenVars
  <2>2. Rest'
    BY <2>1 DEF DInv
  <2> QED BY <1>7, <2>1, <2>2
<1> QED
  BY <1>1, <1>2, <1>3, <1>4, <1>5, <1>6, <1>8, <1>9, <1>10, <1>11, <1>12, <1>13, <1>14
     DEF Next, Wire, Continue, Callback, Source

\* However many threads request and however their requests cross with the
\* deliveries, nothing is delivered that was not asked for.
THEOREM OnlyWhatWasAsked == Spec => []Backpressure
<1>1. IInv /\ DInv => Backpressure
  <2> SUFFICES ASSUME IInv, DInv PROVE Backpressure
    OBVIOUS
  <2>1. TypeOK
    BY DEF IInv
  <2>2. Left >= 0
    BY <2>1, LeftInt, InTransitNat DEF DInv
  <2>3. HeldBack \in Nat /\ asked \in Nat /\ emitted \in Nat /\ demand \in Nat /\ nexts \in Nat
    BY <2>1 DEF TypeOK, HeldBack
  <2>4. nexts <= emitted
    BY DEF DInv
  <2> QED BY <2>2, <2>3, <2>4 DEF Left, Backpressure
<1> QED BY <1>1, Invariance, InitDInv, NextDInv, PTL DEF Spec

-----------------------------------------------------------------------------
(***************************************************************************)
(* Nothing is lost.                                                        *)
(***************************************************************************)

Counting == ~unsubscribed /\ asked < MaxLong /\ op # "failed"

\* No request is lost and none is counted twice: as long as nobody has
\* unsubscribed and Long.MAX_VALUE was not reached, what the application asked
\* for is what was delivered, what the driver still owes, what the subscriber
\* holds back for a producer that is not set yet, and what is under way
\* through ObservableToProducer.request.
DemandConserved == Counting => asked = emitted + demand + HeldBack + InTransit

\* The same, as the steps keep it.
Balance == Counting => InTransit = Left

CInv ==
    /\ \A p \in Procs : pc[p] \notin {"request", "call"} => amount[p] = 0
    /\ \A p \in Procs : pc[p] \in {"cancel", "close"} => unsubscribed
    /\ inner => unsubscribed
    /\ Balance

LEMMA InitCInv == Init => CInv
BY InitSum DEF Init, CInv, Balance

\* What left the count does not come back.
LEMMA CountingBefore == IInv /\ IInv' /\ [Next]_vars /\ Counting' => Counting
<1> SUFFICES ASSUME IInv, IInv', [Next]_vars, Counting' PROVE Counting
  OBVIOUS
<1>1. (op = "failed" => op' = "failed") /\ (unsubscribed => unsubscribed') /\ asked <= asked'
  <2>1. asked \in Nat
    BY DEF IInv, TypeOK
  <2>2. CASE Wire
    <3>1. UNCHANGED <<op, unsubscribed>>
      BY <2>2 DEF Wire, OnSubscribe, AddSubscription, SetProducer, driverVars, rxVars
    <3>2. asked' \in {asked, MaxLong}
      BY <2>2 DEF Wire, OnSubscribe, AddSubscription, SetProducer
    <3> QED BY <2>1, <3>1, <3>2, BridgeAssumption DEF Counting
  <2>3. ASSUME NEW p \in Procs, Continue(p)
        PROVE  (op = "failed" => op' = "failed") /\ (unsubscribed => unsubscribed') /\ asked' = asked
    BY <2>3 DEF Continue, RequestCheck, SubscriptionRequest, SourceRequest, RequestCatch,
       Terminal, UnsubscribeBy, InnerUnsubscribe, SubscriptionUnsubscribe, driverVars, rxVars
  <2>4. CASE Callback
    BY <2>1, <2>4 DEF Callback, OnNext, OnError, OnComplete, Guard, SendNext, SendNextThrows,
       SendError, SendCompleted, Terminal, UnsubscribeBy, driverVars, rxVars
  <2>5. CASE Source
    BY <2>1, <2>5 DEF Source, SourceNext, SourceComplete, SourceError, Delivering, rxVars
  <2>6. ASSUME NEW t \in Threads, (\E n \in 0..MaxAsk : Ask(t, n)) \/ Unsubscribe(t)
        PROVE  (op = "failed" => op' = "failed") /\ (unsubscribed => unsubscribed')
               /\ asked <= asked'
    BY <2>1, <2>6 DEF Ask, Unsubscribe, UnsubscribeBy, driverVars
  <2>7. CASE UNCHANGED vars
    BY <2>1, <2>7 DEF vars, driverVars, rxVars
  <2> QED BY <2>1, <2>2, <2>3, <2>4, <2>5, <2>6, <2>7 DEF Next
<1>2. asked \in Nat /\ asked' \in Nat
  BY DEF IInv, TypeOK
<1> QED BY <1>1, <1>2, BridgeAssumption DEF Counting

\* Where the amounts stay, so must what is left.
LEMMA StillEqual ==
    ASSUME InTransit = Left, amount' = amount, Left' = Left
    PROVE  (InTransit = Left)'
<1>1. InTransit' = InTransit
  BY DEF InTransit
<1> QED BY <1>1

\* Where one process changes its amount, what is left changes by as much.
LEMMA ExchangeEqual ==
    ASSUME TypeOK, InTransit = Left,
           NEW p \in Procs, NEW v \in Nat, amount' = [amount EXCEPT ![p] = v],
           Left' = Left + v - amount[p]
    PROVE  (InTransit = Left)'
BY ExchangeSum

\* Every step keeps the balance.
LEMMA NextCInv == IInv /\ IInv' /\ DInv /\ CInv /\ [Next]_vars => CInv'
<1> SUFFICES ASSUME IInv, IInv', DInv, CInv, [Next]_vars PROVE CInv'
  OBVIOUS
<1> USE BridgeAssumption
<1>0. TypeOK /\ TypeOK' /\ Roles /\ OnTheWay /\ Wanted
  BY DEF IInv
<1> DEFINE Places == /\ \A p \in Procs : pc[p] \notin {"request", "call"} => amount[p] = 0
                     /\ \A p \in Procs : pc[p] \in {"cancel", "close"} => unsubscribed
                     /\ inner => unsubscribed
<1>1. Places'
  <2>1. CASE Wire
    <3>1. CASE OnSubscribe
      BY <3>1 DEF CInv, OnSubscribe, rxVars
    <3>2. CASE AddSubscription
      BY <1>0, <3>2 DEF CInv, Roles, TypeOK, Procs, AddSubscription, Goto
    <3>3. CASE SetProducer
      BY <1>0, <3>3 DEF CInv, TypeOK, Procs, SetProducer, Goto, rxVars
    <3> QED BY <2>1, <3>1, <3>2, <3>3 DEF Wire
  <2>2. ASSUME NEW t \in Threads, (\E n \in 0..MaxAsk : Ask(t, n)) \/ Unsubscribe(t)
        PROVE  Places'
    BY <1>0, <2>2 DEF CInv, TypeOK, Procs, Ask, Unsubscribe, UnsubscribeBy, Goto, bridgeVars
  <2>3. ASSUME NEW p \in Procs, RequestCheck(p) \/ SubscriptionRequest(p) PROVE Places'
    BY <1>0, <2>3 DEF CInv, TypeOK, RequestCheck, SubscriptionRequest, Goto, bridgeVars, rxVars
  <2>4. ASSUME NEW p \in Procs, NEW kind, Terminal(p, kind),
               pc[p] \notin {"request", "call"}
        PROVE  Places'
    BY <1>0, <2>4 DEF CInv, TypeOK, Terminal, UnsubscribeBy, Goto, bridgeVars
  <2>5. ASSUME NEW p \in Procs, InnerUnsubscribe(p) \/ SubscriptionUnsubscribe(p)
        PROVE  Places'
    BY <1>0, <2>5 DEF CInv, TypeOK, InnerUnsubscribe, SubscriptionUnsubscribe, Goto,
       bridgeVars, rxVars
  <2>6. CASE OnNext \/ OnError \/ OnComplete
    BY <1>0, <2>6 DEF CInv, TypeOK, Procs, OnNext, OnError, OnComplete, Guard, Goto,
       bridgeVars, rxVars
  <2>7. CASE SendNext \/ SendNextThrows
    BY <1>0, <2>7 DEF CInv, TypeOK, Procs, SendNext, SendNextThrows, UnsubscribeBy, Goto,
       bridgeVars, rxVars
  <2>8. CASE Source
    BY <1>0, <2>8 DEF CInv, TypeOK, Procs, Source, SourceNext, SourceComplete, SourceError,
       Delivering, Goto, bridgeVars, rxVars
  <2>9. CASE UNCHANGED vars
    BY <2>9 DEF CInv, vars, bridgeVars, rxVars
  <2> QED BY <2>1, <2>2, <2>3, <2>4, <2>5, <2>6, <2>7, <2>8, <2>9
          DEF Next, Continue, Callback, SendError, SendCompleted, RequestCatch, Procs
<1>2. SUFFICES ASSUME Counting' PROVE (InTransit = Left)'
  BY <1>1 DEF CInv, Balance
<1>3. InTransit = Left /\ Counting
  BY <1>2, CountingBefore DEF CInv, Balance
<1>4. /\ asked \in Nat /\ emitted \in Nat /\ demand \in Nat /\ HeldBack \in Nat
      /\ Left \in Int /\ Left = asked - emitted - demand - HeldBack
  BY <1>0, LeftInt DEF TypeOK, HeldBack, Left
<1>5. Left >= 0
  BY <1>0, <1>4, InTransitNat DEF DInv
<1>6. CASE UNCHANGED <<amount, asked, emitted, demand, wiring, pending>>
  <2>1. amount' = amount /\ Left' = Left
    BY <1>6 DEF Left, HeldBack
  <2> QED BY <1>3, <2>1, StillEqual
<1>7. CASE OnSubscribe \/ AddSubscription
  <2>1. amount' = amount /\ Left' = Left
    BY <1>7 DEF OnSubscribe, AddSubscription, Left, HeldBack, driverVars, rxVars
  <2> QED BY <1>3, <2>1, StillEqual
<1>8. CASE SetProducer
  <2>1. pending # NotSet /\ pending \in Nat /\ Wirer \in Procs
    BY <1>0, <1>2, <1>8 DEF SetProducer, Counting, TypeOK, Procs
  <2>2. amount' = [amount EXCEPT ![Wirer] = pending] /\ amount[Wirer] = 0
    BY <1>8, <2>1 DEF SetProducer, CInv
  <2>3. Left' = Left + pending
    BY <1>0, <1>8, <2>1 DEF SetProducer, Left, HeldBack, TypeOK, NotSet, driverVars, rxVars
  <2>4. Left' = Left + pending - amount[Wirer]
    BY <1>4, <2>1, <2>2, <2>3
  <2> QED BY <1>0, <1>3, <1>5, <2>1, <2>2, <2>4, ExchangeEqual
<1>9. ASSUME NEW t \in Threads, NEW n \in 0..MaxAsk, Ask(t, n)
      PROVE  (InTransit = Left)'
  <2>1. n \in Nat /\ t \in Procs
    BY DEF Procs
  <2>2. CASE wiring = "done"
    <3>1. amount' = [amount EXCEPT ![t] = n] /\ amount[t] = 0
      BY <1>9, <2>1, <2>2 DEF Ask, CInv
    <3>2. Left' = Left + n
      BY <1>0, <1>9, <2>2 DEF Ask, Left, HeldBack, TypeOK, bridgeVars, driverVars
    <3>3. Left' = Left + n - amount[t]
      BY <1>4, <2>1, <3>1, <3>2
    <3> QED BY <1>0, <1>3, <1>5, <2>1, <3>1, <3>3, ExchangeEqual
  <2>3. CASE wiring # "done"
    <3>1. /\ amount' = amount /\ wiring' = wiring /\ asked' = asked + n
          /\ emitted' = emitted /\ demand' = demand
          /\ pending' = IF pending = NotSet THEN n ELSE Sat(pending, n)
      BY <1>9, <2>3 DEF Ask, bridgeVars, driverVars
    <3>2. asked + n < MaxLong
      BY <1>2, <3>1 DEF Counting
    <3>3. CASE pending = NotSet
      BY <1>3, <1>4, <2>1, <2>3, <3>1, <3>3, StillEqual DEF Left, HeldBack, NotSet
    <3>4. CASE pending # NotSet
      <4>1. pending \in Nat /\ HeldBack = pending
        BY <1>0, <2>3, <3>4 DEF TypeOK, HeldBack
      <4>2. pending + n < MaxLong
        BY <1>4, <1>5, <2>1, <3>2, <4>1
      <4>3. pending' = pending + n /\ pending' # NotSet
        BY <2>1, <3>1, <3>4, <4>1, <4>2 DEF Sat, NotSet
      <4>4. HeldBack' = HeldBack + n
        BY <2>3, <3>1, <4>1, <4>3 DEF HeldBack
      <4>5. Left' = Left
        BY <1>4, <2>1, <3>1, <4>4 DEF Left
      <4> QED BY <1>3, <3>1, <4>5, StillEqual
    <3> QED BY <3>3, <3>4
  <2> QED BY <2>2, <2>3
<1>10. ASSUME NEW p \in Procs, RequestCheck(p)
       PROVE  (InTransit = Left)'
  <2>1. Left' = Left
    BY <1>10 DEF RequestCheck, Left, HeldBack, bridgeVars, rxVars, driverVars
  <2>2. CASE amount[p] = 0
    <3>1. amount' = [amount EXCEPT ![p] = 0]
      BY <1>10, <2>2 DEF RequestCheck
    <3>2. amount' = amount
      BY <1>0, <2>2, <3>1 DEF TypeOK
    <3> QED BY <1>3, <2>1, <3>2, StillEqual
  <2>3. CASE amount[p] # 0
    <3>1. amount' = amount
      BY <1>3, <1>10, <2>3 DEF RequestCheck, Counting
    <3> QED BY <1>3, <2>1, <3>1, StillEqual
  <2> QED BY <2>2, <2>3
<1>11. ASSUME NEW p \in Procs, SubscriptionRequest(p)
       PROVE  (InTransit = Left)'
  <2>1. amount' = [amount EXCEPT ![p] = 0] /\ amount[p] \in Nat /\ amount[p] > 0
    BY <1>0, <1>11 DEF SubscriptionRequest, TypeOK, Wanted
  <2>2. amount[p] <= Left
    <3>1. Left \in Nat /\ amount \in [Procs -> Nat]
      BY <1>0, <1>4, <1>5 DEF TypeOK
    <3> QED BY <1>3, <3>1, PartOfSum DEF InTransit
  <2>3. Sat(demand, amount[p]) = demand + amount[p]
    <3>1. asked < MaxLong
      BY <1>3 DEF Counting
    <3>2. demand + amount[p] < MaxLong
      BY <1>4, <2>1, <2>2, <3>1
    <3> QED BY <1>4, <2>1, <3>2 DEF Sat
  <2>4. demand' = demand + amount[p] /\ emitted' = emitted
    <3>1. subscription /\ cancels = 0
      BY <1>0, <1>3, <1>11 DEF SubscriptionRequest, Roles, OnTheWay, CInv, Counting
    <3>2. PICK thrown \in BOOLEAN : SourceRequest(amount[p], thrown)
      BY <1>11, <3>1 DEF SubscriptionRequest
    <3> QED BY <2>1, <2>3, <3>1, <3>2 DEF SourceRequest
  <2>5. asked' = asked /\ HeldBack' = HeldBack
    BY <1>11 DEF SubscriptionRequest, HeldBack, bridgeVars, rxVars
  <2>6. Left' = Left + 0 - amount[p]
    BY <1>4, <2>1, <2>4, <2>5 DEF Left
  <2> QED BY <1>0, <1>3, <1>5, <2>1, <2>6, ExchangeEqual
<1>12. CASE SourceNext
  <2>1. amount' = amount /\ Left' = Left
    BY <1>0, <1>12 DEF SourceNext, Left, HeldBack, TypeOK, bridgeVars, rxVars
  <2> QED BY <1>3, <2>1, StillEqual
<1>13. CASE Callback \/ SourceComplete \/ SourceError
  BY <1>6, <1>13 DEF Callback, OnNext, OnError, OnComplete, Guard, SendNext, SendNextThrows,
     SendError, SendCompleted, Terminal, SourceComplete, SourceError, bridgeVars, rxVars,
     driverVars
<1>14. ASSUME NEW p \in Procs,
              RequestCatch(p) \/ InnerUnsubscribe(p) \/ SubscriptionUnsubscribe(p) \/ Unsubscribe(p)
       PROVE  (InTransit = Left)'
  BY <1>6, <1>14 DEF RequestCatch, Terminal, InnerUnsubscribe, SubscriptionUnsubscribe,
     Unsubscribe, bridgeVars, rxVars, driverVars
<1>15. CASE UNCHANGED vars
  BY <1>6, <1>15 DEF vars, bridgeVars, rxVars, driverVars
<1> QED
  BY <1>7, <1>8, <1>9, <1>10, <1>11, <1>12, <1>13, <1>14, <1>15
     DEF Next, Wire, Continue, Source, Procs

\* However many threads request, no request is lost and none is counted twice:
\* until the subscriber unsubscribes, everything is asked for or the start
\* fails, what was asked for is delivered, owed by the driver, held back for a
\* producer, or with one of the threads in ObservableToProducer.request.
THEOREM NoRequestLost == Spec => []DemandConserved
<1>1. IInv /\ CInv => DemandConserved
  <2> SUFFICES ASSUME IInv, CInv, Counting
               PROVE  asked = emitted + demand + HeldBack + InTransit
    BY DEF DemandConserved
  <2>1. InTransit = Left
    BY DEF CInv, Balance
  <2>2. /\ HeldBack \in Nat /\ asked \in Nat /\ emitted \in Nat /\ demand \in Nat
        /\ InTransit \in Nat
    BY InTransitNat DEF IInv, TypeOK, HeldBack
  <2> QED BY <2>1, <2>2 DEF Left
<1>2. IInv /\ IInv' /\ DInv /\ CInv /\ [Next]_vars => CInv'
  BY NextCInv
<1> QED BY <1>1, <1>2, Invariance, InitDInv, NextDInv, InitCInv, PTL DEF Spec

-----------------------------------------------------------------------------
(***************************************************************************)
(* The contract, step by step.                                             *)
(***************************************************************************)
\* The driver has taken the operation on.
Sent == op \in {"running", "over"}

BridgeContract == INSTANCE ObservableContract WITH
                      Prefetches <- FALSE,
                      Results    <- 0..MaxResults,
                      cancelled  <- unsubscribed,
                      started    <- Sent

contractVars == <<asked, unsubscribed, Sent, total, nexts, outcome, late>>

\* What the driver delivers are results of the operation, and it has to be
\* started first.
WithinTotal == total \in 0..MaxResults /\ emitted <= total /\ (~Sent => emitted = 0)

LEMMA NextWithinTotal == TypeOK /\ WithinTotal /\ [Next]_vars => WithinTotal'
<1> SUFFICES ASSUME TypeOK, WithinTotal, [Next]_vars PROVE WithinTotal'
  OBVIOUS
<1>1. CASE Wire \/ (\E t \in Threads, n \in 0..MaxAsk : Ask(t, n))
           \/ (\E t \in Threads : Unsubscribe(t)) \/ UNCHANGED vars
  BY <1>1 DEF Wire, OnSubscribe, AddSubscription, SetProducer, Ask, Unsubscribe, vars,
              driverVars, WithinTotal, Sent
<1>2. ASSUME NEW p \in Procs, Continue(p) PROVE WithinTotal'
  <2>1. UNCHANGED <<emitted, total>> /\ (Sent => Sent')
    BY <1>2 DEF Sent, Continue, RequestCheck, SubscriptionRequest, SourceRequest, RequestCatch,
                Terminal, InnerUnsubscribe, SubscriptionUnsubscribe, driverVars
  <2> QED BY <2>1 DEF WithinTotal
<1>3. CASE Callback
  BY <1>3 DEF Callback, OnNext, OnError, OnComplete, Guard, SendNext, SendNextThrows,
              SendError, SendCompleted, Terminal, driverVars, WithinTotal, Sent
<1>4. CASE Source
  BY <1>4 DEF Source, SourceNext, SourceComplete, SourceError, Delivering, TypeOK,
              WithinTotal, Sent
<1> QED BY <1>1, <1>2, <1>3, <1>4 DEF Next

\* A result is delivered only if it was asked for and the operation has it.
LEMMA DeliverableResult ==
    ASSUME IInv, DInv, WithinTotal, pc[Driver] = "sendNext"
    PROVE  nexts < asked /\ nexts < total
<1>1. TypeOK
  BY DEF IInv
<1>2. Left >= 0
  BY <1>1, LeftInt, InTransitNat DEF DInv
<1>3. /\ HeldBack \in Nat /\ asked \in Nat /\ emitted \in Nat /\ demand \in Nat
      /\ nexts \in Nat /\ total \in Nat
  BY <1>1 DEF TypeOK, HeldBack
<1>4. nexts < emitted
  BY DEF DInv
<1> QED BY <1>2, <1>3, <1>4 DEF Left, WithinTotal

\* A call that crossed with an unsubscribe is counted, and is the only one.
LEMMA CrossesOnce ==
    ASSUME IInv, CountLate,
           \/ pc[Driver] \in {"sendNext", "sendError", "sendCompleted"}
           \/ \E p \in Procs : pc[p] = "catch"
    PROVE  BridgeContract!Cross
<1>1. late = 0
  BY DEF IInv, LateIsLast, Sending
<1> QED BY <1>1 DEF CountLate, BridgeContract!Cross

\* The last call of the sequence.
LEMMA FinishStep ==
    ASSUME IInv, NEW p \in Procs, NEW kind \in {"error", "completed"}, Terminal(p, kind),
           \/ p = Driver /\ pc[Driver] = "sendError" /\ kind = "error"
           \/ p = Driver /\ pc[Driver] = "sendCompleted" /\ kind = "completed"
           \/ pc[p] = "catch" /\ kind = "error"
    PROVE  BridgeContract!Finish
<1>1. /\ outcome = "none" /\ asked > 0
      /\ kind = "completed" => Sent
  BY DEF IInv, Stages, Wanted, Sending, Sent
<1>2. kind = "completed" => nexts = total
  BY DEF IInv, Counted
<1>3. /\ outcome' = kind /\ CountLate
      /\ unsubscribed' \in {unsubscribed, TRUE}
      /\ UNCHANGED <<asked, op, total, nexts>>
  BY DEF Terminal, UnsubscribeBy, driverVars
<1>4. BridgeContract!Cross
  BY <1>3, CrossesOnce
<1>5. Sent' = Sent
  BY <1>3 DEF Sent
<1> QED BY <1>1, <1>2, <1>3, <1>4, <1>5 DEF BridgeContract!Finish, BridgeContract!Wanted

LEMMA StepContract ==
    IInv /\ DInv /\ WithinTotal /\ [Next]_vars => [BridgeContract!Next]_(BridgeContract!vars)
<1> SUFFICES ASSUME IInv, DInv, WithinTotal, [Next]_vars
             PROVE  BridgeContract!Next \/ UNCHANGED contractVars
  BY DEF BridgeContract!vars, contractVars
<1>0. TypeOK
  BY DEF IInv
<1>1. CASE OnSubscribe \/ AddSubscription
  BY <1>1 DEF OnSubscribe, AddSubscription, rxVars, driverVars, seenVars, contractVars, Sent
<1>2. CASE SetProducer
  <2>1. asked' = MaxLong \/ asked' = asked
    BY <1>2 DEF SetProducer
  <2>2. UNCHANGED <<unsubscribed, op, total, nexts, outcome, late>>
    BY <1>2 DEF SetProducer, rxVars, driverVars, seenVars
  <2> QED BY <2>1, <2>2 DEF BridgeContract!Next, BridgeContract!Request, contractVars, Sent
<1>3. ASSUME NEW t \in Threads, NEW n \in 0..MaxAsk, Ask(t, n)
      PROVE  BridgeContract!Next \/ UNCHANGED contractVars
  <2>1. asked' > asked \/ asked' = asked
    BY <1>0, <1>3, BridgeAssumption DEF Ask, TypeOK
  <2>2. UNCHANGED <<unsubscribed, op, total, nexts, outcome, late>>
    BY <1>3 DEF Ask, driverVars, seenVars
  <2> QED BY <2>1, <2>2 DEF BridgeContract!Next, BridgeContract!Request, contractVars, Sent
<1>4. ASSUME NEW p \in Procs, SubscriptionRequest(p)
      PROVE  BridgeContract!Next \/ UNCHANGED contractVars
  <2>1. UNCHANGED <<asked, unsubscribed, total, nexts, outcome, late>>
    BY <1>4 DEF SubscriptionRequest, SourceRequest, rxVars, driverVars, seenVars
  <2>2. asked > 0
    BY <1>4 DEF SubscriptionRequest, IInv, Wanted
  <2>3. \/ Sent' = Sent
        \/ ~Sent /\ Sent' /\ outcome = "none"
    BY <1>0, <1>4 DEF SubscriptionRequest, SourceRequest, driverVars, Sent, IInv, Stages, TypeOK
  <2> QED BY <2>1, <2>2, <2>3 DEF BridgeContract!Next, BridgeContract!Start,
                                     BridgeContract!Wanted, contractVars, Sent, WithinTotal
<1>5. ASSUME NEW p \in Procs,
             RequestCheck(p) \/ InnerUnsubscribe(p) \/ SubscriptionUnsubscribe(p)
      PROVE  UNCHANGED contractVars
  BY <1>5 DEF RequestCheck, InnerUnsubscribe, SubscriptionUnsubscribe, rxVars, driverVars,
              seenVars, contractVars, Sent
<1>6. ASSUME NEW p \in Procs, RequestCatch(p) PROVE BridgeContract!Next
  BY <1>6, FinishStep DEF RequestCatch, BridgeContract!Next
<1>7. CASE OnNext \/ OnError \/ OnComplete
  BY <1>7 DEF OnNext, OnError, OnComplete, Guard, rxVars, driverVars, seenVars,
      contractVars, Sent
<1>8. CASE SendNext
  <2>1. Sent /\ outcome = "none" /\ nexts < asked /\ nexts < total
    BY <1>8, DeliverableResult DEF Sent, SendNext, IInv, Stages, Sending
  <2>2. /\ nexts' = nexts + 1 /\ CountLate
        /\ UNCHANGED <<asked, unsubscribed, op, total, outcome>>
    BY <1>8 DEF SendNext, rxVars, driverVars
  <2>3. BridgeContract!Cross
    BY <1>8, <2>2, CrossesOnce DEF SendNext
  <2> QED BY <2>1, <2>2, <2>3 DEF BridgeContract!Next, BridgeContract!NextResult, Sent
<1>9. CASE SendNextThrows
  <2>1. Sent /\ outcome = "none" /\ nexts < asked /\ nexts < total
    BY <1>9, DeliverableResult DEF Sent, SendNextThrows, IInv, Stages, Sending
  <2>2. /\ nexts' = nexts + 1 /\ outcome' = "error" /\ unsubscribed' = TRUE /\ CountLate
        /\ UNCHANGED <<asked, op, total>>
    BY <1>9 DEF SendNextThrows, UnsubscribeBy, driverVars
  <2>3. BridgeContract!Cross
    BY <1>9, <2>2, CrossesOnce DEF SendNextThrows
  <2> QED BY <2>1, <2>2, <2>3 DEF BridgeContract!Next, BridgeContract!RefusedResult, Sent
<1>10. CASE SendError \/ SendCompleted
  BY <1>10, FinishStep DEF SendError, SendCompleted, Procs, BridgeContract!Next
<1>11. CASE Source
  BY <1>11 DEF Source, SourceNext, SourceComplete, SourceError, Delivering, rxVars, seenVars,
               contractVars, Sent
<1>12. ASSUME NEW t \in Threads, Unsubscribe(t) PROVE BridgeContract!Next
  BY <1>12 DEF Unsubscribe, UnsubscribeBy, driverVars, seenVars, BridgeContract!Next,
               BridgeContract!Cancel, Sent
<1>13. CASE UNCHANGED vars
  BY <1>13 DEF vars, rxVars, driverVars, seenVars, contractVars, Sent
<1> QED BY <1>1, <1>2, <1>3, <1>4, <1>5, <1>6, <1>7, <1>8, <1>9, <1>10, <1>11, <1>12, <1>13
        DEF Next, Wire, Continue, Callback

\* An application that subscribes sees the contract and nothing else, however
\* its threads, the wiring and the driver interleave.  The bridge's fairness,
\* and with it the liveness of the contract, is not part of the statement.
THEOREM KeepsContract == Spec => BridgeContract!Safety
<1>1. Init => BridgeContract!Init /\ WithinTotal
  BY BridgeAssumption DEF Init, BridgeContract!Init, WithinTotal, Sent
<1>2. IInv => TypeOK
  BY DEF IInv
<1>3. IInv /\ WithinTotal /\ [Next]_vars => WithinTotal'
  BY <1>2, NextWithinTotal
<1> QED BY <1>1, <1>3, StepContract, InitIInv, NextIInv, InitDInv, NextDInv, PTL
        DEF Spec, BridgeContract!Safety
=============================================================================
