--------------------------- MODULE OperationsProofs ---------------------------
(***************************************************************************)
(* The answers of one-shot operations, for every number of subscribers and *)
(* every length of a list.                                                 *)
(*                                                                         *)
(* Between the answer and the end, what a subscriber has seen and what the *)
(* driver still has for it make up the whole answer; an error is never     *)
(* preceded by a result, and there is no answer to a void operation but    *)
(* SUCCESS after an execution.  With that, each subscription is found to   *)
(* keep the contract that RxBridge implements.                             *)
(***************************************************************************)
EXTENDS Operations, SequenceTheorems, TLAPS

Shapes == {"void", "value", "nullable", "list"}

\* Before the answer there is nothing to deliver, and before the operation is
\* sent the server does nothing.
Unanswered(s) ==
    /\ phase[s] \in {"new", "subscribed"} => executed[s] = 0
    /\ phase[s] # "answered" =>
            end[s] = "none" /\ todo[s] = <<>> /\ seen[s] = <<>> /\ outcome[s] = "none"

\* After it, what was delivered and what is left add up to it.
AnswerKept(s) ==
    /\ phase[s] = "answered" => end[s] # "none"
    /\ end[s] = "error" => todo[s] = <<>> /\ seen[s] = <<>>
    /\ end[s] = "completed" => executed[s] = 1 /\ seen[s] \o todo[s] = Expected(s)
    /\ outcome[s] # "none" => outcome[s] = end[s] /\ todo[s] = <<>>

OInv ==
    /\ TypeOK
    /\ \A s \in Subs : Unanswered(s) /\ AnswerKept(s)

-----------------------------------------------------------------------------
(***************************************************************************)
(* The table, and sequences.                                               *)
(***************************************************************************)

\* Every operation has one of the four shapes.
LEMMA TableShapes == \A m \in DOMAIN Table : Table[m] \in Shapes
<1>1. \A t \in Tables : \A m \in DOMAIN t : t[m] \in Shapes
  BY DEF Tables, Shapes, Count, Inserts, Deletes, Updates, FindOneAnd, CollectionAdmin,
         IndexAdmin, CreateIndexes, RunCommand, DatabaseDrop, DatabaseAdmin, First,
         GridFSFirst, MapReduceToCollection, AggregateToCollection, Uploads, Downloads,
         BucketAdmin, UploadStream, DownloadStream
<1> SUFFICES ASSUME NEW m \in DOMAIN Table PROVE Table[m] \in Shapes
  OBVIOUS
<1> DEFINE t == CHOOSE t \in Tables : m \in DOMAIN t
<1>2. m \in UNION {DOMAIN u : u \in Tables}
  BY DEF Table
<1>3. \E u \in Tables : m \in DOMAIN u
  BY <1>2
<1>4. t \in Tables /\ m \in DOMAIN t
  BY <1>3
<1>5. Table[m] = t[m]
  BY <1>2 DEF Table
<1> QED BY <1>1, <1>4, <1>5

\* The results of n documents are a sequence of n.
LEMMA ItemsType == \A n \in Nat : Items(n) \in Seq(Nat)
BY DEF Items

\* Delivering the first result left keeps the whole.
LEMMA MoveOne ==
    ASSUME NEW a \in Seq(Nat), NEW b \in Seq(Nat), b # <<>>
    PROVE  Append(a, Head(b)) \o Tail(b) = a \o b
<1>1. Head(b) \in Nat /\ Tail(b) \in Seq(Nat)
  BY HeadTailProperties
<1>2. Append(a, Head(b)) = a \o <<Head(b)>>
  BY <1>1, AppendIsConcat
<1>3. <<Head(b)>> \o Tail(b) = b
  <2>1. Len(b) \in Nat \ {0}
    BY EmptySeq
  <2>2. SubSeq(b, 1, Len(b)) = <<b[1]>> \o SubSeq(b, 2, Len(b))
    BY <2>1, SubSeqRecursiveFirst
  <2>3. Tail(b) = SubSeq(b, 2, Len(b)) /\ SubSeq(b, 1, Len(b)) = b
    BY TailIsSubSeq, SubSeqFull
  <2> QED BY <2>1, <2>2, <2>3
<1>4. <<Head(b)>> \in Seq(Nat)
  BY <1>1
<1>5. (a \o <<Head(b)>>) \o Tail(b) = a \o (<<Head(b)>> \o Tail(b))
  BY <1>1, <1>4, ConcatAssociative
<1> QED BY <1>2, <1>3, <1>5

\* The server's results are results.
LEMMA EffectsType == op \in DOMAIN Table => Effects \subseteq Seq(Nat)
<1> SUFFICES ASSUME op \in DOMAIN Table PROVE Effects \subseteq Seq(Nat)
  OBVIOUS
<1>1. Table[op] \in Shapes
  BY TableShapes
<1>2. <<>> \in Seq(Nat) /\ Items(1) \in Seq(Nat) /\ {Items(n) : n \in 1..MaxList} \subseteq Seq(Nat)
  BY ItemsType, OperationsAssumption
<1>3. CASE Table[op] = "void"
  BY <1>2, <1>3, Zenon DEF Effects
<1>4. CASE Table[op] = "value"
  BY <1>2, <1>4, Zenon DEF Effects
<1>5. CASE Table[op] = "nullable"
  BY <1>2, <1>5, Zenon DEF Effects
<1>6. CASE Table[op] = "list"
  BY <1>2, <1>6, Zenon DEF Effects
<1> QED BY <1>1, <1>3, <1>4, <1>5, <1>6 DEF Shapes

-----------------------------------------------------------------------------
LEMMA InitOInv == Init => OInv
<1> SUFFICES ASSUME Init PROVE OInv
  OBVIOUS
<1>1. TypeOK
  BY DEF Init, TypeOK
<1>2. \A s \in Subs : Unanswered(s) /\ AnswerKept(s)
  BY DEF Init, Unanswered, AnswerKept
<1> QED BY <1>1, <1>2 DEF OInv

\* What the bridge is given for an answer of the driver.
LEMMA ReplyOf ==
    ASSUME TypeOK, NEW s \in Subs, NEW failed \in BOOLEAN
    PROVE  LET reply == Reply(s, failed)
           IN  /\ reply.error = failed
               /\ ~failed /\ ~reply.null => reply.items = Expected(s)
               /\ ~failed /\ reply.null => Expected(s) = <<>>
BY DEF TypeOK, Reply, Raw, VoidToSuccess, Expected

LEMMA StepOInv == ASSUME NEW s \in Subs, OInv PROVE
    /\ Subscribe(s) => OInv'
    /\ \A n \in 1..MaxAsk : Request(s, n) => OInv'
    /\ Execute(s) => OInv'
    /\ Answer(s) => OInv'
    /\ DeliverNext(s) => OInv'
    /\ DeliverEnd(s) => OInv'
    /\ Unsubscribe(s) => OInv'
<1> USE DEF OInv
<1>1. ASSUME Subscribe(s) PROVE OInv'
  BY <1>1 DEF Subscribe, TypeOK, Unanswered, AnswerKept, Expected
<1>2. ASSUME NEW n \in 1..MaxAsk, Request(s, n) PROVE OInv'
  <2>0. n \in Nat
    BY OperationsAssumption
  <2>1. TypeOK'
    <3>1. asked' \in [Subs -> Nat]
      BY <1>2, <2>0 DEF Request, TypeOK
    <3>2. phase' \in [Subs -> {"new", "subscribed", "sent", "answered"}]
      <4>1. \/ phase' = phase
            \/ phase' = [phase EXCEPT ![s] = "sent"]
            \/ phase' = [phase EXCEPT ![s] = "answered"]
        BY <1>2 DEF Request
      <4> QED BY <4>1 DEF TypeOK
    <3>3. end' \in [Subs -> {"none", "error", "completed"}]
      BY <1>2 DEF Request, TypeOK
    <3> QED BY <1>2, <3>1, <3>2, <3>3 DEF Request, TypeOK
  <2>2. \A r \in Subs : Unanswered(r)' /\ AnswerKept(r)'
    <3> SUFFICES ASSUME NEW r \in Subs PROVE Unanswered(r)' /\ AnswerKept(r)'
      OBVIOUS
    <3>1. Expected(r)' = Expected(r) /\ UNCHANGED <<executed, todo, seen, outcome>>
      BY <1>2 DEF Request, Expected
    <3>2. CASE r = s
      BY <1>2, <3>1, <3>2 DEF Request, TypeOK, Unanswered, AnswerKept
    <3>3. CASE r # s
      BY <1>2, <3>1, <3>3 DEF Request, TypeOK, Unanswered, AnswerKept
    <3> QED BY <3>2, <3>3
  <2> QED BY <2>1, <2>2
<1>3. ASSUME Execute(s) PROVE OInv'
  <2>1. Effects \subseteq Seq(Nat)
    BY EffectsType DEF TypeOK
  <2>2. TypeOK'
    BY <1>3, <2>1 DEF Execute, TypeOK
  <2>3. \A r \in Subs : Unanswered(r)' /\ AnswerKept(r)'
    BY <1>3 DEF Execute, TypeOK, Unanswered, AnswerKept, Expected
  <2> QED BY <2>2, <2>3
<1>4. ASSUME Answer(s) PROVE OInv'
  <2>1. PICK failed \in BOOLEAN :
            /\ ~failed => executed[s] = 1
            /\ LET reply == Reply(s, failed)
               IN  /\ end' = [end EXCEPT ![s] = IF reply.error THEN "error" ELSE "completed"]
                   /\ todo' = [todo EXCEPT ![s] =
                                  IF reply.error \/ reply.null THEN <<>> ELSE reply.items]
    BY <1>4 DEF Answer
  <2>2. /\ end' = [end EXCEPT ![s] = IF failed THEN "error" ELSE "completed"]
        /\ todo' = [todo EXCEPT ![s] = IF failed THEN <<>> ELSE Expected(s)]
    BY <2>1, ReplyOf
  <2>3. Expected(s) \in Seq(Nat)
    BY DEF Expected, TypeOK, SUCCESS
  <2>4. TypeOK'
    BY <1>4, <2>2, <2>3 DEF Answer, TypeOK
  <2>5. <<>> \o Expected(s) = Expected(s)
    BY <2>3, ConcatEmptySeq
  <2>6. \A r \in Subs : Unanswered(r)' /\ AnswerKept(r)'
    <3> SUFFICES ASSUME NEW r \in Subs PROVE Unanswered(r)' /\ AnswerKept(r)'
      OBVIOUS
    <3>1. Expected(r)' = Expected(r)
      BY <1>4 DEF Answer, Expected
    <3>2. CASE r = s
      BY <1>4, <2>1, <2>2, <2>5, <3>1, <3>2 DEF Answer, TypeOK, Unanswered, AnswerKept
    <3>3. CASE r # s
      BY <1>4, <2>2, <3>1, <3>3 DEF Answer, TypeOK, Unanswered, AnswerKept
    <3> QED BY <3>2, <3>3
  <2> QED BY <2>4, <2>6
<1>5. ASSUME DeliverNext(s) PROVE OInv'
  <2>1. seen[s] \in Seq(Nat) /\ todo[s] \in Seq(Nat) /\ todo[s] # <<>>
    BY <1>5 DEF DeliverNext, TypeOK
  <2>2. Head(todo[s]) \in Nat /\ Tail(todo[s]) \in Seq(Nat)
    BY <2>1, HeadTailProperties
  <2>3. Append(seen[s], Head(todo[s])) \in Seq(Nat)
    BY <2>1, <2>2, AppendProperties
  <2>4. TypeOK'
    BY <1>5, <2>2, <2>3 DEF DeliverNext, TypeOK
  <2>5. Append(seen[s], Head(todo[s])) \o Tail(todo[s]) = seen[s] \o todo[s]
    BY <2>1, MoveOne
  <2>6. \A r \in Subs : Unanswered(r)' /\ AnswerKept(r)'
    <3> SUFFICES ASSUME NEW r \in Subs PROVE Unanswered(r)' /\ AnswerKept(r)'
      OBVIOUS
    <3>1. Expected(r)' = Expected(r)
      BY <1>5 DEF DeliverNext, Expected
    <3>2. CASE r = s
      BY <1>5, <2>1, <2>5, <3>1, <3>2 DEF DeliverNext, TypeOK, Unanswered, AnswerKept
    <3>3. CASE r # s
      BY <1>5, <3>1, <3>3 DEF DeliverNext, TypeOK, Unanswered, AnswerKept
    <3> QED BY <3>2, <3>3
  <2> QED BY <2>4, <2>6
<1>6. ASSUME DeliverEnd(s) PROVE OInv'
  BY <1>6 DEF DeliverEnd, TypeOK, Unanswered, AnswerKept, Expected
<1>7. ASSUME Unsubscribe(s) PROVE OInv'
  BY <1>7 DEF Unsubscribe, TypeOK, Unanswered, AnswerKept, Expected
<1> QED BY <1>1, <1>2, <1>3, <1>4, <1>5, <1>6, <1>7

-----------------------------------------------------------------------------
\* OInv holds of every one-shot operation and its subscribers.
THEOREM OperationsInvariance == Spec => []OInv
<1>1. OInv /\ [Next]_vars => OInv'
  <2> SUFFICES ASSUME OInv, [Next]_vars PROVE OInv'
    OBVIOUS
  <2>1. CASE Next
    BY <2>1, StepOInv DEF Next, Driver
  <2>2. CASE UNCHANGED vars
    BY <2>2 DEF OInv, TypeOK, Unanswered, AnswerKept, Expected, vars
  <2> QED BY <2>1, <2>2
<1> QED BY InitOInv, <1>1, PTL DEF Spec

\* The variables keep their types.
THEOREM OperationsTypes == Spec => []TypeOK
<1>1. OInv => TypeOK
  BY DEF OInv
<1> QED BY OperationsInvariance, <1>1, PTL

\* voidToSuccessCallback, and the driver's subscription: a result or
\* onCompleted means that the server carried the operation out for this
\* subscription.
THEOREM RealSuccess == Spec => []SuccessIsReal
<1>1. OInv => SuccessIsReal
  <2> SUFFICES ASSUME OInv, NEW s \in Subs, outcome[s] = "completed" \/ seen[s] # <<>>
               PROVE  executed[s] = 1
    BY DEF SuccessIsReal
  <2>1. end[s] = "completed"
    BY DEF OInv, TypeOK, Unanswered, AnswerKept
  <2> QED BY <2>1 DEF OInv, AnswerKept
<1> QED BY OperationsInvariance, <1>1, PTL

\* A completed subscriber has seen the whole answer, in order, and no more:
\* SUCCESS, the document or nothing, every element of a list.
THEOREM WholeAnswer == Spec => []CompleteAnswer
<1>1. OInv => CompleteAnswer
  <2> SUFFICES ASSUME OInv, NEW s \in Subs, outcome[s] = "completed"
               PROVE  seen[s] = Expected(s)
    BY DEF CompleteAnswer, Expected
  <2>1. seen[s] \o todo[s] = Expected(s) /\ todo[s] = <<>>
    BY DEF OInv, AnswerKept
  <2>2. seen[s] \in Seq(Nat)
    BY DEF OInv, TypeOK
  <2> QED BY <2>1, <2>2, ConcatEmptySeq
<1> QED BY OperationsInvariance, <1>1, PTL

-----------------------------------------------------------------------------
(***************************************************************************)
(* The contract, subscription by subscription.                             *)
(***************************************************************************)

\* Only a subscription that asked for something sends the operation.
AskedFirst == \A s \in Subs : phase[s] \in {"sent", "answered"} => asked[s] > 0

LEMMA NextAskedFirst == TypeOK /\ AskedFirst /\ [Next]_vars => AskedFirst'
<1> SUFFICES ASSUME TypeOK, AskedFirst, [Next]_vars PROVE AskedFirst'
  OBVIOUS
<1>1. ASSUME NEW s \in Subs, NEW n \in 1..MaxAsk, Request(s, n) PROVE AskedFirst'
  <2> SUFFICES ASSUME NEW r \in Subs, phase'[r] \in {"sent", "answered"} PROVE asked'[r] > 0
    BY DEF AskedFirst
  <2>1. CASE r = s
    <3>1. asked'[s] = asked[s] + n /\ asked[s] \in Nat /\ n \in Nat /\ n > 0
      BY <1>1, OperationsAssumption DEF Request, TypeOK
    <3> QED BY <2>1, <3>1
  <2>2. CASE r # s
    <3>1. phase'[r] = phase[r] /\ asked'[r] = asked[r]
      BY <1>1, <2>2 DEF Request, TypeOK
    <3> QED BY <3>1 DEF AskedFirst
  <2> QED BY <2>1, <2>2
<1>2. ASSUME NEW s \in Subs,
             Subscribe(s) \/ Execute(s) \/ Driver(s) \/ Unsubscribe(s)
      PROVE  AskedFirst'
  BY <1>2 DEF Subscribe, Execute, Driver, Answer, DeliverNext, DeliverEnd, Unsubscribe, TypeOK,
              AskedFirst
<1>3. CASE UNCHANGED vars
  BY <1>3 DEF vars, AskedFirst
<1> QED BY <1>1, <1>2, <1>3 DEF Next

\* What the application sees of a subscription.
Visible(s) == <<op, asked[s], unsubscribed[s], executed[s], effect[s], seen[s], outcome[s]>>

LEMMA Unnoticed ==
    ASSUME NEW s \in Subs, UNCHANGED Visible(s)
    PROVE  UNCHANGED Contract(s)!vars
BY DEF Visible, Contract!vars, Expected

\* Subscriptions do not see each other.
LEMMA OthersUnnoticed ==
    ASSUME TypeOK, NEW r \in Subs, NEW s \in Subs, r # s,
           \/ Subscribe(r) \/ Execute(r) \/ Driver(r) \/ Unsubscribe(r)
           \/ \E n \in 1..MaxAsk : Request(r, n)
    PROVE  UNCHANGED Visible(s)
BY DEF Subscribe, Execute, Driver, Answer, DeliverNext, DeliverEnd, Unsubscribe, Request,
       TypeOK, Visible

LEMMA TwoParts ==
    ASSUME NEW a \in Seq(Nat), NEW b \in Seq(Nat)
    PROVE  /\ Len(a) \in Nat /\ Len(b) \in Nat
           /\ Len(a \o b) = Len(a) + Len(b) /\ Len(a \o b) \in Nat
           /\ b # <<>> => Len(a) < Len(a \o b)
           /\ b = <<>> => Len(a) = Len(a \o b)
BY ConcatProperties, LenProperties, EmptySeq

\* Of a sequence delivered in part, the rest makes up the number.
LEMMA LeftToDeliver ==
    ASSUME OInv, NEW s \in Subs, end[s] = "completed"
    PROVE  /\ todo[s] # <<>> => Len(seen[s]) < Len(Expected(s))
           /\ todo[s] = <<>> => Len(seen[s]) = Len(Expected(s))
<1>1. /\ seen[s] \in Seq(Nat) /\ todo[s] \in Seq(Nat)
      /\ Expected(s) = seen[s] \o todo[s]
  BY DEF OInv, TypeOK, AnswerKept
<1>2. /\ todo[s] # <<>> => Len(seen[s]) < Len(seen[s] \o todo[s])
      /\ todo[s] = <<>> => Len(seen[s]) = Len(seen[s] \o todo[s])
  BY <1>1, TwoParts
<1> QED BY <1>1, <1>2, Zenon

LEMMA RequestKeepsContract ==
    ASSUME TypeOK, NEW s \in Subs, NEW n \in 1..MaxAsk, Request(s, n)
    PROVE  Contract(s)!Next
<1>1. asked'[s] = asked[s] + n /\ asked[s] \in Nat /\ n \in Nat /\ n > 0
  BY OperationsAssumption DEF Request, TypeOK
<1>2. asked'[s] > asked[s]
  BY <1>1
<1>3. UNCHANGED <<unsubscribed[s], executed[s], Expected(s), seen[s], outcome[s]>>
  BY DEF Request, Expected
<1> QED BY <1>2, <1>3 DEF Contract!Next, Contract!Request

LEMMA ExecuteKeepsContract ==
    ASSUME OInv, OInv', AskedFirst, NEW s \in Subs, Execute(s)
    PROVE  Contract(s)!Next
<1>1. asked[s] > 0
  BY DEF Execute, AskedFirst
<1>2. executed[s] = 0 /\ executed'[s] = 1 /\ outcome[s] = "none"
  BY DEF Execute, OInv, TypeOK, Unanswered
<1>3. UNCHANGED <<asked[s], unsubscribed[s], seen[s], outcome[s]>>
  BY DEF Execute
<1>4. Expected(s)' \in Seq(Nat)
  BY DEF OInv, TypeOK, Expected, SUCCESS
<1>5. Len(Expected(s))' \in Nat
  BY <1>4, LenProperties
<1> QED BY <1>1, <1>2, <1>3, <1>5 DEF Contract!Next, Contract!Start, Contract!Wanted

LEMMA DeliverNextKeepsContract ==
    ASSUME OInv, NEW s \in Subs, DeliverNext(s)
    PROVE  Contract(s)!Next
<1>1. /\ ~unsubscribed[s] /\ todo[s] # <<>> /\ Len(seen[s]) < asked[s]
      /\ seen' = [seen EXCEPT ![s] = Append(@, Head(todo[s]))]
      /\ UNCHANGED <<op, asked, executed, effect, outcome, unsubscribed>>
  BY DEF DeliverNext
<1>2. seen[s] \in Seq(Nat) /\ todo[s] \in Seq(Nat) /\ Head(todo[s]) \in Nat
  BY <1>1, HeadTailProperties DEF OInv, TypeOK
<1>3. end[s] = "completed" /\ outcome[s] = "none"
  BY <1>1 DEF DeliverNext, OInv, TypeOK, AnswerKept
<1>4. executed[s] = 1
  BY <1>3 DEF OInv, AnswerKept
<1>5. Len(seen[s]) < Len(Expected(s))
  BY <1>1, <1>3, LeftToDeliver
<1>6. seen'[s] = Append(seen[s], Head(todo[s]))
  BY <1>1 DEF OInv, TypeOK
<1>7. Len(seen[s])' = Len(seen[s]) + 1
  BY <1>2, <1>6, AppendProperties
<1>8. Expected(s)' = Expected(s)
  BY <1>1 DEF Expected
<1>9. Contract(s)!NextResult
  BY <1>1, <1>3, <1>4, <1>5, <1>7, <1>8 DEF Contract!NextResult, Contract!Cross
<1> QED BY <1>9 DEF Contract!Next

LEMMA DeliverEndKeepsContract ==
    ASSUME OInv, AskedFirst, NEW s \in Subs, DeliverEnd(s)
    PROVE  Contract(s)!Next
<1>1. /\ phase[s] = "answered" /\ ~unsubscribed[s] /\ todo[s] = <<>> /\ outcome[s] = "none"
      /\ outcome' = [outcome EXCEPT ![s] = end[s]]
      /\ unsubscribed' = [unsubscribed EXCEPT ![s] = TRUE]
      /\ UNCHANGED <<op, asked, executed, effect, seen>>
  BY DEF DeliverEnd
<1>2. outcome'[s] = end[s] /\ unsubscribed'[s] = TRUE /\ end[s] \in {"error", "completed"}
  BY <1>1 DEF OInv, TypeOK, AnswerKept
<1>3. asked[s] > 0
  BY <1>1 DEF AskedFirst
<1>4. end[s] = "completed" => executed[s] = 1 /\ Len(seen[s]) = Len(Expected(s))
  BY <1>1, LeftToDeliver DEF OInv, AnswerKept
<1>5. Expected(s)' = Expected(s)
  BY <1>1 DEF Expected
<1>6. Contract(s)!Finish
  BY <1>1, <1>2, <1>3, <1>4, <1>5 DEF Contract!Finish, Contract!Cross, Contract!Wanted
<1> QED BY <1>6 DEF Contract!Next

LEMMA StepKeepsContract ==
    ASSUME OInv, OInv', AskedFirst, [Next]_vars, NEW s \in Subs
    PROVE  [Contract(s)!Next]_(Contract(s)!vars)
<1>0. TypeOK
  BY DEF OInv
<1>1. ASSUME NEW r \in Subs, r # s,
             \/ Subscribe(r) \/ Execute(r) \/ Driver(r) \/ Unsubscribe(r)
             \/ \E n \in 1..MaxAsk : Request(r, n)
      PROVE  UNCHANGED Contract(s)!vars
  BY <1>0, <1>1, OthersUnnoticed, Unnoticed
<1>2. CASE Subscribe(s) \/ Answer(s) \/ UNCHANGED vars
  <2>1. UNCHANGED Visible(s)
    BY <1>2 DEF Subscribe, Answer, vars, Visible
  <2> QED BY <2>1, Unnoticed
<1>3. CASE \E n \in 1..MaxAsk : Request(s, n)
  BY <1>0, <1>3, RequestKeepsContract
<1>4. CASE Execute(s)
  BY <1>4, ExecuteKeepsContract
<1>5. CASE DeliverNext(s)
  BY <1>5, DeliverNextKeepsContract
<1>6. CASE DeliverEnd(s)
  BY <1>6, DeliverEndKeepsContract
<1>7. CASE Unsubscribe(s)
  <2>1. unsubscribed'[s] = TRUE
    BY <1>0, <1>7 DEF Unsubscribe, TypeOK
  <2>2. UNCHANGED <<asked[s], executed[s], Expected(s), seen[s], outcome[s]>>
    BY <1>7 DEF Unsubscribe, Expected
  <2> QED BY <2>1, <2>2 DEF Contract!Next, Contract!Cancel
<1> QED BY <1>1, <1>2, <1>3, <1>4, <1>5, <1>6, <1>7 DEF Next, Driver

\* Every subscription to a one-shot operation keeps the contract of the
\* bridge, however many there are and whatever the others do: the server
\* carries the operation out for it once and on demand, results come as they
\* are asked for, and it ends once, complete or with an error.
THEOREM OneContractEach == Spec => SubscriptionsKeepContract
<1>1. Init => \A s \in Subs : Contract(s)!Init
  <2> SUFFICES ASSUME Init, NEW s \in Subs PROVE Contract(s)!Init
    OBVIOUS
  <2> QED BY DEF Init, Contract!Init
<1>2. Init => AskedFirst
  BY DEF Init, AskedFirst
<1>3. OInv /\ AskedFirst /\ [Next]_vars => AskedFirst'
  BY NextAskedFirst DEF OInv
<1>4. OInv /\ OInv' /\ AskedFirst /\ [Next]_vars
        => [\A s \in Subs : [Contract(s)!Next]_(Contract(s)!vars)]_vars
  BY StepKeepsContract
<1> QED BY <1>1, <1>2, <1>3, <1>4, OperationsInvariance, PTL DEF Spec, SubscriptionsKeepContract
=============================================================================
