------------------------ MODULE CallbackStreamsProofs ------------------------
(***************************************************************************)
(* The converted streams, for every set of calls and whatever their        *)
(* Observables emit.                                                       *)
(*                                                                         *)
(* Each call is followed by itself: as long as its Subscriber has seen no  *)
(* terminal event it has not answered and holds the last result it was     *)
(* given; from the first terminal event on, the answer is fixed.  Of a     *)
(* wrapped callback stream one knows besides where in the sequence of its  *)
(* one answer the Observable is, so that the two conversions cancel.       *)
(***************************************************************************)
EXTENDS CallbackStreams, SequenceTheorems, TLAPS

\* Nothing happens to a call that has not been made, or that threw.
NotMade(c) ==
    /\ kind[c] = "none" => ~threw[c] /\ inner[c] = <<>>
    /\ kind[c] = "none" \/ threw[c] =>
            pending[c] = <<>> /\ sent[c] = <<>> /\ ~done[c]

\* An Observable emits what its method returns.
EmitsOwnKind(c) ==
    \A i \in 1..Len(pending[c]) :
        pending[c][i].type = "next" => pending[c][i].value \in Values(kind[c])

\* Before the first terminal event.
Open(c) ==
    ~done[c] =>
        /\ answers[c] = <<>>
        /\ \A i \in 1..Len(sent[c]) : sent[c][i].type = "next"
        /\ result[c] = IF kind[c] = "close" \/ sent[c] = <<>> THEN Null
                       ELSE sent[c][Len(sent[c])].value

\* The answer that the first terminal event, number n, calls for.
AnswerAt(events, k, n) ==
    IF events[n].type = "error" THEN Args(Null, TRUE)
    ELSE Args(IF n = 1 \/ k = "close" THEN Null ELSE events[n - 1].value, FALSE)

\* After it.
Ended(c) ==
    done[c] =>
        \E n \in 1..Len(sent[c]) :
            /\ \A i \in 1..(n - 1) : sent[c][i].type = "next"
            /\ sent[c][n].type # "next"
            /\ answers[c] = << AnswerAt(sent[c], kind[c], n) >>

\* What the Observable of a wrapped callback stream makes of its answer.
InnerSequence(c) ==
    Sequence(IF kind[c] = "close" THEN VoidToSuccess(inner[c][1]) ELSE inner[c][1])

InnerArgs(k) == IF k = "close" THEN {Args(Null, FALSE), Args(Null, TRUE)}
                ELSE {Args(n, FALSE) : n \in Counts} \cup {Args(Null, TRUE)}

Wrapped(c) ==
    wrapper =>
        /\ ~threw[c]
        /\ inner[c] = <<>> => pending[c] = <<>> /\ sent[c] = <<>>
        /\ inner[c] # <<>> =>
            /\ \E a \in InnerArgs(kind[c]) : inner[c] = <<a>>
            /\ \/ sent[c] = <<>> /\ pending[c] = InnerSequence(c)
               \/ /\ Len(InnerSequence(c)) = 2
                  /\ sent[c] = <<InnerSequence(c)[1]>> /\ pending[c] = <<InnerSequence(c)[2]>>
               \/ sent[c] = InnerSequence(c) /\ pending[c] = <<>>

CallInv(c) == NotMade(c) /\ EmitsOwnKind(c) /\ Open(c) /\ Ended(c) /\ Wrapped(c)

SInv == TypeOK /\ \A c \in Calls : CallInv(c)

-----------------------------------------------------------------------------
\* The values are apart: results, the end of a stream, null and SUCCESS.
LEMMA Constants ==
    /\ Counts \subseteq Int /\ Null \notin Counts /\ SUCCESS \notin Counts
    /\ SUCCESS # Null
    /\ ErrorEvent \in Event /\ CompletedEvent \in Event
    /\ \A v \in Results : NextEvent(v) \in Event
    /\ \A v \in Results, b \in BOOLEAN : Args(v, b) \in Answer
    /\ \A k : Values(k) \subseteq Results
BY StreamsAssumption DEF Counts, Null, SUCCESS, EOF, Results, ErrorEvent, CompletedEvent,
                         NextEvent, Event, Args, Answer, Values

\* Sequences of one and of two.
LEMMA OneAndTwo ==
    ASSUME NEW S, NEW a \in S, NEW b \in S
    PROVE  <<a>> \in Seq(S) /\ <<a, b>> \in Seq(S)
OBVIOUS

LEMMA AppendToNone == ASSUME NEW x PROVE Append(<<>>, x) = <<x>>
<1>1. <<>> \in Seq({x}) /\ <<x>> \in Seq({x}) /\ x \in {x}
  BY OneAndTwo
<1>2. <<>> \o <<x>> = <<x>>
  BY <1>1, ConcatEmptySeq
<1> QED BY <1>1, <1>2, AppendIsConcat

LEMMA InitSInv == Init => SInv
<1> SUFFICES ASSUME Init PROVE SInv
  OBVIOUS
<1>1. TypeOK
  BY DEF Init, TypeOK, Null
<1>2. ASSUME NEW c \in Calls PROVE CallInv(c)
  BY DEF Init, CallInv, NotMade, EmitsOwnKind, Open, Ended, Wrapped
<1> QED BY <1>1, <1>2 DEF SInv

\* A call that a step does not touch keeps its invariant.
LEMMA OthersKept ==
    ASSUME NEW c \in Calls, wrapper' = wrapper, CallInv(c),
           kind'[c] = kind[c], threw'[c] = threw[c], inner'[c] = inner[c],
           pending'[c] = pending[c], result'[c] = result[c], done'[c] = done[c],
           answers'[c] = answers[c], sent'[c] = sent[c]
    PROVE  CallInv(c)'
<1>1. NotMade(c)' /\ EmitsOwnKind(c)' /\ Open(c)'
  BY DEF CallInv, NotMade, EmitsOwnKind, Open
<1>2. Ended(c)'
  BY DEF CallInv, Ended
<1>3. Wrapped(c)'
  <2>1. InnerSequence(c)' = InnerSequence(c)
    BY DEF InnerSequence
  <2> QED BY <2>1 DEF CallInv, Wrapped
<1> QED BY <1>1, <1>2, <1>3 DEF CallInv

-----------------------------------------------------------------------------
(***************************************************************************)
(* A call is made; its Observable has something to deliver.                *)
(***************************************************************************)
LEMMA CallKeeps ==
    ASSUME SInv, NEW c \in Calls, NEW k \in {"read", "write", "close"}, Call(c, k)
    PROVE  SInv'
<1> USE DEF SInv
<1>1. /\ kind[c] = "none" /\ kind' = [kind EXCEPT ![c] = k]
      /\ UNCHANGED <<wrapper, result, done, answers, sent>>
  BY DEF Call
<1>2. /\ ~threw[c] /\ inner[c] = <<>> /\ pending[c] = <<>> /\ sent[c] = <<>> /\ ~done[c]
      /\ answers[c] = <<>> /\ result[c] = Null
  BY <1>1 DEF CallInv, NotMade, Open
<1>3. TypeOK'
  <2>1. ErrorEvent \in Event /\ Args(Null, TRUE) \in Answer
    BY Constants DEF Results
  <2>2. <<ErrorEvent>> \in Seq(Event) /\ <<Args(Null, TRUE)>> \in Seq(Answer)
    BY <2>1, OneAndTwo
  <2>3. /\ inner' \in [Calls -> Seq(Answer)] /\ pending' \in [Calls -> Seq(Event)]
        /\ threw' \in [Calls -> BOOLEAN]
    BY <2>2 DEF Call, TypeOK
  <2> QED BY <1>1, <2>3 DEF TypeOK
<1>4. ASSUME NEW r \in Calls, r # c PROVE CallInv(r)'
  BY <1>4, OthersKept DEF Call, TypeOK
<1>5. CallInv(c)'
  <2>1. NotMade(c)'
    BY <1>1, <1>2 DEF Call, TypeOK, NotMade
  <2>3. Open(c)' /\ Ended(c)'
    <3>1. ~done'[c] /\ answers'[c] = <<>> /\ sent'[c] = <<>> /\ result'[c] = Null
      BY <1>1, <1>2
    <3> QED BY <3>1 DEF Open, Ended
  <2>2. EmitsOwnKind(c)' /\ Wrapped(c)'
    <3>1. CASE UNCHANGED <<threw, inner, pending>>
      BY <1>1, <1>2, <3>1 DEF TypeOK, EmitsOwnKind, Wrapped
    <3>2. CASE ~wrapper /\ threw' = [threw EXCEPT ![c] = TRUE] /\ UNCHANGED <<inner, pending>>
      BY <1>1, <1>2, <3>2 DEF TypeOK, EmitsOwnKind, Wrapped
    <3>3. CASE /\ wrapper /\ UNCHANGED threw
               /\ inner' = [inner EXCEPT ![c] = <<Args(Null, TRUE)>>]
               /\ pending' = [pending EXCEPT ![c] = <<ErrorEvent>>]
      <4>1. inner'[c] = <<Args(Null, TRUE)>> /\ pending'[c] = <<ErrorEvent>>
        BY <3>3 DEF TypeOK
      <4>2. InnerSequence(c)' = <<ErrorEvent>>
        BY <4>1 DEF InnerSequence, Sequence, VoidToSuccess, Args
      <4>3. \E a \in InnerArgs(kind'[c]) : inner'[c] = <<a>>
        BY <4>1 DEF InnerArgs
      <4>4. EmitsOwnKind(c)'
        BY <4>1 DEF EmitsOwnKind, ErrorEvent
      <4> QED BY <1>1, <1>2, <3>3, <4>1, <4>2, <4>3, <4>4 DEF Wrapped
    <3> QED BY <3>1, <3>2, <3>3 DEF Call
  <2> QED BY <2>1, <2>2, <2>3 DEF CallInv
<1> QED BY <1>3, <1>4, <1>5

\* What the answer of an inner stream becomes.
LEMMA SequenceOf ==
    ASSUME NEW k \in {"read", "write", "close"}, NEW args \in InnerArgs(k)
    PROVE  LET q == Sequence(IF k = "close" THEN VoidToSuccess(args) ELSE args)
           IN  \/ args = Args(Null, TRUE) /\ q = <<ErrorEvent>>
               \/ \E v \in Values(k) :
                    /\ args = Args(IF k = "close" THEN Null ELSE v, FALSE)
                    /\ q = <<NextEvent(v), CompletedEvent>>
<1>1. CASE args = Args(Null, TRUE)
  BY <1>1 DEF Sequence, VoidToSuccess, Args
<1>2. CASE k = "close" /\ args = Args(Null, FALSE)
  BY <1>2, Constants DEF Sequence, VoidToSuccess, Args, Values
<1>3. CASE k # "close" /\ \E n \in Counts : args = Args(n, FALSE)
  <2>1. PICK n \in Counts : args = Args(n, FALSE)
    BY <1>3
  <2>2. n # Null /\ n \in Values(k)
    BY <1>3, Constants DEF Values
  <2>3. args.error = FALSE /\ args.result = n
    BY <2>1 DEF Args
  <2>4. Sequence(args) = <<NextEvent(n), CompletedEvent>>
    BY <2>2, <2>3 DEF Sequence
  <2> QED BY <1>3, <2>1, <2>2, <2>4
<1> QED BY <1>1, <1>2, <1>3 DEF InnerArgs

LEMMA InnerAnswersKeeps ==
    ASSUME SInv, NEW c \in Calls, InnerAnswers(c)
    PROVE  SInv'
<1> USE DEF SInv
<1>1. PICK args \in InnerArgs(kind[c]) :
        /\ inner' = [inner EXCEPT ![c] = <<args>>]
        /\ pending' = [pending EXCEPT ![c] =
                Sequence(IF kind[c] = "close" THEN VoidToSuccess(args) ELSE args)]
  BY DEF InnerAnswers, InnerArgs
<1>2. /\ wrapper /\ kind[c] # "none" /\ inner[c] = <<>>
      /\ UNCHANGED <<wrapper, kind, threw, result, done, answers, sent>>
  BY DEF InnerAnswers
<1>3. kind[c] \in {"read", "write", "close"}
  BY <1>2 DEF TypeOK
<1> DEFINE q == Sequence(IF kind[c] = "close" THEN VoidToSuccess(args) ELSE args)
<1>4. \/ args = Args(Null, TRUE) /\ q = <<ErrorEvent>>
      \/ \E v \in Values(kind[c]) :
            /\ args = Args(IF kind[c] = "close" THEN Null ELSE v, FALSE)
            /\ q = <<NextEvent(v), CompletedEvent>>
  BY <1>3, SequenceOf
<1>5. q \in Seq(Event) /\ args \in Answer
  <2>1. Null \in Results /\ Values(kind[c]) \subseteq Results
    BY Constants DEF Results
  <2>2. CASE args = Args(Null, TRUE) /\ q = <<ErrorEvent>>
    <3>1. ErrorEvent \in Event /\ Args(Null, TRUE) \in Answer
      BY <2>1, Constants
    <3> QED BY <2>2, <3>1, OneAndTwo
  <2>3. ASSUME NEW v \in Values(kind[c]),
               args = Args(IF kind[c] = "close" THEN Null ELSE v, FALSE),
               q = <<NextEvent(v), CompletedEvent>>
        PROVE  q \in Seq(Event) /\ args \in Answer
    <3>1. NextEvent(v) \in Event /\ CompletedEvent \in Event
      BY <2>1, Constants
    <3>2. args \in Answer
      BY <2>1, <2>3, Constants
    <3> QED BY <2>3, <3>1, <3>2, OneAndTwo
  <2> QED BY <1>4, <2>2, <2>3
<1>6. /\ inner'[c] = <<args>> /\ pending'[c] = q
      /\ \A r \in Calls : r # c => inner'[r] = inner[r] /\ pending'[r] = pending[r]
  BY <1>1 DEF TypeOK
<1> HIDE DEF q
<1>7. TypeOK'
  BY <1>1, <1>2, <1>5, <1>6 DEF TypeOK
<1>8. ASSUME NEW r \in Calls, r # c PROVE CallInv(r)'
  BY <1>2, <1>6, <1>8, OthersKept
<1>9. CallInv(c)'
  <2>1. pending[c] = <<>> /\ sent[c] = <<>> /\ ~threw[c]
    BY <1>2 DEF CallInv, Wrapped
  <2>2. NotMade(c)' /\ Open(c)' /\ Ended(c)'
    BY <1>2, <2>1 DEF CallInv, NotMade, Open, Ended
  <2>3. EmitsOwnKind(c)'
    <3>1. CASE q = <<ErrorEvent>>
      BY <1>6, <3>1 DEF EmitsOwnKind, ErrorEvent
    <3>2. ASSUME NEW v \in Values(kind[c]), q = <<NextEvent(v), CompletedEvent>>
          PROVE  EmitsOwnKind(c)'
      <4>1. /\ Len(pending'[c]) = 2 /\ pending'[c][1].value = v
            /\ pending'[c][2].type = "completed"
        BY <1>6, <3>2 DEF NextEvent, CompletedEvent
      <4> QED BY <1>2, <4>1 DEF EmitsOwnKind
    <3> QED BY <1>4, <3>1, <3>2
  <2>4. Wrapped(c)'
    <3>1. InnerSequence(c)' = q
      BY <1>2, <1>6 DEF InnerSequence, q
    <3>2. inner'[c] # <<>>
      BY <1>6
    <3> QED BY <1>1, <1>2, <1>6, <2>1, <3>1, <3>2 DEF Wrapped
  <2> QED BY <2>2, <2>3, <2>4 DEF CallInv
<1> QED BY <1>7, <1>8, <1>9

LEMMA SourceEmitsKeeps ==
    ASSUME SInv, NEW c \in Calls, SourceEmits(c)
    PROVE  SInv'
<1> USE DEF SInv
<1>1. PICK e \in {NextEvent(v) : v \in Values(kind[c])} \cup {ErrorEvent, CompletedEvent} :
        pending' = [pending EXCEPT ![c] = <<e>>]
  BY DEF SourceEmits
<1>2. /\ ~wrapper /\ kind[c] # "none" /\ ~threw[c]
      /\ UNCHANGED <<wrapper, kind, threw, inner, result, done, answers, sent>>
  BY DEF SourceEmits
<1>3. e \in Event /\ (e.type = "next" => e.value \in Values(kind[c]))
  BY Constants DEF NextEvent, ErrorEvent, CompletedEvent
<1>4. pending'[c] = <<e>> /\ \A r \in Calls : r # c => pending'[r] = pending[r]
  BY <1>1 DEF TypeOK
<1>5. TypeOK'
  <2>1. <<e>> \in Seq(Event)
    BY <1>3
  <2> QED BY <1>1, <1>2, <1>4, <2>1 DEF TypeOK
<1>6. ASSUME NEW r \in Calls, r # c PROVE CallInv(r)'
  BY <1>2, <1>4, <1>6, OthersKept
<1>7. CallInv(c)'
  <2>1. NotMade(c)' /\ Open(c)' /\ Ended(c)' /\ Wrapped(c)'
    BY <1>2 DEF CallInv, NotMade, Open, Ended, Wrapped
  <2>2. EmitsOwnKind(c)'
    BY <1>2, <1>3, <1>4 DEF EmitsOwnKind
  <2> QED BY <2>1, <2>2 DEF CallInv
<1> QED BY <1>5, <1>6, <1>7

-----------------------------------------------------------------------------
(***************************************************************************)
(* The Subscriber.                                                         *)
(***************************************************************************)

\* Every handler first takes an event of its call's Observable.
LEMMA Delivered ==
    ASSUME SInv, NEW c \in Calls, NEW type, Deliver(c, type)
    PROVE  LET e == Head(pending[c])
           IN  /\ e \in Event /\ e.type = type
               /\ kind[c] # "none"
               /\ e.type = "next" => e.value \in Values(kind[c])
               /\ sent[c] \in Seq(Event) /\ sent'[c] \in Seq(Event)
               /\ Len(sent'[c]) = Len(sent[c]) + 1
               /\ \A i \in 1..Len(sent[c]) : sent'[c][i] = sent[c][i]
               /\ sent'[c][Len(sent[c]) + 1] = e
               /\ sent' \in [Calls -> Seq(Event)] /\ pending' \in [Calls -> Seq(Event)]
               /\ \A r \in Calls : r # c => sent'[r] = sent[r] /\ pending'[r] = pending[r]
<1> DEFINE e == Head(pending[c])
<1>1. /\ pending[c] # <<>> /\ e.type = type
      /\ pending' = [pending EXCEPT ![c] = Tail(pending[c])]
      /\ sent' = [sent EXCEPT ![c] = Append(sent[c], e)]
  BY DEF Deliver
<1>2. pending[c] \in Seq(Event) /\ sent[c] \in Seq(Event)
  BY DEF SInv, TypeOK
<1>3. e \in Event /\ Tail(pending[c]) \in Seq(Event)
  BY <1>1, <1>2, HeadTailProperties
<1>4. kind[c] # "none"
  BY <1>1 DEF SInv, CallInv, NotMade
<1>5. e.type = "next" => e.value \in Values(kind[c])
  <2>1. Len(pending[c]) \in Nat \ {0} /\ e = pending[c][1]
    BY <1>1, <1>2, EmptySeq
  <2> QED BY <2>1 DEF SInv, CallInv, EmitsOwnKind
<1>6. sent'[c] = Append(sent[c], e) /\ Append(sent[c], e) \in Seq(Event)
  BY <1>1, <1>2, <1>3, AppendProperties DEF SInv, TypeOK
<1>7. /\ Len(sent'[c]) = Len(sent[c]) + 1
      /\ \A i \in 1..Len(sent[c]) : sent'[c][i] = sent[c][i]
      /\ sent'[c][Len(sent[c]) + 1] = e
  BY <1>2, <1>3, <1>6, AppendProperties
<1>8. sent' \in [Calls -> Seq(Event)] /\ pending' \in [Calls -> Seq(Event)]
  BY <1>1, <1>3, <1>6 DEF SInv, TypeOK
<1>9. \A r \in Calls : r # c => sent'[r] = sent[r] /\ pending'[r] = pending[r]
  BY <1>1 DEF SInv, TypeOK
<1> QED BY <1>1, <1>2, <1>3, <1>4, <1>5, <1>6, <1>7, <1>8, <1>9

\* A wrapped stream's Observable goes on in the sequence of its one answer.
LEMMA DeliverWrapped ==
    ASSUME SInv, NEW c \in Calls, NEW type, Deliver(c, type)
    PROVE  NotMade(c)' /\ EmitsOwnKind(c)' /\ Wrapped(c)'
<1> USE DEF SInv
<1> DEFINE e == Head(pending[c])
<1>1. /\ pending[c] # <<>> /\ UNCHANGED <<wrapper, kind, threw, inner>>
      /\ pending'[c] = Tail(pending[c]) /\ sent'[c] = Append(sent[c], e)
  BY DEF Deliver, TypeOK
<1>2. pending[c] \in Seq(Event) /\ sent[c] \in Seq(Event)
  BY DEF TypeOK
<1>3. NotMade(c)'
  BY <1>1 DEF CallInv, NotMade
<1>4. EmitsOwnKind(c)'
  <2> SUFFICES ASSUME NEW i \in 1..Len(Tail(pending[c])), Tail(pending[c])[i].type = "next"
               PROVE  Tail(pending[c])[i].value \in Values(kind[c])
    BY <1>1 DEF EmitsOwnKind
  <2>1. Tail(pending[c])[i] = pending[c][i + 1] /\ i + 1 \in 1..Len(pending[c])
    BY <1>1, <1>2
  <2> QED BY <2>1 DEF CallInv, EmitsOwnKind
<1>5. ASSUME wrapper PROVE Wrapped(c)'
  <2> DEFINE q == InnerSequence(c)
  <2>1. inner[c] # <<>> /\ \E a \in InnerArgs(kind[c]) : inner[c] = <<a>>
    BY <1>1, <1>5 DEF CallInv, Wrapped
  <2>2. kind[c] \in {"read", "write", "close"}
    BY <1>1 DEF CallInv, NotMade, TypeOK
  <2>3. \/ q = <<ErrorEvent>>
        \/ \E v : q = <<NextEvent(v), CompletedEvent>>
    <3>1. PICK a \in InnerArgs(kind[c]) : inner[c] = <<a>>
      BY <2>1
    <3>2. q = Sequence(IF kind[c] = "close" THEN VoidToSuccess(a) ELSE a)
      BY <3>1 DEF InnerSequence
    <3> QED BY <2>2, <3>2, SequenceOf
  <2>4. InnerSequence(c)' = q
    BY <1>1 DEF InnerSequence
  <2>5. \/ sent[c] = <<>> /\ pending[c] = q
        \/ Len(q) = 2 /\ sent[c] = <<q[1]>> /\ pending[c] = <<q[2]>>
    BY <1>1, <1>5, <2>1 DEF CallInv, Wrapped
  <2>6. \/ Len(q) = 2 /\ sent'[c] = <<q[1]>> /\ pending'[c] = <<q[2]>>
        \/ sent'[c] = q /\ pending'[c] = <<>>
    <3>1. CASE Len(q) = 2 /\ sent[c] = <<q[1]>> /\ pending[c] = <<q[2]>>
      <4>1. q = <<q[1], q[2]>>
        BY <2>3, <3>1
      <4> QED BY <1>1, <3>1, <4>1
    <3>2. CASE sent[c] = <<>> /\ pending[c] = q
      <4>1. CASE q = <<ErrorEvent>>
        BY <1>1, <3>2, <4>1
      <4>2. ASSUME NEW v, q = <<NextEvent(v), CompletedEvent>>
            PROVE  Len(q) = 2 /\ sent'[c] = <<q[1]>> /\ pending'[c] = <<q[2]>>
        BY <1>1, <3>2, <4>2
      <4> QED BY <2>3, <4>1, <4>2
    <3> QED BY <2>5, <3>1, <3>2
  <2>7. ~threw[c]
    BY <1>5 DEF CallInv, Wrapped
  <2> HIDE DEF q
  <2> QED BY <1>1, <2>1, <2>4, <2>6, <2>7 DEF Wrapped
<1>6. ASSUME ~wrapper PROVE Wrapped(c)'
  BY <1>1, <1>6 DEF Wrapped
<1> QED BY <1>3, <1>4, <1>5, <1>6 DEF TypeOK

\* SafeSubscriber: what comes after the end changes nothing.
LEMMA StaysEnded ==
    ASSUME SInv, NEW c \in Calls, NEW type, Deliver(c, type),
           done[c], done'[c], answers'[c] = answers[c]
    PROVE  Open(c)' /\ Ended(c)'
<1>1. PICK n \in 1..Len(sent[c]) :
            /\ \A i \in 1..(n - 1) : sent[c][i].type = "next"
            /\ sent[c][n].type # "next"
            /\ answers[c] = << AnswerAt(sent[c], kind[c], n) >>
  BY DEF SInv, CallInv, Ended
<1>2. /\ Len(sent[c]) \in Nat /\ Len(sent'[c]) = Len(sent[c]) + 1
      /\ \A i \in 1..Len(sent[c]) : sent'[c][i] = sent[c][i]
  BY Delivered, LenProperties
<1>3. n \in 1..Len(sent'[c]) /\ \A i \in 1..n : sent'[c][i] = sent[c][i]
  BY <1>2
<1>4. AnswerAt(sent'[c], kind'[c], n) = AnswerAt(sent[c], kind[c], n)
  <2>1. kind'[c] = kind[c] /\ sent'[c][n] = sent[c][n]
    BY <1>3 DEF Deliver
  <2>2. CASE n = 1
    BY <2>1, <2>2 DEF AnswerAt
  <2>3. CASE n # 1
    <3>1. n - 1 \in 1..n
      BY <2>3
    <3>2. sent'[c][n - 1] = sent[c][n - 1]
      BY <1>3, <3>1
    <3> QED BY <2>1, <3>2 DEF AnswerAt
  <2> QED BY <2>2, <2>3
<1> QED BY <1>1, <1>3, <1>4 DEF Open, Ended

\* The first terminal event ends the call with the answer it calls for.
LEMMA EndsOnce ==
    ASSUME SInv, NEW c \in Calls, NEW type \in {"error", "completed"}, Deliver(c, type),
           ~done[c], done'[c],
           answers'[c] = Append(answers[c], IF type = "error" THEN Args(Null, TRUE)
                                            ELSE Args(result[c], FALSE))
    PROVE  Open(c)' /\ Ended(c)'
<1> DEFINE n == Len(sent[c]) + 1
<1>1. /\ answers[c] = <<>>
      /\ \A i \in 1..Len(sent[c]) : sent[c][i].type = "next"
      /\ result[c] = IF kind[c] = "close" \/ sent[c] = <<>> THEN Null
                     ELSE sent[c][Len(sent[c])].value
  BY DEF SInv, CallInv, Open
<1>2. /\ Len(sent[c]) \in Nat /\ Len(sent'[c]) = n
      /\ \A i \in 1..Len(sent[c]) : sent'[c][i] = sent[c][i]
      /\ sent'[c][n].type = type
      /\ sent[c] = <<>> <=> Len(sent[c]) = 0
  <2> DEFINE e == Head(pending[c])
  <2>1. /\ sent[c] \in Seq(Event) /\ Len(sent'[c]) = Len(sent[c]) + 1
        /\ \A i \in 1..Len(sent[c]) : sent'[c][i] = sent[c][i]
        /\ sent'[c][Len(sent[c]) + 1] = e /\ e.type = type
    BY Delivered
  <2>2. Len(sent[c]) \in Nat
    BY <2>1, LenProperties
  <2>3. sent[c] = <<>> <=> Len(sent[c]) = 0
    BY <2>1, EmptySeq
  <2> QED BY <2>1, <2>2, <2>3
<1>3. n \in 1..Len(sent'[c]) /\ \A i \in 1..(n - 1) : sent'[c][i].type = "next"
  BY <1>1, <1>2
<1>4. kind'[c] = kind[c]
  BY DEF Deliver
<1>5. answers'[c] = << AnswerAt(sent'[c], kind'[c], n) >>
  <2>1. CASE type = "error"
    BY <1>1, <1>2, <2>1 DEF AnswerAt
  <2>2. CASE type = "completed" /\ (kind[c] = "close" \/ n = 1)
    <3>1. result[c] = Null
      BY <1>1, <1>2, <2>2
    <3>2. AnswerAt(sent'[c], kind'[c], n) = Args(Null, FALSE)
      BY <1>2, <1>4, <2>2 DEF AnswerAt
    <3>3. answers'[c] = Append(<<>>, Args(Null, FALSE))
      BY <1>1, <2>2, <3>1
    <3> QED BY <3>2, <3>3, AppendToNone
  <2>3. CASE type = "completed" /\ kind[c] # "close" /\ n # 1
    <3>1. n - 1 = Len(sent[c]) /\ n - 1 \in 1..Len(sent[c]) /\ sent[c] # <<>>
      BY <1>2, <2>3
    <3>2. result[c] = sent'[c][n - 1].value
      BY <1>1, <1>2, <2>3, <3>1
    <3>3. AnswerAt(sent'[c], kind'[c], n) = Args(result[c], FALSE)
      BY <1>2, <1>4, <2>3, <3>2 DEF AnswerAt
    <3>4. answers'[c] = Append(<<>>, Args(result[c], FALSE))
      BY <1>1, <2>3
    <3> QED BY <3>3, <3>4, AppendToNone
  <2> QED BY <2>1, <2>2, <2>3
<1> QED BY <1>2, <1>3, <1>5 DEF Open, Ended

LEMMA SubscriberKeeps ==
    ASSUME SInv, NEW c \in Calls, Subscriber(c)
    PROVE  SInv'
<1> USE DEF SInv
<1> DEFINE e == Head(pending[c])
<1>1. PICK type \in {"next", "error", "completed"} : Deliver(c, type)
  BY DEF Subscriber, OnNext, OnError, OnCompleted
<1>2. UNCHANGED <<wrapper, kind, threw, inner>>
  BY <1>1 DEF Deliver
<1>3. NotMade(c)' /\ EmitsOwnKind(c)' /\ Wrapped(c)'
  BY <1>1, DeliverWrapped
<1>4. ASSUME done' \in [Calls -> BOOLEAN], result' \in [Calls -> Counts \cup {Null}],
             answers' \in [Calls -> Seq(Answer)],
             \A r \in Calls : r # c => /\ done'[r] = done[r] /\ result'[r] = result[r]
                                       /\ answers'[r] = answers[r],
             Open(c)' /\ Ended(c)'
      PROVE  SInv'
  <2>1. /\ sent' \in [Calls -> Seq(Event)] /\ pending' \in [Calls -> Seq(Event)]
        /\ \A r \in Calls : r # c => sent'[r] = sent[r] /\ pending'[r] = pending[r]
    BY <1>1, Delivered
  <2>2. TypeOK'
    BY <1>2, <1>4, <2>1 DEF TypeOK
  <2>3. ASSUME NEW r \in Calls, r # c PROVE CallInv(r)'
    BY <1>2, <1>4, <2>1, <2>3, OthersKept
  <2>4. CallInv(c)'
    BY <1>3, <1>4 DEF CallInv
  <2> QED BY <2>2, <2>3, <2>4
<1>5. CASE OnNext(c)
  <2>1. /\ Deliver(c, "next") /\ UNCHANGED <<done, answers>>
        /\ result' = IF done[c] \/ kind[c] = "close" THEN result
                     ELSE [result EXCEPT ![c] = e.value]
    BY <1>5 DEF OnNext
  <2>2. kind[c] # "close" => e.value \in Counts
    BY <2>1, Delivered DEF Values
  <2>3. result' \in [Calls -> Counts \cup {Null}]
    BY <2>1, <2>2 DEF TypeOK
  <2>4. \A r \in Calls : r # c => result'[r] = result[r]
    BY <2>1 DEF TypeOK
  <2>5. Open(c)' /\ Ended(c)'
    <3>1. CASE done[c]
      BY <2>1, <3>1, StaysEnded
    <3>2. CASE ~done[c]
      <4>1. /\ answers[c] = <<>>
            /\ \A i \in 1..Len(sent[c]) : sent[c][i].type = "next"
            /\ kind[c] = "close" => result[c] = Null
        BY <3>2 DEF CallInv, Open
      <4>2. /\ Len(sent[c]) \in Nat /\ Len(sent'[c]) = Len(sent[c]) + 1
            /\ \A i \in 1..Len(sent[c]) : sent'[c][i] = sent[c][i]
            /\ sent'[c][Len(sent[c]) + 1] = e /\ e.type = "next"
            /\ sent'[c] # <<>>
        BY <2>1, Delivered, LenProperties, EmptySeq
      <4>3. \A i \in 1..Len(sent'[c]) : sent'[c][i].type = "next"
        BY <4>1, <4>2
      <4>4. result'[c] = IF kind[c] = "close" THEN Null ELSE sent'[c][Len(sent'[c])].value
        BY <2>1, <3>2, <4>1, <4>2 DEF TypeOK
      <4> QED BY <1>2, <2>1, <3>2, <4>1, <4>2, <4>3, <4>4 DEF Open, Ended
    <3> QED BY <3>1, <3>2
  <2> QED BY <1>4, <2>1, <2>3, <2>4, <2>5 DEF TypeOK
<1>6. ASSUME NEW t \in {"error", "completed"}, Deliver(c, t),
             done' = [done EXCEPT ![c] = TRUE], UNCHANGED result,
             answers' = IF done[c] THEN answers
                        ELSE [answers EXCEPT ![c] = Append(@,
                                IF t = "error" THEN Args(Null, TRUE)
                                ELSE Args(result[c], FALSE))]
      PROVE  SInv'
  <2> DEFINE a == IF t = "error" THEN Args(Null, TRUE) ELSE Args(result[c], FALSE)
  <2>1. a \in Answer
    BY Constants DEF TypeOK, Results
  <2>2. Append(answers[c], a) \in Seq(Answer)
    BY <2>1, AppendProperties DEF TypeOK
  <2>3. answers' \in [Calls -> Seq(Answer)] /\ done' \in [Calls -> BOOLEAN] /\ done'[c]
    BY <1>6, <2>2 DEF TypeOK
  <2>4. \A r \in Calls : r # c => done'[r] = done[r] /\ answers'[r] = answers[r]
    BY <1>6 DEF TypeOK
  <2>5. Open(c)' /\ Ended(c)'
    <3>1. CASE done[c]
      BY <1>6, <2>3, <3>1, StaysEnded
    <3>2. CASE ~done[c]
      <4>1. answers'[c] = Append(answers[c], a)
        BY <1>6, <3>2 DEF TypeOK
      <4> QED BY <1>6, <2>3, <3>2, <4>1, EndsOnce
    <3> QED BY <3>1, <3>2
  <2> QED BY <1>4, <1>6, <2>3, <2>4, <2>5 DEF TypeOK
<1>7. CASE OnError(c)
  BY <1>6, <1>7 DEF OnError
<1>8. CASE OnCompleted(c)
  BY <1>6, <1>8 DEF OnCompleted
<1> QED BY <1>5, <1>7, <1>8 DEF Subscriber

-----------------------------------------------------------------------------
(***************************************************************************)
(* The invariant, and what follows from it.                                *)
(***************************************************************************)
LEMMA StepSInv == SInv /\ [Next]_vars => SInv'
<1> SUFFICES ASSUME SInv, [Next]_vars PROVE SInv'
  OBVIOUS
<1>1. ASSUME NEW c \in Calls, Read(c) \/ Write(c) \/ Close(c) PROVE SInv'
  BY <1>1, CallKeeps DEF Read, Write, Close
<1>2. ASSUME NEW c \in Calls, InnerAnswers(c) \/ SourceEmits(c) \/ Subscriber(c) PROVE SInv'
  BY <1>2, InnerAnswersKeeps, SourceEmitsKeeps, SubscriberKeeps
<1>3. CASE UNCHANGED vars
  <2>1. TypeOK'
    BY <1>3 DEF SInv, TypeOK, vars
  <2>2. ASSUME NEW c \in Calls PROVE CallInv(c)'
    BY <1>3, OthersKept DEF SInv, vars
  <2> QED BY <2>1, <2>2 DEF SInv
<1> QED BY <1>1, <1>2, <1>3 DEF Next

\* SInv holds of the converted streams of GridFSAsyncStreamHelper.
THEOREM StreamsInvariance == Spec => []SInv
BY InitSInv, StepSInv, PTL DEF Spec

\* The variables keep their types.
THEOREM StreamsTypes == Spec => []TypeOK
<1>1. SInv => TypeOK
  BY DEF SInv
<1> QED BY StreamsInvariance, <1>1, PTL

\* What the invariant says of an answer.
LEMMA AnswersOfCall ==
    ASSUME SInv, NEW c \in Calls
    PROVE  \/ answers[c] = <<>>
           \/ /\ ~threw[c]
              /\ \E n \in 1..Len(sent[c]) :
                    /\ \A i \in 1..(n - 1) : sent[c][i].type = "next"
                    /\ sent[c][n].type # "next"
                    /\ answers[c] = << AnswerAt(sent[c], kind[c], n) >>
<1>1. CASE ~done[c]
  BY <1>1 DEF SInv, CallInv, Open
<1>2. CASE done[c]
  BY <1>2 DEF SInv, CallInv, Ended, NotMade
<1> QED BY <1>1, <1>2 DEF SInv, TypeOK

\* The Subscribers of GridFSAsyncStreamHelper call a callback at most once,
\* and never after the call itself threw.
THEOREM OneAnswer == Spec => []AnsweredAtMostOnce
<1>1. SInv => AnsweredAtMostOnce
  <2> SUFFICES ASSUME SInv, NEW c \in Calls
               PROVE  Len(answers[c]) <= IF threw[c] THEN 0 ELSE 1
    BY DEF AnsweredAtMostOnce
  <2>1. CASE answers[c] = <<>>
    BY <2>1
  <2>2. CASE ~threw[c] /\ \E x : answers[c] = <<x>>
    BY <2>2
  <2> QED BY <2>1, <2>2, AnswersOfCall
<1> QED BY StreamsInvariance, <1>1, PTL

\* ... with what the call's own Observable said up to its end.
THEOREM OwnAnswer == Spec => []AnswerIsOwn
<1>1. SInv => AnswerIsOwn
  <2> SUFFICES ASSUME SInv, NEW c \in Calls, answers[c] # <<>>
               PROVE  \E n \in DOMAIN sent[c] :
                        /\ \A i \in 1..(n - 1) : sent[c][i].type = "next"
                        /\ sent[c][n].type # "next"
                        /\ answers[c] = << AnswerAt(sent[c], kind[c], n) >>
    BY DEF AnswerIsOwn, AnswerAt
  <2>1. DOMAIN sent[c] = 1..Len(sent[c])
    BY LenProperties DEF SInv, TypeOK
  <2> QED BY <2>1, AnswersOfCall
<1> QED BY StreamsInvariance, <1>1, PTL

\* AsyncStreamHelper and GridFSAsyncStreamHelper are inverses: a callback
\* stream that went through both answers what it would have answered itself.
THEOREM ConversionsCancel == Spec => []RoundTrip
<1>1. SInv => RoundTrip
  <2> SUFFICES ASSUME SInv, NEW c \in Calls, wrapper, answers[c] # <<>>
               PROVE  answers[c] = inner[c]
    BY DEF RoundTrip
  <2>1. PICK n \in 1..Len(sent[c]) :
            /\ \A i \in 1..(n - 1) : sent[c][i].type = "next"
            /\ sent[c][n].type # "next"
            /\ answers[c] = << AnswerAt(sent[c], kind[c], n) >>
    BY AnswersOfCall
  <2>2. sent[c] # <<>> /\ inner[c] # <<>>
    <3>1. sent[c] \in Seq(Event)
      BY DEF SInv, TypeOK
    <3>2. sent[c] # <<>>
      BY <2>1, <3>1, EmptySeq
    <3> QED BY <3>2 DEF SInv, CallInv, Wrapped
  <2>3. PICK a \in InnerArgs(kind[c]) : inner[c] = <<a>>
    BY <2>2 DEF SInv, CallInv, Wrapped
  <2>4. kind[c] \in {"read", "write", "close"}
    BY <2>2 DEF SInv, CallInv, NotMade, TypeOK
  <2> DEFINE q == Sequence(IF kind[c] = "close" THEN VoidToSuccess(a) ELSE a)
  <2>5. InnerSequence(c) = q
    BY <2>3 DEF InnerSequence
  <2> HIDE DEF q
  <2>6. sent[c] = q \/ (Len(q) = 2 /\ sent[c] = <<q[1]>>)
    <3>1. Wrapped(c)
      BY DEF SInv, CallInv
    <3> QED BY <2>2, <2>5, <3>1 DEF Wrapped
  <2>7. CASE a = Args(Null, TRUE) /\ q = <<ErrorEvent>>
    <3>1. n = 1 /\ sent[c][n] = ErrorEvent
      BY <2>1, <2>6, <2>7
    <3> QED BY <2>1, <2>3, <2>7, <3>1 DEF AnswerAt, ErrorEvent
  <2>8. ASSUME NEW v \in Values(kind[c]),
               a = Args(IF kind[c] = "close" THEN Null ELSE v, FALSE),
               q = <<NextEvent(v), CompletedEvent>>
        PROVE  answers[c] = inner[c]
    <3>1. n = 2 /\ sent[c][2] = CompletedEvent /\ sent[c][1].value = v
      BY <2>1, <2>6, <2>8 DEF NextEvent, CompletedEvent
    <3>2. sent[c][2].type # "error"
      BY <3>1 DEF CompletedEvent
    <3>3. AnswerAt(sent[c], kind[c], n) = Args(IF kind[c] = "close" THEN Null ELSE v, FALSE)
      <4>1. n - 1 = 1 /\ n # 1 /\ sent[c][n].type # "error"
        BY <3>1, <3>2
      <4> QED BY <3>1, <4>1 DEF AnswerAt
    <3> QED BY <2>1, <2>3, <2>8, <3>3
  <2> QED BY <2>4, <2>7, <2>8, SequenceOf DEF q
<1> QED BY StreamsInvariance, <1>1, PTL
=============================================================================
