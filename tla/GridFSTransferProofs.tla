------------------------ MODULE GridFSTransferProofs ------------------------
(***************************************************************************)
(* Transfers, for every number of subscribers and every size.              *)
(*                                                                         *)
(* A transfer uses the converted streams as CallbackStreams says, so what  *)
(* is proved of them holds of its calls.  Of the call under way one knows  *)
(* more, because the application's stream keeps to its contract: it is     *)
(* still untouched, it is giving one number, or it is failing.  That links *)
(* the loop to the bytes: until the stream has given its number the buffer *)
(* is as the loop left it, afterwards it has moved by that number, and     *)
(* only an answer that is not an error takes the loop on.                  *)
(***************************************************************************)
EXTENDS GridFSTransfer, SequenceTheorems, TLAPS

\* What is proved of the converted streams.
Converted == INSTANCE CallbackStreamsProofs WITH MaxEvents <- 2

-----------------------------------------------------------------------------
\* A call of the converted stream, with the state of its Subscriber.
View(c) == [ wrapped |-> wrapper, kind |-> kind[c], inner |-> inner[c],
             pending |-> pending[c], result |-> result[c], done |-> done[c],
             answers |-> answers[c], sent |-> sent[c] ]

\* Nothing has come of it yet.
Untouched(x) ==
    /\ x.inner = <<>> /\ x.pending = <<>> /\ x.sent = <<>>
    /\ ~x.done /\ x.answers = <<>> /\ x.result = Streams!Null

\* The stream has given v; the Subscriber has not seen it, holds it, or has
\* answered with it.
Giving(x, v) ==
    /\ x.wrapped => x.inner # <<>>
    /\ \/ /\ x.sent = <<>> /\ ~x.done /\ x.answers = <<>>
          /\ x.pending = IF x.wrapped THEN <<Streams!NextEvent(v), Streams!CompletedEvent>>
                                      ELSE <<Streams!NextEvent(v)>>
       \/ /\ x.sent # <<>> /\ ~x.done /\ x.answers = <<>> /\ x.result = v
          /\ x.pending \in {<<>>, <<Streams!CompletedEvent>>, <<Streams!ErrorEvent>>}
       \/ /\ x.sent # <<>> /\ x.done /\ x.pending = <<>>
          /\ x.answers = << Streams!Args(v, FALSE) >>

\* The call will end, or has ended, with an error that comes first.
Failing(x) ==
    /\ x.wrapped => x.inner # <<>>
    /\ \/ /\ x.sent = <<>> /\ ~x.done /\ x.answers = <<>>
          /\ x.pending = << Streams!ErrorEvent >>
       \/ /\ x.sent # <<>> /\ x.done /\ x.pending = <<>>
          /\ x.answers = << Streams!Args(Streams!Null, TRUE) >>

CallOf(s) == View(Current(s))

\* The loop of s, whatever it is for.
LoopInv(s) ==
    /\ failed[s] => loop[s] \in {"abort", "reply", "over"}
    /\ loop[s] = "abort" => failed[s]
    /\ outcome[s] # "none" => loop[s] = "over"
    /\ outcome[s] = "completed" => ~failed[s]
    /\ file[s] => loop[s] \in {"reply", "over"} /\ stored[s] = got[s]
    /\ Len(got[s]) <= Size /\ calls[s] <= Len(got[s]) + 1
    /\ loop[s] \in {"idle", "next"} => calls[s] <= Len(got[s])
    /\ loop[s] = "wait" => calls[s] > 0 /\ kind[Current(s)] \in {"read", "write"}

\* What the source has given to an upload's call: its end, or bytes.
Gave(s, v) ==
    \/ v = Streams!EOF /\ taken = Size /\ buffer[s] = <<>>
    \/ v \in 1..MaxCount /\ buffer[s] # <<>> /\ calls[s] <= Len(got[s])

UploadInv(s) ==
    /\ Len(got[s]) <= taken
    /\ loop[s] \in {"idle", "next", "close"} => got[s] = stored[s]
    /\ loop[s] = "wait" =>
        \/ Untouched(CallOf(s)) /\ buffer[s] = <<>> /\ got[s] = stored[s]
        \/ \E v \in Streams!Counts : /\ Giving(CallOf(s), v) /\ Gave(s, v)
                                     /\ got[s] = stored[s] \o buffer[s]
        \/ Failing(CallOf(s))
    /\ loop[s] = "store" => got[s] = stored[s] \o buffer[s] /\ calls[s] <= Len(got[s])
    /\ loop[s] = "close" => taken = Size
    /\ loop[s] \in {"reply", "over"} /\ ~failed[s] => file[s] /\ taken = Size

DownloadInv(s) ==
    /\ got[s] = SubSeq(Content, 1, Len(got[s]))
    /\ loop[s] \notin {"close", "abort"}
    /\ loop[s] \in {"idle", "next"} => amount[s] = Len(got[s])
    /\ loop[s] \in {"store", "wait"} =>
        /\ amount[s] < Len(got[s]) /\ Len(got[s]) - amount[s] \in 1..MaxCount
        /\ buffer[s] = SubSeq(Content, amount[s] + 1, Len(got[s]))
    /\ loop[s] = "store" => calls[s] < Len(got[s])
    /\ loop[s] = "wait" =>
        /\ calls[s] <= Len(got[s])
        /\ \/ Untouched(CallOf(s))
           \/ Giving(CallOf(s), Len(got[s]) - amount[s])
           \/ Failing(CallOf(s))
    /\ loop[s] \in {"reply", "over"} /\ ~failed[s] => amount[s] = Size

\* What the destination has taken from the loop of s.
WrittenInv(s) ==
    /\ \/ loop[s] \in {"idle", "next", "store"}
       \/ loop[s] = "wait" /\ Untouched(CallOf(s))
       => written[s] = amount[s]
    /\ loop[s] = "wait" /\ Giving(CallOf(s), Len(got[s]) - amount[s]) => written[s] = Len(got[s])
    /\ loop[s] \in {"reply", "over"} /\ ~failed[s] => written[s] = Size

\* While s is alone with the source, or with the destination.
AloneUpload(s) == got[s] = SubSeq(Content, 1, taken)

AloneDownload(s) == target = SubSeq(Content, 1, written[s])

SubInv(s) ==
    /\ LoopInv(s)
    /\ op = "upload" => UploadInv(s) /\ (Alone(s) => AloneUpload(s))
    /\ op = "download" => DownloadInv(s) /\ WrittenInv(s) /\ (Alone(s) => AloneDownload(s))

TInv ==
    /\ TypeOK
    /\ Converted!SInv
    /\ op = "upload" => target = <<>>
    /\ \A s \in Subs : SubInv(s)

-----------------------------------------------------------------------------
(***************************************************************************)
(* The converted stream, one call at a time.                               *)
(***************************************************************************)

\* The two instances of CallbackStreams are the same.
LEMMA SameStreams ==
    /\ Converted!StreamsAssumption
    /\ Streams!Init = Converted!Init
    /\ Streams!vars = Converted!vars
    /\ Streams!TypeOK = Converted!TypeOK
<1>1. Converted!StreamsAssumption
  BY TransferAssumption DEF Converted!StreamsAssumption
<1>2. Streams!Init = Converted!Init
  BY DEF Streams!Init, Converted!Init, Streams!Null, Converted!Null
<1>3. Streams!vars = Converted!vars
  BY DEF Streams!vars, Converted!vars
<1>4. Streams!TypeOK = Converted!TypeOK
  BY DEF Streams!TypeOK, Converted!TypeOK, Streams!Results, Converted!Results, Streams!Answer,
         Converted!Answer, Streams!Event, Converted!Event, Streams!Counts, Converted!Counts,
         Streams!EOF, Converted!EOF, Streams!Null, Converted!Null, Streams!SUCCESS,
         Converted!SUCCESS
<1> QED BY <1>1, <1>2, <1>3, <1>4

LEMMA StreamsTyped == Converted!SInv' => Streams!TypeOK'
BY DEF Converted!SInv, Streams!TypeOK, Converted!TypeOK, Streams!Results, Converted!Results,
       Streams!Answer, Converted!Answer, Streams!Event, Converted!Event, Streams!Counts,
       Converted!Counts, Streams!EOF, Converted!EOF, Streams!Null, Converted!Null,
       Streams!SUCCESS, Converted!SUCCESS

\* What a transfer does with a call is a step of CallbackStreams.
LEMMA SameSteps ==
    ASSUME NEW c \in Calls,
           \/ Streams!Read(c) \/ Streams!Write(c) \/ Streams!InnerAnswers(c)
           \/ Streams!SourceEmits(c) \/ Streams!Subscriber(c)
    PROVE  Streams!Next /\ Converted!Next
<1>1. CASE Streams!Read(c) \/ Streams!Write(c)
  BY <1>1 DEF Streams!Next, Converted!Next, Streams!Read, Converted!Read, Streams!Write,
              Converted!Write, Streams!Call, Converted!Call, Streams!Args, Converted!Args,
              Streams!Null, Converted!Null, Streams!ErrorEvent, Converted!ErrorEvent
<1>2. CASE Streams!InnerAnswers(c)
  BY <1>2 DEF Streams!Next, Converted!Next, Streams!InnerAnswers, Converted!InnerAnswers,
              Streams!Args, Converted!Args, Streams!Null, Converted!Null,
              Streams!VoidToSuccess, Converted!VoidToSuccess, Streams!Sequence,
              Converted!Sequence, Streams!Counts, Converted!Counts, Streams!EOF,
              Converted!EOF, Streams!SUCCESS, Converted!SUCCESS, Streams!NextEvent,
              Converted!NextEvent, Streams!ErrorEvent, Converted!ErrorEvent,
              Streams!CompletedEvent, Converted!CompletedEvent
<1>3. CASE Streams!SourceEmits(c)
  BY <1>3 DEF Streams!Next, Converted!Next, Streams!SourceEmits, Converted!SourceEmits,
              Streams!Values, Converted!Values, Streams!Counts, Converted!Counts,
              Streams!EOF, Converted!EOF, Streams!SUCCESS, Converted!SUCCESS,
              Streams!Null, Converted!Null, Streams!NextEvent,
              Converted!NextEvent, Streams!ErrorEvent, Converted!ErrorEvent,
              Streams!CompletedEvent, Converted!CompletedEvent
<1>4. CASE Streams!Subscriber(c)
  BY <1>4 DEF Streams!Next, Converted!Next, Streams!Subscriber, Converted!Subscriber,
              Streams!OnNext, Converted!OnNext, Streams!OnError, Converted!OnError,
              Streams!OnCompleted, Converted!OnCompleted, Streams!Deliver,
              Converted!Deliver, Streams!Args, Converted!Args, Streams!Null, Converted!Null
<1> QED BY <1>1, <1>2, <1>3, <1>4

\* The three things a call can be are apart.
LEMMA Apart ==
    ASSUME NEW x, NEW v
    PROVE  ~(Untouched(x) /\ Giving(x, v)) /\ ~(Untouched(x) /\ Failing(x))
           /\ ~(Giving(x, v) /\ Failing(x))
BY DEF Untouched, Giving, Failing, Streams!NextEvent, Streams!ErrorEvent,
       Streams!CompletedEvent, Streams!Args

\* The views of the other calls.
Others(c) == \A d \in Calls : d # c => View(d)' = View(d)

\* A call that is made: untouched, or failing already.
LEMMA CallMade ==
    ASSUME Converted!SInv, NEW c \in Calls, NEW k \in {"read", "write"},
           Streams!Call(c, k), UNCHANGED threw
    PROVE  /\ Others(c) /\ View(c)'.kind = k
           /\ Untouched(View(c)') \/ Failing(View(c)')
<1>1. Streams!TypeOK /\ Converted!CallInv(c)
  BY SameStreams DEF Converted!SInv
<1>2. /\ kind[c] = "none" /\ kind' = [kind EXCEPT ![c] = k]
      /\ UNCHANGED <<wrapper, result, done, answers, sent>>
  BY DEF Streams!Call
<1>3. Untouched(View(c)) /\ ~threw[c]
  <2>1. /\ inner[c] = <<>> /\ pending[c] = <<>> /\ sent[c] = <<>>
        /\ ~done[c] /\ ~threw[c]
    BY <1>1, <1>2 DEF Converted!CallInv, Converted!NotMade
  <2>2. answers[c] = <<>> /\ result[c] = Streams!Null
    BY <1>1, <2>1 DEF Converted!CallInv, Converted!Open, Converted!Null, Streams!Null
  <2> QED BY <2>1, <2>2 DEF View, Untouched
<1>4. CASE UNCHANGED <<inner, pending>>
  BY <1>1, <1>2, <1>3, <1>4 DEF Streams!TypeOK, View, Untouched, Others
<1>5. CASE /\ inner' = [inner EXCEPT ![c] = <<Streams!Args(Streams!Null, TRUE)>>]
           /\ pending' = [pending EXCEPT ![c] = <<Streams!ErrorEvent>>]
  <2>1. Others(c)
    BY <1>1, <1>2, <1>5 DEF Streams!TypeOK, View, Others
  <2>2. /\ inner'[c] = <<Streams!Args(Streams!Null, TRUE)>>
        /\ pending'[c] = <<Streams!ErrorEvent>> /\ kind'[c] = k
    BY <1>1, <1>2, <1>5 DEF Streams!TypeOK
  <2>3. Failing(View(c)')
    BY <1>2, <1>3, <2>2 DEF View, Untouched, Failing
  <2> QED BY <2>1, <2>2, <2>3 DEF View
<1>6. threw' # [threw EXCEPT ![c] = TRUE]
  BY <1>1, <1>3 DEF Streams!TypeOK
<1> QED BY <1>4, <1>5, <1>6 DEF Streams!Call

\* What is known of the call under way.
Being(c, v) == Untouched(View(c)) \/ Giving(View(c), v) \/ Failing(View(c))

\* Sequences of one and of two, and their ends.
LEMMA ShortSequences ==
    ASSUME NEW x, NEW y
    PROVE  /\ Head(<<x>>) = x /\ Tail(<<x>>) = <<>> /\ <<x>> # <<>> /\ <<x>>[1] = x
           /\ Head(<<x, y>>) = x /\ Tail(<<x, y>>) = <<y>> /\ <<x, y>> # <<>>
           /\ Append(<<>>, x) = <<x>>
OBVIOUS

\* A call whose stream gives a number: it was untouched.
LEMMA StreamGives ==
    ASSUME Converted!SInv, NEW s \in Subs, NEW c \in Calls, c = Current(s),
           kind[c] \in {"read", "write"}, NEW v, Being(c, v),
           NEW n \in Streams!Counts, Emits(s, n)
    PROVE  /\ Untouched(View(c)) /\ Giving(View(c)', n)
           /\ kind' = kind /\ Others(c) /\ Streams!Next
<1>1. Streams!TypeOK
  BY SameStreams DEF Converted!SInv
<1>2. Streams!Args(n, FALSE).error = FALSE /\ Streams!Args(n, FALSE).result = n
      /\ n # Streams!Null
  BY TransferAssumption DEF Streams!Args, Streams!Counts, Streams!EOF, Streams!Null
<1>3. CASE /\ wrapper /\ Streams!InnerAnswers(c)
           /\ inner'[c] = << Streams!Args(n, FALSE) >>
  <2>1. inner[c] = <<>> /\ UNCHANGED <<wrapper, kind, threw, result, done, answers, sent>>
    BY <1>3 DEF Streams!InnerAnswers
  <2>2. Untouched(View(c))
    BY <1>3, <2>1 DEF Being, Giving, Failing, View
  <2>3. PICK args :
          /\ inner' = [inner EXCEPT ![c] = <<args>>]
          /\ pending' = [pending EXCEPT ![c] =
                Streams!Sequence(IF kind[c] = "close" THEN Streams!VoidToSuccess(args) ELSE args)]
    BY <1>3 DEF Streams!InnerAnswers
  <2>4. args = Streams!Args(n, FALSE)
    BY <1>1, <1>3, <2>3, ShortSequences DEF Streams!TypeOK
  <2>5. pending'[c] = <<Streams!NextEvent(n), Streams!CompletedEvent>>
    BY <1>1, <1>2, <2>3, <2>4 DEF Streams!TypeOK, Streams!Sequence
  <2>6. Giving(View(c)', n)
    BY <1>3, <2>1, <2>2, <2>5, ShortSequences DEF Giving, Untouched, View
  <2>7. Others(c)
    BY <1>1, <2>1, <2>3 DEF Streams!TypeOK, Others, View
  <2> QED BY <1>3, <2>1, <2>2, <2>6, <2>7, SameSteps
<1>4. CASE /\ sent[c] = <<>> /\ Streams!SourceEmits(c)
           /\ pending'[c] = << Streams!NextEvent(n) >>
  <2>1. /\ ~wrapper /\ pending[c] = <<>>
        /\ UNCHANGED <<wrapper, kind, threw, inner, result, done, answers, sent>>
    BY <1>4 DEF Streams!SourceEmits
  <2>2. Untouched(View(c))
    BY <1>4, <2>1, ShortSequences DEF Being, Giving, Failing, View
  <2>3. Giving(View(c)', n)
    BY <1>4, <2>1, <2>2 DEF Giving, Untouched, View
  <2>4. Others(c)
    BY <1>1, <1>4, <2>1 DEF Streams!TypeOK, Streams!SourceEmits, Others, View
  <2> QED BY <1>4, <2>1, <2>2, <2>3, <2>4, SameSteps
<1> QED BY <1>3, <1>4 DEF Emits

\* A call whose stream ends: it fails, unless it was giving a number.
LEMMA StreamEndsCall ==
    ASSUME Converted!SInv, NEW s \in Subs, NEW c \in Calls, c = Current(s),
           kind[c] \in {"read", "write"}, NEW v, Being(c, v), StreamEnds(s)
    PROVE  /\ Untouched(View(c)) => Failing(View(c)')
           /\ Giving(View(c), v) => Giving(View(c)', v)
           /\ Failing(View(c)) => Failing(View(c)')
           /\ kind' = kind /\ Others(c) /\ Streams!Next
<1>1. Streams!TypeOK
  BY SameStreams DEF Converted!SInv
<1>2. CASE wrapper /\ Streams!InnerAnswers(c) /\ inner'[c][1].error
  <2>1. inner[c] = <<>> /\ UNCHANGED <<wrapper, kind, threw, result, done, answers, sent>>
    BY <1>2 DEF Streams!InnerAnswers
  <2>2. ~Giving(View(c), v) /\ ~Failing(View(c))
    BY <1>2, <2>1 DEF Giving, Failing, View
  <2>3. PICK args :
          /\ inner' = [inner EXCEPT ![c] = <<args>>]
          /\ pending' = [pending EXCEPT ![c] =
                Streams!Sequence(IF kind[c] = "close" THEN Streams!VoidToSuccess(args) ELSE args)]
    BY <1>2 DEF Streams!InnerAnswers
  <2>4. inner'[c] = <<args>> /\ args.error
    BY <1>1, <1>2, <2>3, ShortSequences DEF Streams!TypeOK
  <2>5. pending'[c] = <<Streams!ErrorEvent>>
    BY <1>1, <2>3, <2>4 DEF Streams!TypeOK, Streams!Sequence
  <2>6. Untouched(View(c)) => Failing(View(c)')
    BY <2>1, <2>4, <2>5, ShortSequences DEF Failing, Untouched, View
  <2>7. Others(c)
    BY <1>1, <2>1, <2>3 DEF Streams!TypeOK, Others, View
  <2> QED BY <1>2, <2>1, <2>2, <2>6, <2>7, SameSteps
<1>3. ASSUME NEW e, Streams!SourceEmits(c), pending'[c] = <<e>>, ~done[c],
             \/ e = Streams!ErrorEvent
             \/ e = Streams!CompletedEvent /\ Len(sent[c]) = 1
      PROVE  /\ Untouched(View(c)) => Failing(View(c)')
             /\ Giving(View(c), v) => Giving(View(c)', v)
             /\ Failing(View(c)) => Failing(View(c)')
             /\ kind' = kind /\ Others(c) /\ Streams!Next
  <2>1. /\ ~wrapper /\ pending[c] = <<>>
        /\ UNCHANGED <<wrapper, kind, threw, inner, result, done, answers, sent>>
    BY <1>3 DEF Streams!SourceEmits
  <2>2. ~Failing(View(c))
    BY <1>3, <2>1, ShortSequences DEF Failing, View
  <2>3. Untouched(View(c)) => Failing(View(c)')
    BY <1>3, <2>1 DEF Failing, Untouched, View
  <2>4. Giving(View(c), v) => Giving(View(c)', v)
    BY <1>3, <2>1, ShortSequences DEF Giving, View
  <2>5. Others(c)
    BY <1>1, <1>3, <2>1 DEF Streams!TypeOK, Streams!SourceEmits, Others, View
  <2> QED BY <1>3, <2>1, <2>2, <2>3, <2>4, <2>5, SameSteps
<1> QED BY <1>2, <1>3 DEF StreamEnds

\* The call's Subscriber runs: a number that was given may be followed by an
\* error, an error stays one.
LEMMA SubscriberRuns ==
    ASSUME Converted!SInv, NEW c \in Calls, kind[c] \in {"read", "write"}, NEW v,
           Being(c, v), Streams!Subscriber(c)
    PROVE  /\ ~Untouched(View(c))
           /\ Giving(View(c), v) => Giving(View(c)', v) \/ Failing(View(c)')
           /\ Failing(View(c)) => Failing(View(c)')
           /\ kind' = kind /\ Others(c) /\ Streams!Next
<1>1. Streams!TypeOK
  BY SameStreams DEF Converted!SInv
<1>2. PICK type : Streams!Deliver(c, type)
  BY DEF Streams!Subscriber, Streams!OnNext, Streams!OnError, Streams!OnCompleted
<1>3. /\ pending[c] # <<>>
      /\ pending'[c] = Tail(pending[c]) /\ sent'[c] = Append(sent[c], Head(pending[c]))
      /\ UNCHANGED <<wrapper, kind, threw, inner>>
  BY <1>1, <1>2 DEF Streams!Deliver, Streams!TypeOK
<1>4. sent'[c] # <<>>
  <2>1. /\ pending[c] \in Seq(Streams!Event) /\ sent[c] \in Seq(Streams!Event)
    BY <1>1 DEF Streams!TypeOK
  <2>2. Head(pending[c]) \in Streams!Event
    BY <1>3, <2>1, HeadTailProperties
  <2> QED BY <1>3, <2>1, <2>2, AppendProperties
<1>5. ~Untouched(View(c))
  BY <1>3 DEF Untouched, View
<1>6. Others(c)
  BY <1>1, <1>2, <1>3 DEF Streams!TypeOK, Streams!Deliver, Streams!Subscriber,
       Streams!OnNext, Streams!OnError, Streams!OnCompleted, Others, View
<1>7. /\ Head(pending[c]).type = "next" => Streams!OnNext(c)
      /\ Head(pending[c]).type = "error" => Streams!OnError(c)
      /\ Head(pending[c]).type = "completed" => Streams!OnCompleted(c)
  BY DEF Streams!Subscriber, Streams!OnNext, Streams!OnError, Streams!OnCompleted,
         Streams!Deliver
<1>8. ASSUME ~done[c], answers[c] = <<>>, Head(pending[c]) = Streams!ErrorEvent,
             Tail(pending[c]) = <<>>, wrapper => inner[c] # <<>>
      PROVE  Failing(View(c)')
  <2>1. Streams!OnError(c)
    BY <1>7, <1>8 DEF Streams!ErrorEvent
  <2>2. done'[c] /\ answers'[c] = <<Streams!Args(Streams!Null, TRUE)>>
    BY <1>1, <1>8, <2>1, ShortSequences DEF Streams!TypeOK, Streams!OnError
  <2> QED BY <1>3, <1>4, <1>8, <2>2 DEF Failing, View
<1>9. Failing(View(c)) => Failing(View(c)')
  BY <1>3, <1>8, ShortSequences DEF Failing, View
<1>10. ASSUME Giving(View(c), v)
       PROVE  Giving(View(c)', v) \/ Failing(View(c)')
  <2>0. wrapper => inner[c] # <<>>
    BY <1>10 DEF Giving, View
  <2>1. CASE /\ sent[c] = <<>> /\ ~done[c] /\ answers[c] = <<>>
             /\ pending[c] = IF wrapper THEN <<Streams!NextEvent(v), Streams!CompletedEvent>>
                                        ELSE <<Streams!NextEvent(v)>>
    <3>1. /\ Head(pending[c]) = Streams!NextEvent(v)
          /\ Tail(pending[c]) \in {<<>>, <<Streams!CompletedEvent>>}
      BY <2>1, ShortSequences
    <3>2. Streams!OnNext(c)
      BY <1>7, <3>1 DEF Streams!NextEvent
    <3>3. result'[c] = v /\ done'[c] = done[c] /\ answers'[c] = answers[c]
      BY <1>1, <2>1, <3>1, <3>2 DEF Streams!TypeOK, Streams!OnNext, Streams!NextEvent
    <3> QED BY <1>3, <1>4, <2>0, <2>1, <3>1, <3>3 DEF Giving, View
  <2>2. CASE /\ sent[c] # <<>> /\ ~done[c] /\ answers[c] = <<>> /\ result[c] = v
             /\ pending[c] \in {<<>>, <<Streams!CompletedEvent>>, <<Streams!ErrorEvent>>}
    <3>1. CASE pending[c] = <<Streams!CompletedEvent>>
      <4>1. Streams!OnCompleted(c)
        BY <1>7, <3>1, ShortSequences DEF Streams!CompletedEvent
      <4>2. done'[c] /\ answers'[c] = <<Streams!Args(v, FALSE)>>
        BY <1>1, <2>2, <4>1, ShortSequences DEF Streams!TypeOK, Streams!OnCompleted
      <4>3. pending'[c] = <<>>
        BY <1>3, <3>1, ShortSequences
      <4> QED BY <1>3, <1>4, <2>0, <4>2, <4>3 DEF Giving, View
    <3>2. CASE pending[c] = <<Streams!ErrorEvent>>
      BY <1>8, <2>0, <2>2, <3>2, ShortSequences
    <3> QED BY <1>3, <2>2, <3>1, <3>2
  <2> QED BY <1>3, <1>10, <2>1, <2>2 DEF Giving, View
<1> QED BY <1>3, <1>5, <1>6, <1>9, <1>10, SameSteps
-----------------------------------------------------------------------------
(***************************************************************************)
(* Bytes.                                                                  *)
(***************************************************************************)
LEMMA Beginnings ==
    /\ Content \in Seq(1..Size) /\ Len(Content) = Size
    /\ SubSeq(Content, 1, 0) = <<>> /\ SubSeq(Content, 1, Size) = Content
    /\ \A k \in 0..Size, n \in Nat : k + n <= Size =>
        /\ SubSeq(Content, k + 1, k + n) \in Seq(1..Size)
        /\ Len(SubSeq(Content, k + 1, k + n)) = n
        /\ SubSeq(Content, 1, k) \o SubSeq(Content, k + 1, k + n) = SubSeq(Content, 1, k + n)
    /\ \A k \in 0..Size : /\ Len(SubSeq(Content, 1, k)) = k
                          /\ IsPrefix(SubSeq(Content, 1, k), Content)
<1>1. Content \in Seq(1..Size) /\ Len(Content) = Size
  BY TransferAssumption DEF Content
<1>2. SubSeq(Content, 1, 0) = <<>>
  BY SubSeqEmpty
<1>3. SubSeq(Content, 1, Size) = Content
  BY <1>1, SubSeqFull
<1>4. ASSUME NEW k \in 0..Size, NEW n \in Nat, k + n <= Size
      PROVE  /\ SubSeq(Content, k + 1, k + n) \in Seq(1..Size)
             /\ Len(SubSeq(Content, k + 1, k + n)) = n
             /\ SubSeq(Content, 1, k) \o SubSeq(Content, k + 1, k + n) = SubSeq(Content, 1, k + n)
  <2>1. k \in Int /\ k + 1 \in Int /\ k + n \in Int /\ Size \in Nat
    BY <1>4, TransferAssumption
  <2>2. \A i \in (k + 1)..(k + n) : Content[i] \in 1..Size
    BY <1>4, <2>1 DEF Content
  <2>3. /\ SubSeq(Content, k + 1, k + n) \in Seq(1..Size)
        /\ Len(SubSeq(Content, k + 1, k + n))
              = IF k + 1 <= k + n THEN (k + n) - (k + 1) + 1 ELSE 0
    BY <2>1, <2>2, SubSeqProperties
  <2>4. 1 \in 1..(Len(Content) + 1) /\ k \in (1 - 1)..Len(Content)
        /\ k + n \in k..Len(Content)
    BY <1>1, <1>4, <2>1
  <2>5. SubSeq(Content, 1, k) \o SubSeq(Content, k + 1, k + n) = SubSeq(Content, 1, k + n)
    BY <1>1, <2>4, ConcatAdjacentSubSeq
  <2> QED BY <1>4, <2>1, <2>3, <2>5
<1>5. ASSUME NEW k \in 0..Size
      PROVE  /\ Len(SubSeq(Content, 1, k)) = k
             /\ IsPrefix(SubSeq(Content, 1, k), Content)
  <2>1. \A i \in 1..k : Content[i] \in 1..Size
    BY <1>5, TransferAssumption DEF Content
  <2>2. Len(SubSeq(Content, 1, k)) = k
    BY <1>5, <2>1, SubSeqProperties, TransferAssumption
  <2> QED BY <1>1, <1>5, <2>2, TransferAssumption DEF IsPrefix
<1> QED BY <1>1, <1>2, <1>3, <1>4, <1>5

-----------------------------------------------------------------------------
(***************************************************************************)
(* A step of one subscription, seen by the others.                         *)
(***************************************************************************)

\* A transfer takes only steps of CallbackStreams.
LEMMA UsesStreams ==
    ASSUME TInv, [Next]_vars
    PROVE  [Streams!Next]_(Streams!vars) /\ Converted!SInv'
<1>1. CASE UNCHANGED streamVars
  <2>1. UNCHANGED Converted!vars /\ UNCHANGED Streams!vars
    BY <1>1 DEF streamVars, Converted!vars, Streams!vars
  <2> QED BY <2>1, SameStreams, Converted!StepSInv DEF TInv
<1>2. ASSUME NEW c \in Calls,
             \/ Streams!Read(c) \/ Streams!Write(c) \/ Streams!InnerAnswers(c)
             \/ Streams!SourceEmits(c) \/ Streams!Subscriber(c)
      PROVE  [Streams!Next]_(Streams!vars) /\ Converted!SInv'
  BY <1>2, SameSteps, SameStreams, Converted!StepSInv DEF TInv
<1>3. ASSUME NEW s \in Subs, ReadSource(s) \/ WriteDestination(s)
      PROVE  \E c \in Calls : Streams!Read(c) \/ Streams!Write(c)
  <2>1. calls[s] \in Nat /\ got[s] \in Seq(1..Size) /\ Len(got[s]) \in Nat
    BY TransferAssumption DEF TInv, TypeOK
  <2>2. SubInv(s) /\ loop[s] \in {"next", "store"} /\ (loop[s] = "store" => op = "download")
    BY <1>3 DEF TInv, ReadSource, WriteDestination
  <2>3. Len(got[s]) <= Size /\ calls[s] <= Len(got[s])
    BY <2>1, <2>2 DEF SubInv, LoopInv, DownloadInv
  <2>4. calls[s] + 1 \in 1..(Size + 1)
    BY <2>1, <2>3, TransferAssumption
  <2> QED BY <1>3, <2>4 DEF Calls, ReadSource, WriteDestination
<1>4. ASSUME NEW s \in Subs, Stream(s) \/ Callback(s)
      PROVE  \E c \in Calls : Streams!InnerAnswers(c) \/ Streams!SourceEmits(c)
                              \/ Streams!Subscriber(c)
  <2>1. loop[s] = "wait"
    BY <1>4 DEF Stream, SourceReads, DestinationWrites, StreamEnds, Callback
  <2>2. Current(s) \in Calls
    BY <2>1, TransferAssumption DEF TInv, TypeOK, SubInv, LoopInv, Current, Calls
  <2> QED BY <1>4, <2>2 DEF Stream, SourceReads, DestinationWrites, StreamEnds, Callback,
             Emits
<1>5. CASE Next
  BY <1>1, <1>2, <1>3, <1>4, <1>5 DEF Next, Upload, Download, UploadFromStream,
     DownloadToStream, Start, Unsubscribe, UploadContinues, StoreChunk, CloseFile, AbortFile,
     ReadChunk, DownloadContinues, Reply
<1> QED BY <1>1, <1>5 DEF vars

\* What a step leaves of another subscription.
Same(t) ==
    /\ loop'[t] = loop[t] /\ calls'[t] = calls[t] /\ buffer'[t] = buffer[t]
    /\ got'[t] = got[t] /\ stored'[t] = stored[t] /\ file'[t] = file[t]
    /\ amount'[t] = amount[t] /\ failed'[t] = failed[t] /\ outcome'[t] = outcome[t]
    /\ written'[t] = written[t]
    /\ loop[t] = "wait" => CallOf(t)' = CallOf(t)

\* A subscription keeps its invariant through the steps of the others; none
\* is alone with a stream that another one uses.
LEMMA OneMoves ==
    ASSUME TInv, NEW s \in Subs, op' = op, taken <= taken', loop'[s] # "idle",
           \A t \in Subs \ {s} : Same(t),
           TypeOK', Converted!SInv', op = "upload" => target' = <<>>, SubInv(s)'
    PROVE  TInv'
<1>1. ASSUME NEW t \in Subs \ {s}
      PROVE  SubInv(t)'
  <2>1. SubInv(t) /\ Same(t)
    BY <1>1 DEF TInv
  <2>2. ~Alone(t)'
    BY <1>1 DEF Alone
  <2>3. LoopInv(t)'
    <3>1. loop[t] = "wait" => kind'[Current(t)'] = kind[Current(t)]
      BY <2>1 DEF Same, CallOf, View
    <3> QED BY <2>1, <3>1 DEF SubInv, LoopInv, Same
  <2>4. ASSUME op = "upload" PROVE UploadInv(t)'
    <3>1. taken = Size => taken' = Size
      BY TransferAssumption DEF TInv, TypeOK
    <3>2. Len(got[t]) <= taken => Len(got[t]) <= taken'
      BY TransferAssumption DEF TInv, TypeOK
    <3>3. UploadInv(t)
      BY <2>1, <2>4 DEF SubInv
    <3>4. \A v : Gave(t, v) => Gave(t, v)'
      BY <2>1, <3>1 DEF Gave, Same
    <3> QED BY <2>1, <3>1, <3>2, <3>3, <3>4 DEF UploadInv, Same
  <2>5. ASSUME op = "download" PROVE DownloadInv(t)' /\ WrittenInv(t)'
    BY <2>1, <2>5 DEF SubInv, DownloadInv, WrittenInv, Same
  <2> QED BY <2>2, <2>3, <2>4, <2>5 DEF SubInv
<1> QED BY <1>1 DEF TInv
-----------------------------------------------------------------------------
(***************************************************************************)
(* The steps of a subscription.                                            *)
(***************************************************************************)

\* What the types say of one subscription.
LEMMA Typed ==
    ASSUME TInv, NEW s \in Subs
    PROVE  /\ Size \in Nat /\ MaxCount \in Nat /\ loop[s] \in Places
           /\ calls[s] \in Nat /\ taken \in 0..Size /\ amount[s] \in 0..Size
           /\ buffer[s] \in Seq(1..Size) /\ got[s] \in Seq(1..Size)
           /\ stored[s] \in Seq(1..Size) /\ target \in Seq(1..Size)
           /\ Len(buffer[s]) \in Nat /\ Len(got[s]) \in Nat /\ Len(target) \in Nat
           /\ file[s] \in BOOLEAN /\ failed[s] \in BOOLEAN
           /\ SubInv(s) /\ LoopInv(s)
           /\ op \in {"upload", "download"}
           /\ op = "upload" => UploadInv(s)
           /\ op = "download" => DownloadInv(s) /\ WrittenInv(s)
           /\ written[s] \in 0..Size
BY TransferAssumption DEF TInv, TypeOK, SubInv

\* A subscription that waits has a call under way.
LEMMA Waits ==
    ASSUME TInv, NEW s \in Subs, loop[s] = "wait"
    PROVE  /\ Current(s) \in Calls /\ kind[Current(s)] \in {"read", "write"}
           /\ op = "upload" => \E v : Being(Current(s), v)
           /\ op = "download" => Being(Current(s), Len(got[s]) - amount[s])
<1>1. Current(s) \in Calls
  BY TransferAssumption DEF TInv, TypeOK, SubInv, LoopInv, Current, Calls
<1> QED BY <1>1, Typed DEF LoopInv, UploadInv, DownloadInv, Being, CallOf

LEMMA StartKeeps ==
    ASSUME TInv, NEW s \in Subs, Start(s), Converted!SInv' PROVE TInv'
<1>1. TypeOK'
  BY StreamsTyped DEF TInv, TypeOK, Start, Go, Places, dataVars
<1>2. /\ loop[s] = "idle" /\ loop'[s] = "next"
      /\ UNCHANGED <<op, calls, buffer, got, taken, stored, file, target, written, amount,
                     failed, outcome, streamVars>>
      /\ \A t \in Subs \ {s} : loop'[t] = loop[t]
  BY DEF TInv, TypeOK, Start, Go, dataVars
<1>3. \A t \in Subs \ {s} : Same(t)
  BY <1>2 DEF Same, CallOf, Current, View, streamVars
<1>4. LoopInv(s)'
  BY <1>2, Typed DEF LoopInv
<1>5. op = "upload" => UploadInv(s)'
  BY <1>2, Typed DEF UploadInv
<1>6. op = "download" => DownloadInv(s)' /\ WrittenInv(s)'
  BY <1>2, Typed DEF DownloadInv, WrittenInv
<1>7. Alone(s)' = Alone(s)
  BY <1>2 DEF Alone
<1>8. SubInv(s)'
  BY <1>2, <1>4, <1>5, <1>6, <1>7, Typed DEF SubInv, AloneUpload, AloneDownload
<1>9. loop'[s] # "idle" /\ taken <= taken' /\ (op = "upload" => target' = <<>>)
  BY <1>2, Typed DEF TInv
<1> QED BY <1>1, <1>2, <1>3, <1>8, <1>9, OneMoves

LEMMA UnsubscribeKeeps ==
    ASSUME TInv, NEW s \in Subs, Unsubscribe(s), Converted!SInv' PROVE TInv'
<1>1. TypeOK'
  BY StreamsTyped DEF TInv, TypeOK, Unsubscribe, dataVars
<1>2. ASSUME NEW t \in Subs PROVE SubInv(t)'
  <2>1. CallOf(t)' = CallOf(t) /\ Current(t)' = Current(t)
    BY DEF Unsubscribe, streamVars, CallOf, Current, View
  <2>2. LoopInv(t)' = LoopInv(t)
    BY <2>1 DEF Unsubscribe, streamVars, dataVars, LoopInv
  <2>3. UploadInv(t)' = UploadInv(t)
    BY <2>1 DEF Unsubscribe, streamVars, dataVars, UploadInv, Gave
  <2>4. DownloadInv(t)' = DownloadInv(t) /\ WrittenInv(t)' = WrittenInv(t)
    BY <2>1 DEF Unsubscribe, streamVars, dataVars, DownloadInv, WrittenInv
  <2>5. Alone(t)' = Alone(t) /\ AloneUpload(t)' = AloneUpload(t)
        /\ AloneDownload(t)' = AloneDownload(t)
    BY <2>1 DEF Unsubscribe, dataVars, Alone, AloneUpload, AloneDownload
  <2> QED BY <2>2, <2>3, <2>4, <2>5 DEF TInv, SubInv, Unsubscribe
<1> QED BY <1>1, <1>2 DEF TInv, Unsubscribe, dataVars

LEMMA StreamEndsKeeps ==
    ASSUME TInv, NEW s \in Subs, StreamEnds(s) \/ Callback(s), Converted!SInv' PROVE TInv'
<1> DEFINE c == Current(s)
<1>1. /\ loop[s] = "wait"
      /\ UNCHANGED <<op, loop, calls, buffer, got, taken, stored, file, target, written, amount,
                     failed, unsubscribed, outcome>>
  BY DEF StreamEnds, Callback, dataVars
<1>2. TypeOK'
  BY <1>1, StreamsTyped DEF TInv, TypeOK
<1>3. c \in Calls /\ kind[c] \in {"read", "write"} /\ Converted!SInv
  BY <1>1, Waits DEF TInv
<1>4. ASSUME NEW v, Being(c, v)
      PROVE  /\ Untouched(CallOf(s)) => Failing(CallOf(s)')
             /\ Giving(CallOf(s), v) => Giving(CallOf(s)', v) \/ Failing(CallOf(s)')
             /\ Failing(CallOf(s)) => Failing(CallOf(s)')
             /\ kind' = kind /\ Others(c)
  <2>1. ASSUME NEW d \in Calls, d = c
        PROVE  CallOf(s) = View(d) /\ CallOf(s)' = View(d)'
    BY <1>1, <2>1 DEF CallOf, Current, View
  <2>2. ASSUME NEW d \in Calls, d = c
        PROVE  /\ Untouched(View(d)) => Failing(View(d)')
               /\ Giving(View(d), v) => Giving(View(d)', v) \/ Failing(View(d)')
               /\ Failing(View(d)) => Failing(View(d)')
               /\ kind' = kind /\ Others(d)
    BY <1>3, <1>4, <2>2, StreamEndsCall, SubscriberRuns DEF Callback
  <2> QED BY <1>3, <2>1, <2>2
<1>5. PICK v : Being(c, v)
  BY <1>1, Waits, Typed
<1>6. kind' = kind /\ Others(c)
  BY <1>4, <1>5
<1>7. \A t \in Subs \ {s} : Same(t)
  <2>1. ASSUME NEW t \in Subs \ {s}, loop[t] = "wait" PROVE CallOf(t)' = CallOf(t)
    <3>1. Current(t) \in Calls /\ Current(t) # c
      BY <2>1, Waits DEF Current
    <3> QED BY <1>1, <1>6, <3>1 DEF Others, CallOf, Current, View
  <2> QED BY <1>1, <2>1 DEF Same
<1>8. LoopInv(s)'
  BY <1>1, <1>3, <1>6, Typed DEF LoopInv, Current
<1>9. ASSUME op = "upload" PROVE UploadInv(s)'
  <2>1. CASE Untouched(CallOf(s)) \/ Failing(CallOf(s))
    <3>1. Failing(CallOf(s)')
      BY <1>4, <1>5, <2>1
    <3> QED BY <1>1, <1>9, <3>1, Typed DEF UploadInv
  <2>2. ASSUME NEW w \in Streams!Counts, Giving(CallOf(s), w), Gave(s, w),
               got[s] = stored[s] \o buffer[s]
        PROVE  UploadInv(s)'
    <3>1. Giving(CallOf(s)', w) \/ Failing(CallOf(s)')
      BY <1>4, <2>2 DEF Being, CallOf
    <3>2. Gave(s, w)'
      BY <1>1, <2>2 DEF Gave
    <3>3. Giving(CallOf(s)', w) => \E x \in Streams!Counts : 
              Giving(CallOf(s)', x) /\ Gave(s, x)' /\ got'[s] = stored'[s] \o buffer'[s]
      BY <1>1, <2>2, <3>2
    <3> QED BY <1>1, <1>9, <3>1, <3>3, Typed DEF UploadInv, Streams!Counts
  <2> QED BY <1>1, <1>9, <2>1, <2>2, Typed DEF UploadInv
<1>10. ASSUME op = "download"
       PROVE  DownloadInv(s)' /\ WrittenInv(s)'
  <2>1. Being(c, Len(got[s]) - amount[s])
    BY <1>1, <1>10, Waits
  <2>2. Giving(CallOf(s)', Len(got[s]) - amount[s]) \/ Failing(CallOf(s)')
    BY <1>4, <2>1 DEF Being, CallOf
  <2>3. DownloadInv(s)'
    BY <1>1, <1>10, <2>2, Typed DEF DownloadInv
  <2>4. Giving(CallOf(s)', Len(got[s]) - amount[s]) => Giving(CallOf(s), Len(got[s]) - amount[s])
    BY <1>4, <2>1, Apart DEF Being, CallOf
  <2>5. ~Untouched(CallOf(s)')
    BY <2>2, Apart
  <2> QED BY <1>1, <1>10, <2>3, <2>4, <2>5, Typed DEF WrittenInv
<1>11. Alone(s)' = Alone(s) /\ AloneDownload(s)' = AloneDownload(s)
  BY <1>1 DEF Alone, AloneDownload
<1>12. SubInv(s)'
  BY <1>1, <1>8, <1>9, <1>10, <1>11, Typed DEF SubInv, AloneUpload
<1>13. loop'[s] # "idle" /\ taken <= taken' /\ (op = "upload" => target' = <<>>)
  BY <1>1, Typed DEF TInv
<1> QED BY <1>1, <1>2, <1>7, <1>12, <1>13, OneMoves

\* The others do not notice what becomes of a call of s.
LEMMA NotNoticed ==
    ASSUME TInv, NEW s \in Subs, NEW c \in Calls, c[1] = s, Others(c),
           NEW t \in Subs \ {s}, loop[t] = "wait", calls'[t] = calls[t]
    PROVE  CallOf(t)' = CallOf(t)
<1>1. Current(t) \in Calls /\ Current(t) # c
  BY Waits DEF Current
<1>2. Current(t)' = Current(t)
  BY DEF Current
<1> QED BY <1>1, <1>2 DEF Others, CallOf, View

\* What the application's stream does with the call of s, when it gives n.
LEMMA Given ==
    ASSUME TInv, NEW s \in Subs, loop[s] = "wait", NEW n \in Streams!Counts, Emits(s, n),
           UNCHANGED <<loop, calls>>
    PROVE  /\ Untouched(CallOf(s)) /\ Giving(CallOf(s)', n) /\ kind' = kind
           /\ \A t \in Subs \ {s} : loop[t] = "wait" => CallOf(t)' = CallOf(t)
<1>1. PICK v : Being(Current(s), v)
  BY Waits, Typed
<1>2. ASSUME NEW c \in Calls, c = Current(s)
      PROVE  /\ Untouched(View(c)) /\ Giving(View(c)', n) /\ kind' = kind /\ Others(c)
  BY <1>1, <1>2, Waits, StreamGives DEF TInv
<1>3. ASSUME NEW c \in Calls, c = Current(s)
      PROVE  CallOf(s) = View(c) /\ CallOf(s)' = View(c)' /\ c[1] = s
  BY <1>3 DEF CallOf, Current, View
<1>4. Current(s) \in Calls
  BY Waits
<1> QED BY <1>2, <1>3, <1>4, NotNoticed

LEMMA SourceReadsKeeps ==
    ASSUME TInv, NEW s \in Subs, SourceReads(s), Converted!SInv' PROVE TInv'
<1>1. /\ op = "upload" /\ loop[s] = "wait"
      /\ UNCHANGED <<op, loop, calls, stored, file, target, written, amount, failed,
                     unsubscribed, outcome>>
  BY DEF SourceReads
<1>2. LoopInv(s) /\ UploadInv(s)
  BY <1>1, Typed
<1>3. ASSUME NEW n \in Streams!Counts, Emits(s, n), taken' \in 0..Size, taken <= taken',
             buffer' = [buffer EXCEPT ![s] = buffer'[s]], buffer'[s] \in Seq(1..Size),
             got' = [got EXCEPT ![s] = got'[s]], got'[s] \in Seq(1..Size),
             Len(got'[s]) <= taken', Len(got[s]) <= Len(got'[s]),
             Untouched(CallOf(s)) => /\ got'[s] = stored[s] \o buffer'[s] /\ Gave(s, n)',
             AloneUpload(s) => AloneUpload(s)'
      PROVE  TInv'
  <2>1. /\ Untouched(CallOf(s)) /\ Giving(CallOf(s)', n) /\ kind' = kind
        /\ \A t \in Subs \ {s} : loop[t] = "wait" => CallOf(t)' = CallOf(t)
    BY <1>1, <1>3, Given
  <2>2. TypeOK'
    BY <1>1, <1>3, StreamsTyped DEF TInv, TypeOK
  <2>3. \A t \in Subs \ {s} : Same(t)
    BY <1>1, <1>3, <2>1 DEF Same, TInv, TypeOK
  <2>4. Len(got'[s]) <= Size /\ calls[s] <= Len(got'[s]) + 1
    <3>1. Len(got'[s]) \in Nat
      BY <1>3
    <3>2. calls[s] <= Len(got[s]) + 1
      BY <1>2 DEF LoopInv
    <3> QED BY <1>3, <3>1, <3>2, Typed
  <2>5. LoopInv(s)'
    <3>1. Current(s)' = Current(s)
      BY <1>1 DEF Current
    <3> QED BY <1>1, <1>2, <2>1, <2>4, <3>1 DEF LoopInv
  <2>6. UploadInv(s)'
    BY <1>1, <1>3, <2>1 DEF UploadInv
  <2>7. Alone(s)' = Alone(s)
    BY <1>1 DEF Alone
  <2>8. SubInv(s)'
    BY <1>1, <1>3, <2>5, <2>6, <2>7, Typed DEF SubInv
  <2>9. loop'[s] # "idle" /\ (op = "upload" => target' = <<>>)
    BY <1>1 DEF TInv
  <2> QED BY <1>1, <1>3, <2>2, <2>3, <2>8, <2>9, OneMoves
<1>4. CASE taken = Size
  <2>1. Emits(s, Streams!EOF) /\ UNCHANGED <<buffer, got, taken>>
    BY <1>4 DEF SourceReads
  <2>2. Streams!EOF \in Streams!Counts
    BY TransferAssumption DEF Streams!EOF, Streams!Counts
  <2>3. /\ buffer' = [buffer EXCEPT ![s] = buffer'[s]] /\ got' = [got EXCEPT ![s] = got'[s]]
    BY <2>1 DEF TInv, TypeOK
  <2>4. Len(got'[s]) <= taken'
    BY <2>1, <1>2 DEF UploadInv
  <2>5. ASSUME Untouched(CallOf(s))
        PROVE  got'[s] = stored[s] \o buffer'[s] /\ Gave(s, Streams!EOF)'
    <3>1. buffer[s] = <<>> /\ got[s] = stored[s]
      BY <1>1, <1>2, <2>5, Apart DEF UploadInv
    <3>2. stored[s] \o <<>> = stored[s]
      BY Typed, ConcatEmptySeq
    <3> QED BY <1>4, <2>1, <3>1, <3>2 DEF Gave
  <2>6. AloneUpload(s) => AloneUpload(s)'
    BY <2>1 DEF AloneUpload
  <2>7. taken' \in 0..Size /\ taken <= taken' /\ buffer'[s] \in Seq(1..Size)
        /\ got'[s] \in Seq(1..Size) /\ Len(got[s]) <= Len(got'[s])
    BY <2>1, Typed
  <2> QED BY <1>3, <2>1, <2>2, <2>3, <2>4, <2>5, <2>6, <2>7
<1>5. CASE taken # Size
  <2> DEFINE bytes(n) == SubSeq(Content, taken + 1, taken + n)
  <2>1. PICK n \in 1..MaxCount :
            /\ taken + n <= Size /\ Emits(s, n) /\ taken' = taken + n
            /\ buffer' = [buffer EXCEPT ![s] = bytes(n)]
            /\ got' = [got EXCEPT ![s] = @ \o bytes(n)]
    BY <1>5 DEF SourceReads
  <2>2. n \in Streams!Counts /\ n \in Nat /\ n > 0
    BY Typed DEF Streams!EOF, Streams!Counts
  <2>3. buffer'[s] = bytes(n) /\ got'[s] = got[s] \o bytes(n)
    BY <2>1 DEF TInv, TypeOK
  <2>4. bytes(n) \in Seq(1..Size) /\ Len(bytes(n)) = n
        /\ SubSeq(Content, 1, taken) \o bytes(n) = SubSeq(Content, 1, taken + n)
    BY <2>1, <2>2, Typed, Beginnings
  <2> HIDE DEF bytes
  <2>5. got'[s] \in Seq(1..Size) /\ Len(got'[s]) = Len(got[s]) + n
    <3>1. got[s] \in Seq(1..Size)
      BY Typed
    <3>2. /\ got[s] \o bytes(n) \in Seq(1..Size)
          /\ Len(got[s] \o bytes(n)) = Len(got[s]) + Len(bytes(n))
      BY <2>4, <3>1, ConcatProperties
    <3> QED BY <2>3, <2>4, <3>2
  <2>6. Len(got'[s]) <= taken' /\ Len(got[s]) <= Len(got'[s]) /\ taken <= taken'
        /\ taken' \in 0..Size /\ calls[s] <= Len(got'[s])
    <3>1. Len(got[s]) <= taken /\ calls[s] <= Len(got[s]) + 1
      BY <1>1, <1>2 DEF UploadInv, LoopInv
    <3>2. Size \in Nat /\ taken \in 0..Size /\ Len(got[s]) \in Nat /\ calls[s] \in Nat
      BY Typed
    <3> QED BY <2>1, <2>2, <2>5, <3>1, <3>2
  <2>7. ASSUME Untouched(CallOf(s))
        PROVE  got'[s] = stored[s] \o buffer'[s] /\ Gave(s, n)'
    <3>1. got[s] = stored[s]
      BY <1>1, <1>2, <2>7, Apart DEF UploadInv
    <3>2. buffer'[s] # <<>>
      BY <2>2, <2>3, <2>4
    <3>3. calls'[s] <= Len(got'[s])
      BY <1>1, <2>6
    <3> QED BY <2>1, <2>3, <3>1, <3>2, <3>3 DEF Gave
  <2>8. AloneUpload(s) => AloneUpload(s)'
    BY <2>1, <2>3, <2>4 DEF AloneUpload
  <2>9. /\ buffer' = [buffer EXCEPT ![s] = buffer'[s]] /\ buffer'[s] \in Seq(1..Size)
        /\ got' = [got EXCEPT ![s] = got'[s]]
    BY <2>1, <2>3, <2>4 DEF TInv, TypeOK
  <2> QED BY <1>3, <2>1, <2>2, <2>5, <2>6, <2>7, <2>8, <2>9
<1> QED BY <1>4, <1>5

LEMMA DestinationWritesKeeps ==
    ASSUME TInv, NEW s \in Subs, DestinationWrites(s), Converted!SInv' PROVE TInv'
<1>1. /\ op = "download" /\ loop[s] = "wait" /\ Emits(s, Len(buffer[s]))
      /\ target' = target \o buffer[s]
      /\ written' = [written EXCEPT ![s] = @ + Len(buffer[s])]
      /\ UNCHANGED <<op, loop, calls, buffer, got, taken, stored, file, amount, failed,
                     unsubscribed, outcome>>
  BY DEF DestinationWrites
<1>2. LoopInv(s) /\ DownloadInv(s)
  BY <1>1, Typed
<1>3. /\ amount[s] < Len(got[s]) /\ Len(got[s]) <= Size
      /\ Len(got[s]) - amount[s] \in 1..MaxCount
      /\ buffer[s] = SubSeq(Content, amount[s] + 1, Len(got[s]))
  BY <1>1, <1>2 DEF DownloadInv, LoopInv
<1>4. /\ Len(buffer[s]) = Len(got[s]) - amount[s]
      /\ SubSeq(Content, 1, amount[s]) \o buffer[s] = SubSeq(Content, 1, Len(got[s]))
  <2>1. PICK n \in Nat : n = Len(got[s]) - amount[s] /\ amount[s] + n = Len(got[s])
    BY <1>3, Typed
  <2>2. amount[s] \in 0..Size /\ amount[s] + n <= Size
    BY <1>3, <2>1, Typed
  <2>3. /\ Len(SubSeq(Content, amount[s] + 1, amount[s] + n)) = n
        /\ SubSeq(Content, 1, amount[s]) \o SubSeq(Content, amount[s] + 1, amount[s] + n)
              = SubSeq(Content, 1, amount[s] + n)
    BY <2>2, Beginnings
  <2> QED BY <1>3, <2>1, <2>3
<1>5. Len(buffer[s]) \in Streams!Counts
  BY <1>3, <1>4, Typed DEF Streams!Counts, Streams!EOF
<1>6. /\ Untouched(CallOf(s)) /\ Giving(CallOf(s)', Len(buffer[s])) /\ kind' = kind
      /\ \A t \in Subs \ {s} : loop[t] = "wait" => CallOf(t)' = CallOf(t)
  BY <1>1, <1>5, Given
<1>7. target' \in Seq(1..Size)
  BY <1>1, Typed, ConcatProperties
<1>w. /\ written[s] = amount[s] /\ written'[s] = Len(got[s])
      /\ written' = [written EXCEPT ![s] = written'[s]]
  <2>1. written[s] = amount[s]
    BY <1>1, <1>6, Typed DEF WrittenInv
  <2>2. amount[s] + Len(buffer[s]) = Len(got[s])
    BY <1>4, Typed
  <2> QED BY <1>1, <2>1, <2>2 DEF TInv, TypeOK
<1>8. TypeOK'
  <2>1. written'[s] \in 0..Size
    BY <1>3, <1>w, Typed
  <2> QED BY <1>1, <1>7, <1>w, <2>1, StreamsTyped DEF TInv, TypeOK
<1>9. \A t \in Subs \ {s} : Same(t)
  BY <1>1, <1>6 DEF Same, TInv, TypeOK
<1>10. LoopInv(s)'
  BY <1>1, <1>2, <1>6 DEF LoopInv, Current
<1>11. DownloadInv(s)' /\ WrittenInv(s)'
  <2>1. DownloadInv(s)'
    BY <1>1, <1>2, <1>4, <1>6 DEF DownloadInv
  <2>2. ~Untouched(CallOf(s)')
    BY <1>6, Apart
  <2> QED BY <1>1, <1>w, <2>1, <2>2 DEF WrittenInv
<1>12. Alone(s)' = Alone(s)
  BY <1>1 DEF Alone
<1>13. AloneDownload(s) => AloneDownload(s)'
  BY <1>1, <1>4, <1>w DEF AloneDownload
<1>14. SubInv(s)'
  BY <1>1, <1>10, <1>11, <1>12, <1>13, Typed DEF SubInv
<1>15. loop'[s] # "idle" /\ taken <= taken' /\ (op = "upload" => target' = <<>>)
  BY <1>1, Typed
<1> QED BY <1>1, <1>8, <1>9, <1>14, <1>15, OneMoves

\* What a loop finds in the call it has made.
LEMMA Made ==
    ASSUME TInv, NEW s \in Subs, calls[s] <= Len(got[s]), NEW k \in {"read", "write"},
           Streams!Call(<<s, calls[s] + 1>>, k), MakeCall(s)
    PROVE  /\ Untouched(CallOf(s)') \/ Failing(CallOf(s)')
           /\ kind'[Current(s)'] = k /\ loop'[s] = "wait" /\ calls'[s] = calls[s] + 1
           /\ calls' \in [Subs -> 0..(Size + 1)] /\ loop' \in [Subs -> Places]
           /\ UNCHANGED failed
           /\ \A t \in Subs \ {s} : /\ loop'[t] = loop[t] /\ calls'[t] = calls[t]
                                    /\ loop[t] = "wait" => CallOf(t)' = CallOf(t)
<1>1. /\ loop'[s] = "wait" /\ calls'[s] = calls[s] + 1 /\ UNCHANGED failed
      /\ \A t \in Subs \ {s} : loop'[t] = loop[t] /\ calls'[t] = calls[t]
  BY DEF MakeCall, Go, TInv, TypeOK
<1>2. calls[s] + 1 \in 1..(Size + 1)
  <2>1. Len(got[s]) <= Size
    BY Typed DEF LoopInv
  <2> QED BY <2>1, Typed
<1>3. calls' \in [Subs -> 0..(Size + 1)] /\ loop' \in [Subs -> Places]
  BY <1>2, Typed DEF MakeCall, Go, TInv, TypeOK, Places
<1>4. ASSUME NEW c \in Calls, c = <<s, calls[s] + 1>>
      PROVE  /\ Untouched(View(c)') \/ Failing(View(c)')
             /\ kind'[c] = k /\ Others(c) /\ c[1] = s
             /\ Current(s)' = c /\ CallOf(s)' = View(c)'
  <2>1. UNCHANGED threw
    BY DEF MakeCall
  <2>2. /\ Untouched(View(c)') \/ Failing(View(c)')
        /\ View(c)'.kind = k /\ Others(c)
    BY <1>4, <2>1, CallMade DEF TInv
  <2> QED BY <1>1, <1>4, <2>2 DEF Current, CallOf, View
<1>5. <<s, calls[s] + 1>> \in Calls
  BY <1>2 DEF Calls
<1> QED BY <1>1, <1>3, <1>4, <1>5, NotNoticed

LEMMA ReadSourceKeeps ==
    ASSUME TInv, NEW s \in Subs, ReadSource(s), Converted!SInv' PROVE TInv'
<1>1. /\ op = "upload" /\ loop[s] = "next" /\ MakeCall(s)
      /\ Streams!Call(<<s, calls[s] + 1>>, "read")
      /\ buffer' = [buffer EXCEPT ![s] = <<>>]
      /\ UNCHANGED <<op, got, taken, stored, file, target, written, amount, unsubscribed,
                     outcome>>
  BY DEF ReadSource, Streams!Read
<1>2. LoopInv(s) /\ UploadInv(s)
  BY <1>1, Typed
<1>3. calls[s] <= Len(got[s])
  BY <1>1, <1>2 DEF LoopInv
<1>4. /\ Untouched(CallOf(s)') \/ Failing(CallOf(s)')
      /\ kind'[Current(s)'] = "read" /\ loop'[s] = "wait" /\ calls'[s] = calls[s] + 1
      /\ calls' \in [Subs -> 0..(Size + 1)] /\ loop' \in [Subs -> Places]
      /\ UNCHANGED failed
      /\ \A t \in Subs \ {s} : /\ loop'[t] = loop[t] /\ calls'[t] = calls[t]
                               /\ loop[t] = "wait" => CallOf(t)' = CallOf(t)
  BY <1>1, <1>3, Made
<1>5. TypeOK'
  BY <1>1, <1>4, StreamsTyped DEF TInv, TypeOK
<1>6. \A t \in Subs \ {s} : Same(t)
  BY <1>1, <1>4 DEF Same, TInv, TypeOK
<1>7. LoopInv(s)'
  BY <1>1, <1>2, <1>3, <1>4, Typed DEF LoopInv
<1>8. UploadInv(s)'
  <2>1. buffer'[s] = <<>>
    BY <1>1 DEF TInv, TypeOK
  <2> QED BY <1>1, <1>2, <1>4, <2>1 DEF UploadInv
<1>9. Alone(s)' = Alone(s)
  BY <1>4 DEF Alone
<1>10. SubInv(s)'
  BY <1>1, <1>7, <1>8, <1>9, Typed DEF SubInv, AloneUpload
<1>11. loop'[s] # "idle" /\ taken <= taken' /\ (op = "upload" => target' = <<>>)
  BY <1>1, <1>4, Typed DEF TInv
<1> QED BY <1>1, <1>5, <1>6, <1>10, <1>11, OneMoves

LEMMA WriteDestinationKeeps ==
    ASSUME TInv, NEW s \in Subs, WriteDestination(s), Converted!SInv' PROVE TInv'
<1>1. /\ op = "download" /\ loop[s] = "store" /\ MakeCall(s)
      /\ Streams!Call(<<s, calls[s] + 1>>, "write")
      /\ UNCHANGED <<op, buffer, got, taken, stored, file, target, written, amount,
                     unsubscribed, outcome>>
  BY DEF WriteDestination, Streams!Write, dataVars
<1>2. LoopInv(s) /\ DownloadInv(s)
  BY <1>1, Typed
<1>3. calls[s] < Len(got[s])
  BY <1>1, <1>2 DEF DownloadInv
<1>4. /\ Untouched(CallOf(s)') \/ Failing(CallOf(s)')
      /\ kind'[Current(s)'] = "write" /\ loop'[s] = "wait" /\ calls'[s] = calls[s] + 1
      /\ calls' \in [Subs -> 0..(Size + 1)] /\ loop' \in [Subs -> Places]
      /\ UNCHANGED failed
      /\ \A t \in Subs \ {s} : /\ loop'[t] = loop[t] /\ calls'[t] = calls[t]
                               /\ loop[t] = "wait" => CallOf(t)' = CallOf(t)
  <2>1. calls[s] <= Len(got[s])
    BY <1>3, Typed
  <2> QED BY <1>1, <2>1, Made
<1>5. TypeOK'
  BY <1>1, <1>4, StreamsTyped DEF TInv, TypeOK
<1>6. \A t \in Subs \ {s} : Same(t)
  BY <1>1, <1>4 DEF Same
<1>7. LoopInv(s)'
  <2>1. /\ calls'[s] > 0 /\ calls'[s] <= Len(got[s]) + 1 /\ outcome[s] = "none"
        /\ ~failed[s] /\ ~file[s]
    <3>1. calls[s] \in Nat /\ Len(got[s]) \in Nat /\ failed[s] \in BOOLEAN /\ file[s] \in BOOLEAN
      BY Typed
    <3>2. calls'[s] > 0 /\ calls'[s] <= Len(got[s]) + 1
      BY <1>3, <1>4, <3>1
    <3>3. outcome[s] = "none" /\ ~failed[s] /\ ~file[s]
      BY <1>1, <1>2, <3>1 DEF LoopInv
    <3> QED BY <3>2, <3>3
  <2> QED BY <1>1, <1>2, <1>4, <2>1 DEF LoopInv
<1>8. DownloadInv(s)'
  <2>1. calls'[s] <= Len(got[s])
    BY <1>3, <1>4, Typed
  <2> QED BY <1>1, <1>2, <1>4, <2>1 DEF DownloadInv
<1>9. Alone(s)' = Alone(s)
  BY <1>4 DEF Alone
<1>10. WrittenInv(s)' /\ AloneDownload(s)' = AloneDownload(s)
  <2>1. ~Giving(CallOf(s)', Len(got[s]) - amount[s])
    BY <1>4, Apart
  <2>2. written[s] = amount[s]
    BY <1>1, Typed DEF WrittenInv
  <2> QED BY <1>1, <1>4, <2>1, <2>2 DEF WrittenInv, AloneDownload
<1>11. SubInv(s)'
  BY <1>1, <1>7, <1>8, <1>9, <1>10, Typed DEF SubInv
<1>12. loop'[s] # "idle" /\ taken <= taken' /\ (op = "upload" => target' = <<>>)
  BY <1>1, <1>4, Typed DEF TInv
<1> QED BY <1>1, <1>5, <1>6, <1>11, <1>12, OneMoves

\* What the answer of a call says of it.
LEMMA Answered ==
    ASSUME TInv, NEW s \in Subs, loop[s] = "wait", answers[Current(s)] # <<>>
    PROVE  /\ ~Untouched(CallOf(s))
           /\ Failing(CallOf(s)) => Answer(s).error = TRUE
           /\ \A v : Giving(CallOf(s), v) => Answer(s).error = FALSE /\ Answer(s).result = v
<1>1. CallOf(s).answers = answers[Current(s)]
  BY DEF CallOf, View
<1>2. \A x : <<x>>[1] = x
  OBVIOUS
<1>3. ~Untouched(CallOf(s))
  BY <1>1 DEF Untouched
<1>4. Failing(CallOf(s)) => answers[Current(s)] = << Streams!Args(Streams!Null, TRUE) >>
  BY <1>1 DEF Failing
<1>5. \A v : Giving(CallOf(s), v) => answers[Current(s)] = << Streams!Args(v, FALSE) >>
  BY <1>1 DEF Giving
<1>6. Failing(CallOf(s)) => Answer(s).error = TRUE
  BY <1>2, <1>4 DEF Answer, Streams!Args
<1>7. ASSUME NEW v, Giving(CallOf(s), v)
      PROVE  Answer(s).error = FALSE /\ Answer(s).result = v
  <2>1. Answer(s) = Streams!Args(v, FALSE)
    BY <1>2, <1>5, <1>7 DEF Answer
  <2> QED BY <2>1 DEF Streams!Args
<1> QED BY <1>3, <1>6, <1>7

\* Nothing happens to the calls while a loop goes on.
LEMMA CallsRest ==
    ASSUME UNCHANGED <<streamVars, calls>>, NEW t \in Subs
    PROVE  CallOf(t)' = CallOf(t) /\ Current(t)' = Current(t)
BY DEF streamVars, CallOf, Current, View

LEMMA UploadContinuesKeeps ==
    ASSUME TInv, NEW s \in Subs, UploadContinues(s), Converted!SInv' PROVE TInv'
<1>1. /\ op = "upload" /\ loop[s] = "wait" /\ answers[Current(s)] # <<>>
      /\ UNCHANGED <<streamVars, op, calls, buffer, got, taken, stored, file, target,
                     written, amount, unsubscribed, outcome>>
  BY DEF UploadContinues, dataVars
<1>2. LoopInv(s) /\ UploadInv(s)
  BY <1>1, Typed
<1>3. ASSUME NEW place \in Places, loop' = [loop EXCEPT ![s] = place],
             failed' = [failed EXCEPT ![s] = failed'[s]], failed'[s] \in BOOLEAN,
             \/ place = "abort" /\ failed'[s]
             \/ /\ ~failed'[s] /\ place = "close"
                /\ got[s] = stored[s] /\ taken = Size
             \/ /\ ~failed'[s] /\ place = "store"
                /\ got[s] = stored[s] \o buffer[s] /\ calls[s] <= Len(got[s])
      PROVE  TInv'
  <2>1. TypeOK'
    BY <1>1, <1>3, StreamsTyped DEF TInv, TypeOK
  <2>2. loop'[s] = place /\ \A t \in Subs \ {s} : Same(t)
    BY <1>1, <1>3, CallsRest DEF Same, TInv, TypeOK
  <2>3. LoopInv(s)'
    BY <1>1, <1>2, <1>3, <2>2 DEF LoopInv
  <2>4. UploadInv(s)'
    BY <1>1, <1>2, <1>3, <2>2 DEF UploadInv
  <2>5. Alone(s)' = Alone(s)
    BY <2>2 DEF Alone, Same
  <2>6. SubInv(s)'
    BY <1>1, <2>3, <2>4, <2>5, Typed DEF SubInv, AloneUpload
  <2>7. loop'[s] # "idle" /\ taken <= taken' /\ (op = "upload" => target' = <<>>)
    <3>1. taken <= taken'
      BY <1>1, Typed
    <3> QED BY <1>1, <1>3, <2>2, <3>1 DEF TInv
  <2> QED BY <1>1, <2>1, <2>2, <2>6, <2>7, OneMoves
<1>4. ~failed[s]
  BY <1>1, <1>2 DEF LoopInv
<1>5. CASE Failing(CallOf(s))
  <2>1. Fail(s, "abort")
    BY <1>1, <1>5, Answered DEF UploadContinues
  <2>2. /\ loop' = [loop EXCEPT ![s] = "abort"]
        /\ failed' = [failed EXCEPT ![s] = TRUE] /\ failed'[s] = TRUE
    BY <2>1 DEF Fail, TInv, TypeOK
  <2> QED BY <1>3, <2>2 DEF Places
<1>6. CASE ~Failing(CallOf(s))
  <2>1. ~Untouched(CallOf(s))
    BY <1>1, Answered
  <2>2. PICK v \in Streams!Counts : /\ Giving(CallOf(s), v) /\ Gave(s, v)
                                    /\ got[s] = stored[s] \o buffer[s]
    BY <1>1, <1>2, <1>6, <2>1 DEF UploadInv
  <2>3. Answer(s).error = FALSE /\ Answer(s).result = v
    BY <1>1, <2>2, Answered
  <2>4. Go(s, IF v = Streams!EOF THEN "close" ELSE "store")
    BY <2>3 DEF UploadContinues
  <2>5. loop' = [loop EXCEPT ![s] = IF v = Streams!EOF THEN "close" ELSE "store"]
        /\ failed' = [failed EXCEPT ![s] = failed'[s]] /\ failed'[s] = failed[s]
        /\ failed'[s] \in BOOLEAN
    BY <2>4 DEF Go, TInv, TypeOK
  <2>6. CASE v = Streams!EOF
    <3>1. taken = Size /\ buffer[s] = <<>>
      BY <2>2, <2>6, Typed DEF Gave, Streams!EOF
    <3>2. got[s] = stored[s]
      BY <2>2, <3>1, Typed, ConcatEmptySeq
    <3> QED BY <1>3, <1>4, <2>5, <2>6, <3>1, <3>2 DEF Places
  <2>7. CASE v # Streams!EOF
    <3>1. calls[s] <= Len(got[s])
      BY <2>2, <2>7 DEF Gave
    <3> QED BY <1>3, <1>4, <2>2, <2>5, <2>7, <3>1 DEF Places
  <2> QED BY <2>6, <2>7
<1> QED BY <1>5, <1>6

LEMMA DownloadContinuesKeeps ==
    ASSUME TInv, NEW s \in Subs, DownloadContinues(s), Converted!SInv' PROVE TInv'
<1>1. /\ op = "download" /\ loop[s] = "wait" /\ answers[Current(s)] # <<>>
      /\ UNCHANGED <<streamVars, op, calls, buffer, got, taken, stored, file, target, written,
                     unsubscribed, outcome>>
  BY DEF DownloadContinues
<1>2. LoopInv(s) /\ DownloadInv(s) /\ ~failed[s]
  BY <1>1, Typed DEF LoopInv
<1>3. ASSUME NEW place \in {"next", "reply"}, loop' = [loop EXCEPT ![s] = place],
             failed' = [failed EXCEPT ![s] = failed'[s]], failed'[s] \in BOOLEAN,
             amount' = [amount EXCEPT ![s] = amount'[s]], amount'[s] \in 0..Size,
             \/ place = "reply" /\ failed'[s]
             \/ /\ ~failed'[s] /\ place = "next" /\ amount'[s] = Len(got[s])
                /\ written[s] = Len(got[s])
      PROVE  TInv'
  <2>1. TypeOK'
    BY <1>1, <1>3, StreamsTyped DEF TInv, TypeOK, Places
  <2>2. loop'[s] = place /\ \A t \in Subs \ {s} : Same(t)
    BY <1>1, <1>3, CallsRest DEF Same, TInv, TypeOK
  <2>3. LoopInv(s)'
    BY <1>1, <1>2, <1>3, <2>2 DEF LoopInv, DownloadInv
  <2>4. DownloadInv(s)'
    BY <1>1, <1>2, <1>3, <2>2 DEF DownloadInv
  <2>5. Alone(s)' = Alone(s)
    BY <2>2 DEF Alone, Same
  <2>6. WrittenInv(s)' /\ AloneDownload(s)' = AloneDownload(s)
    BY <1>1, <1>3, <2>2 DEF WrittenInv, AloneDownload
  <2>7. SubInv(s)'
    BY <1>1, <2>3, <2>4, <2>5, <2>6, Typed DEF SubInv
  <2>8. loop'[s] # "idle" /\ taken <= taken' /\ (op = "upload" => target' = <<>>)
    <3>1. taken <= taken'
      BY <1>1, Typed
    <3> QED BY <1>1, <1>3, <2>2, <3>1
  <2> QED BY <1>1, <2>1, <2>2, <2>7, <2>8, OneMoves
<1>4. CASE Failing(CallOf(s))
  <2>1. Fail(s, "reply") /\ UNCHANGED amount
    BY <1>1, <1>4, Answered DEF DownloadContinues
  <2>2. /\ loop' = [loop EXCEPT ![s] = "reply"]
        /\ failed' = [failed EXCEPT ![s] = TRUE] /\ failed'[s] = TRUE
        /\ amount' = [amount EXCEPT ![s] = amount'[s]] /\ amount'[s] = amount[s]
    BY <2>1 DEF Fail, TInv, TypeOK
  <2> QED BY <1>3, <2>2, Typed
<1>5. CASE ~Failing(CallOf(s))
  <2> DEFINE v == Len(got[s]) - amount[s]
  <2>1. Giving(CallOf(s), v)
    BY <1>1, <1>2, <1>5, Answered DEF DownloadInv
  <2>2. Answer(s).error = FALSE /\ Answer(s).result = v
    BY <1>1, <2>1, Answered
  <2>3. Go(s, "next") /\ amount' = [amount EXCEPT ![s] = @ + v]
    BY <2>2 DEF DownloadContinues
  <2>4. amount[s] + v = Len(got[s]) /\ Len(got[s]) \in 0..Size
    BY <1>2, Typed DEF LoopInv
  <2>5. /\ loop' = [loop EXCEPT ![s] = "next"]
        /\ failed' = [failed EXCEPT ![s] = failed'[s]] /\ failed'[s] = failed[s]
        /\ failed'[s] \in BOOLEAN
        /\ amount' = [amount EXCEPT ![s] = amount'[s]] /\ amount'[s] = Len(got[s])
    BY <2>3, <2>4 DEF Go, TInv, TypeOK
  <2>6. written[s] = Len(got[s])
    BY <1>1, <2>1, Typed DEF WrittenInv
  <2> QED BY <1>2, <1>3, <2>4, <2>5, <2>6
<1> QED BY <1>4, <1>5

LEMMA StoreChunkKeeps ==
    ASSUME TInv, NEW s \in Subs, StoreChunk(s), Converted!SInv' PROVE TInv'
<1>1. /\ op = "upload" /\ loop[s] = "store"
      /\ UNCHANGED <<streamVars, op, calls, buffer, got, taken, file, target, written, amount,
                     unsubscribed, outcome>>
  BY DEF StoreChunk
<1>2. LoopInv(s) /\ UploadInv(s) /\ ~failed[s]
  BY <1>1, Typed DEF LoopInv
<1>3. ASSUME NEW place \in {"next", "abort", "reply"}, loop' = [loop EXCEPT ![s] = place],
             failed' = [failed EXCEPT ![s] = failed'[s]], failed'[s] \in BOOLEAN,
             stored' = [stored EXCEPT ![s] = stored'[s]], stored'[s] \in Seq(1..Size),
             IF failed'[s] THEN place # "next" ELSE place = "next" /\ got[s] = stored'[s]
      PROVE  TInv'
  <2>1. TypeOK'
    BY <1>1, <1>3, StreamsTyped DEF TInv, TypeOK, Places
  <2>2. loop'[s] = place /\ \A t \in Subs \ {s} : Same(t)
    BY <1>1, <1>3, CallsRest DEF Same, TInv, TypeOK
  <2>3. LoopInv(s)'
    BY <1>1, <1>2, <1>3, <2>2 DEF LoopInv, UploadInv
  <2>4. UploadInv(s)'
    BY <1>1, <1>2, <1>3, <2>2 DEF UploadInv
  <2>5. Alone(s)' = Alone(s)
    BY <2>2 DEF Alone, Same
  <2>6. SubInv(s)'
    BY <1>1, <2>3, <2>4, <2>5, Typed DEF SubInv, AloneUpload
  <2>7. loop'[s] # "idle" /\ taken <= taken' /\ (op = "upload" => target' = <<>>)
    <3>1. taken <= taken'
      BY <1>1, Typed
    <3> QED BY <1>1, <1>3, <2>2, <3>1 DEF TInv
  <2> QED BY <1>1, <2>1, <2>2, <2>6, <2>7, OneMoves
<1>4. CASE Go(s, "next") /\ stored' = [stored EXCEPT ![s] = @ \o buffer[s]]
  <2>1. /\ loop' = [loop EXCEPT ![s] = "next"]
        /\ failed' = [failed EXCEPT ![s] = failed'[s]] /\ failed'[s] = FALSE
        /\ stored' = [stored EXCEPT ![s] = stored'[s]] /\ stored'[s] = stored[s] \o buffer[s]
    BY <1>2, <1>4 DEF Go, TInv, TypeOK
  <2>2. stored[s] \o buffer[s] = got[s]
    BY <1>1, <1>2 DEF UploadInv
  <2> QED BY <1>3, <2>1, <2>2, Typed
<1>5. ASSUME NEW place \in {"abort", "reply"}, Fail(s, place), UNCHANGED stored
      PROVE  TInv'
  <2>1. /\ loop' = [loop EXCEPT ![s] = place]
        /\ failed' = [failed EXCEPT ![s] = failed'[s]] /\ failed'[s] = TRUE
        /\ stored' = [stored EXCEPT ![s] = stored'[s]] /\ stored'[s] = stored[s]
    BY <1>5 DEF Fail, TInv, TypeOK
  <2> QED BY <1>3, <2>1, Typed
<1> QED BY <1>4, <1>5 DEF StoreChunk

\* The two ways in which an upload's file ends.
LEMMA FileEndsKeeps ==
    ASSUME TInv, NEW s \in Subs, CloseFile(s) \/ AbortFile(s), Converted!SInv' PROVE TInv'
<1>1. /\ loop[s] \in {"close", "abort"}
      /\ UNCHANGED <<streamVars, op, calls, buffer, got, taken, target, written, amount,
                     unsubscribed, outcome>>
  BY DEF CloseFile, AbortFile
<1>2. /\ op = "upload" /\ LoopInv(s) /\ UploadInv(s) /\ ~file[s]
      /\ loop[s] = "abort" <=> failed[s]
      /\ loop[s] = "close" => got[s] = stored[s] /\ taken = Size
  BY <1>1, Typed DEF LoopInv, UploadInv, DownloadInv
<1>3. /\ loop' = [loop EXCEPT ![s] = "reply"] /\ loop'[s] = "reply"
      /\ failed' = [failed EXCEPT ![s] = failed'[s]] /\ failed'[s] \in BOOLEAN
      /\ file' = [file EXCEPT ![s] = file'[s]] /\ file'[s] \in BOOLEAN
      /\ stored' = [stored EXCEPT ![s] = stored'[s]]
      /\ stored'[s] = stored[s] \/ stored'[s] = <<>>
  BY DEF CloseFile, AbortFile, Go, Fail, TInv, TypeOK
<1>4. /\ file'[s] => stored'[s] = got[s]
      /\ ~failed'[s] => file'[s] /\ taken = Size
  BY <1>2 DEF CloseFile, AbortFile, Go, Fail, TInv, TypeOK
<1>5. stored'[s] \in Seq(1..Size)
  <2>1. stored[s] \in Seq(1..Size) /\ <<>> \in Seq(1..Size)
    BY Typed
  <2> QED BY <1>3, <2>1
<1>6. TypeOK'
  BY <1>1, <1>3, <1>5, StreamsTyped DEF TInv, TypeOK, Places
<1>7. \A t \in Subs \ {s} : Same(t)
  BY <1>1, <1>3, CallsRest DEF Same, TInv, TypeOK
<1>8. LoopInv(s)'
  BY <1>1, <1>2, <1>3, <1>4 DEF LoopInv
<1>9. UploadInv(s)'
  BY <1>1, <1>2, <1>3, <1>4 DEF UploadInv
<1>10. Alone(s)' = Alone(s)
  BY <1>7 DEF Alone, Same
<1>11. SubInv(s)'
  BY <1>1, <1>2, <1>8, <1>9, <1>10, Typed DEF SubInv, AloneUpload
<1>12. taken <= taken'
  BY <1>1, Typed
<1>13. op = "upload" => target' = <<>>
  BY <1>1 DEF TInv
<1> QED BY <1>1, <1>3, <1>6, <1>7, <1>11, <1>12, <1>13, OneMoves

LEMMA ReadChunkKeeps ==
    ASSUME TInv, NEW s \in Subs, ReadChunk(s), Converted!SInv' PROVE TInv'
<1>1. /\ op = "download" /\ loop[s] = "next"
      /\ UNCHANGED <<streamVars, op, calls, taken, stored, file, target, written, amount,
                     unsubscribed, outcome>>
  BY DEF ReadChunk
<1>2. /\ LoopInv(s) /\ DownloadInv(s) /\ ~failed[s] /\ ~file[s]
      /\ amount[s] = Len(got[s]) /\ calls[s] <= Len(got[s]) /\ Len(got[s]) <= Size
      /\ got[s] = SubSeq(Content, 1, Len(got[s])) /\ written[s] = amount[s]
  BY <1>1, Typed DEF LoopInv, DownloadInv, WrittenInv
<1>3. ASSUME NEW place \in {"store", "reply"}, loop' = [loop EXCEPT ![s] = place],
             failed' = [failed EXCEPT ![s] = failed'[s]], failed'[s] \in BOOLEAN,
             buffer' = [buffer EXCEPT ![s] = buffer'[s]], buffer'[s] \in Seq(1..Size),
             got' = [got EXCEPT ![s] = got'[s]], got'[s] \in Seq(1..Size),
             Len(got'[s]) <= Size, calls[s] <= Len(got'[s]),
             got'[s] = SubSeq(Content, 1, Len(got'[s])),
             \/ place = "reply" /\ failed'[s]
             \/ place = "reply" /\ amount[s] = Size
             \/ /\ place = "store" /\ ~failed'[s]
                /\ amount[s] < Len(got'[s]) /\ Len(got'[s]) - amount[s] \in 1..MaxCount
                /\ buffer'[s] = SubSeq(Content, amount[s] + 1, Len(got'[s]))
                /\ calls[s] < Len(got'[s])
      PROVE  TInv'
  <2>1. TypeOK'
    BY <1>1, <1>3, StreamsTyped DEF TInv, TypeOK, Places
  <2>2. loop'[s] = place /\ \A t \in Subs \ {s} : Same(t)
    BY <1>1, <1>3, CallsRest DEF Same, TInv, TypeOK
  <2>3. calls[s] <= Len(got'[s]) + 1
    <3>1. Len(got'[s]) \in Nat /\ calls[s] <= Len(got'[s])
      BY <1>3
    <3>2. calls[s] \in Nat
      BY Typed
    <3> QED BY <3>1, <3>2
  <2>4. LoopInv(s)'
    BY <1>1, <1>2, <1>3, <2>2, <2>3 DEF LoopInv
  <2>5. DownloadInv(s)'
    BY <1>1, <1>2, <1>3, <2>2 DEF DownloadInv
  <2>6. Alone(s)' = Alone(s)
    BY <2>2 DEF Alone, Same
  <2>7. WrittenInv(s)' /\ AloneDownload(s)' = AloneDownload(s)
    BY <1>1, <1>2, <1>3, <2>2 DEF WrittenInv, AloneDownload
  <2>8. SubInv(s)'
    BY <1>1, <2>4, <2>5, <2>6, <2>7, Typed DEF SubInv
  <2>9. loop'[s] # "idle" /\ taken <= taken' /\ (op = "upload" => target' = <<>>)
    <3>1. taken <= taken'
      BY <1>1, Typed
    <3> QED BY <1>1, <1>3, <2>2, <3>1
  <2> QED BY <1>1, <2>1, <2>2, <2>8, <2>9, OneMoves
<1>4. CASE UNCHANGED <<buffer, got>>
  <2>1. /\ loop' = [loop EXCEPT ![s] = "reply"]
        /\ failed' = [failed EXCEPT ![s] = failed'[s]] /\ failed'[s] \in BOOLEAN
        /\ failed'[s] \/ amount[s] = Size
        /\ buffer' = [buffer EXCEPT ![s] = buffer'[s]] /\ buffer'[s] = buffer[s]
        /\ got' = [got EXCEPT ![s] = got'[s]] /\ got'[s] = got[s]
    <3>1. CASE Go(s, "reply") /\ Len(got[s]) = Size
      BY <1>2, <1>4, <3>1 DEF Go, TInv, TypeOK
    <3>2. CASE Fail(s, "reply")
      BY <1>4, <3>2 DEF Fail, TInv, TypeOK
    <3>3. ASSUME NEW n \in 1..MaxCount, Len(got[s]) + n <= Size,
                 got' = [got EXCEPT ![s] = @ \o SubSeq(Content, Len(got[s]) + 1, Len(got[s]) + n)]
          PROVE  FALSE
      <4>1. /\ Len(got[s]) \in 0..Size /\ n \in Nat /\ n > 0
        BY <1>2, Typed
      <4>2. /\ SubSeq(Content, Len(got[s]) + 1, Len(got[s]) + n) \in Seq(1..Size)
            /\ Len(SubSeq(Content, Len(got[s]) + 1, Len(got[s]) + n)) = n
        BY <3>3, <4>1, Beginnings
      <4>3. got[s] \o SubSeq(Content, Len(got[s]) + 1, Len(got[s]) + n) = got[s]
        BY <1>4, <3>3 DEF TInv, TypeOK
      <4>4. Len(got[s]) = Len(got[s]) + n
        <5>1. got[s] \in Seq(1..Size)
          BY Typed
        <5> QED BY <4>2, <4>3, <5>1, ConcatProperties
      <4> QED BY <4>1, <4>4
    <3> QED BY <3>1, <3>2, <3>3 DEF ReadChunk
  <2> QED BY <1>2, <1>3, <2>1, Typed
<1>5. ASSUME NEW n \in 1..MaxCount, NEW bytes,
             bytes = SubSeq(Content, Len(got[s]) + 1, Len(got[s]) + n),
             Len(got[s]) + n <= Size, Go(s, "store"),
             buffer' = [buffer EXCEPT ![s] = bytes], got' = [got EXCEPT ![s] = @ \o bytes]
      PROVE  TInv'
  <2>1. Len(got[s]) \in 0..Size /\ n \in Nat /\ n > 0
    BY <1>2, Typed
  <2>2. /\ bytes \in Seq(1..Size) /\ Len(bytes) = n
        /\ got[s] \o bytes = SubSeq(Content, 1, Len(got[s]) + n)
    <3>1. /\ bytes \in Seq(1..Size) /\ Len(bytes) = n
          /\ SubSeq(Content, 1, Len(got[s])) \o bytes = SubSeq(Content, 1, Len(got[s]) + n)
      BY <1>5, <2>1, Beginnings
    <3> QED BY <1>2, <3>1
  <2>3. /\ loop' = [loop EXCEPT ![s] = "store"]
        /\ failed' = [failed EXCEPT ![s] = failed'[s]] /\ failed'[s] = FALSE
        /\ buffer' = [buffer EXCEPT ![s] = buffer'[s]] /\ buffer'[s] = bytes
        /\ got' = [got EXCEPT ![s] = got'[s]] /\ got'[s] = got[s] \o bytes
    BY <1>2, <1>5 DEF Go, TInv, TypeOK
  <2>4. got'[s] \in Seq(1..Size) /\ Len(got'[s]) = Len(got[s]) + n
    <3>1. got[s] \in Seq(1..Size)
      BY Typed
    <3>2. got[s] \o bytes \in Seq(1..Size) /\ Len(got[s] \o bytes) = Len(got[s]) + Len(bytes)
      BY <2>2, <3>1, ConcatProperties
    <3> QED BY <2>2, <2>3, <3>2
  <2>5. /\ got'[s] = SubSeq(Content, 1, Len(got'[s]))
        /\ buffer'[s] = SubSeq(Content, amount[s] + 1, Len(got'[s]))
    BY <1>2, <1>5, <2>2, <2>3, <2>4
  <2>6. /\ Len(got'[s]) <= Size /\ calls[s] <= Len(got'[s]) /\ calls[s] < Len(got'[s])
        /\ amount[s] < Len(got'[s]) /\ Len(got'[s]) - amount[s] \in 1..MaxCount
    BY <1>2, <1>5, <2>1, <2>4, Typed
  <2> QED BY <1>3, <2>2, <2>3, <2>4, <2>5, <2>6
<1> QED BY <1>4, <1>5 DEF ReadChunk

LEMMA ReplyKeeps ==
    ASSUME TInv, NEW s \in Subs, Reply(s), Converted!SInv' PROVE TInv'
<1>1. /\ loop[s] = "reply" /\ loop' = [loop EXCEPT ![s] = "over"] /\ loop'[s] = "over"
      /\ UNCHANGED <<streamVars, op, calls, buffer, got, taken, stored, file, target,
                     written, amount, failed, unsubscribed>>
  BY DEF Reply, Go, dataVars, TInv, TypeOK
<1>2. /\ outcome' = [outcome EXCEPT ![s] = outcome'[s]]
      /\ outcome'[s] = "completed" => ~failed[s]
  BY <1>1, Typed DEF Reply, LoopInv, TInv, TypeOK
<1>3. TypeOK'
  <2>1. outcome'[s] \in {"none", "error", "completed"}
    BY DEF Reply, TInv, TypeOK
  <2> QED BY <1>1, <1>2, <2>1, StreamsTyped DEF TInv, TypeOK, Places
<1>4. \A t \in Subs \ {s} : Same(t)
  BY <1>1, <1>2, CallsRest DEF Same, TInv, TypeOK
<1>5. LoopInv(s)'
  BY <1>1, <1>2, Typed DEF LoopInv
<1>6. op = "upload" => UploadInv(s)'
  BY <1>1, Typed DEF UploadInv
<1>7. op = "download" => DownloadInv(s)' /\ WrittenInv(s)'
  BY <1>1, Typed DEF DownloadInv, WrittenInv
<1>8. Alone(s)' = Alone(s)
  BY <1>1 DEF Alone
<1>9. AloneDownload(s) => AloneDownload(s)'
  BY <1>1 DEF AloneDownload
<1>10. SubInv(s)'
  BY <1>1, <1>5, <1>6, <1>7, <1>8, <1>9, Typed DEF SubInv, AloneUpload
<1>11. taken <= taken'
  BY <1>1, Typed
<1>12. op = "upload" => target' = <<>>
  BY <1>1 DEF TInv
<1> QED BY <1>1, <1>3, <1>4, <1>10, <1>11, <1>12, OneMoves

-----------------------------------------------------------------------------
(***************************************************************************)
(* The invariant.                                                          *)
(***************************************************************************)
LEMMA InitTInv == Init => TInv
<1> SUFFICES ASSUME Init PROVE TInv
  OBVIOUS
<1>1. Converted!SInv
  BY SameStreams, Converted!InitSInv DEF Init
<1>2. TypeOK
  BY <1>1, SameStreams, TransferAssumption DEF Init, TypeOK, Places, Converted!SInv
<1>3. Len(<<>>) = 0 /\ SubSeq(Content, 1, 0) = <<>>
  BY Beginnings
<1>4. ASSUME NEW s \in Subs PROVE SubInv(s)
  <2>1. LoopInv(s)
    BY <1>3, TransferAssumption DEF Init, LoopInv
  <2>2. UploadInv(s) /\ AloneUpload(s)
    BY <1>3 DEF Init, UploadInv, AloneUpload
  <2>3. DownloadInv(s) /\ WrittenInv(s) /\ AloneDownload(s)
    BY <1>3, TransferAssumption DEF Init, DownloadInv, WrittenInv, AloneDownload
  <2> QED BY <2>1, <2>2, <2>3 DEF SubInv
<1> QED BY <1>1, <1>2, <1>4 DEF Init, TInv

LEMMA NextTInv == TInv /\ [Next]_vars => TInv'
<1> SUFFICES ASSUME TInv, [Next]_vars PROVE TInv'
  OBVIOUS
<1>1. Converted!SInv'
  BY UsesStreams
<1>2. CASE UNCHANGED vars
  <2>1. TypeOK'
    BY <1>1, <1>2, StreamsTyped DEF TInv, TypeOK, vars, dataVars
  <2>2. ASSUME NEW t \in Subs PROVE SubInv(t)'
    <3>1. CallOf(t)' = CallOf(t) /\ Current(t)' = Current(t)
      BY <1>2, CallsRest DEF vars
    <3>2. LoopInv(t)' = LoopInv(t)
      BY <1>2, <3>1 DEF vars, streamVars, dataVars, LoopInv
    <3>3. UploadInv(t)' = UploadInv(t) /\ DownloadInv(t)' = DownloadInv(t)
          /\ WrittenInv(t)' = WrittenInv(t)
      BY <1>2, <3>1 DEF vars, dataVars, UploadInv, DownloadInv, WrittenInv, Gave
    <3>4. Alone(t)' = Alone(t) /\ AloneUpload(t)' = AloneUpload(t)
          /\ AloneDownload(t)' = AloneDownload(t)
      BY <1>2, <3>1 DEF vars, dataVars, Alone, AloneUpload, AloneDownload
    <3> QED BY <1>2, <3>2, <3>3, <3>4 DEF TInv, SubInv, vars
  <2> QED BY <1>1, <1>2, <2>1, <2>2 DEF TInv, vars, dataVars
<1>3. ASSUME NEW s \in Subs,
             \/ UploadFromStream(s) \/ DownloadToStream(s) \/ Unsubscribe(s)
             \/ Upload(s) \/ Download(s) \/ Reply(s) \/ Stream(s) \/ Callback(s)
      PROVE  TInv'
  <2>1. CASE UploadFromStream(s) \/ DownloadToStream(s)
    BY <1>1, <2>1, StartKeeps DEF UploadFromStream, DownloadToStream
  <2>2. CASE Unsubscribe(s)
    BY <1>1, <2>2, UnsubscribeKeeps
  <2>3. CASE Upload(s)
    BY <1>1, <2>3, ReadSourceKeeps, UploadContinuesKeeps, StoreChunkKeeps, FileEndsKeeps
       DEF Upload
  <2>4. CASE Download(s)
    BY <1>1, <2>4, ReadChunkKeeps, WriteDestinationKeeps, DownloadContinuesKeeps DEF Download
  <2>5. CASE Reply(s)
    BY <1>1, <2>5, ReplyKeeps
  <2>6. CASE Stream(s) \/ Callback(s)
    BY <1>1, <2>6, SourceReadsKeeps, DestinationWritesKeeps, StreamEndsKeeps DEF Stream
  <2> QED BY <1>3, <2>1, <2>2, <2>3, <2>4, <2>5, <2>6
<1> QED BY <1>2, <1>3 DEF Next

\* The inductive invariant: where each loop is, what has become of its call,
\* and which bytes it holds.
THEOREM TransferInvariance == Spec => []TInv
BY InitTInv, NextTInv, PTL DEF Spec

\* Every reachable state of a transfer is of the stated type: no loop makes
\* more calls than its bytes allow, counts more than the file, or fills a
\* buffer with anything but bytes.
THEOREM TransferTypes == Spec => []TypeOK
<1>1. TInv => TypeOK
  BY DEF TInv
<1> QED BY <1>1, TransferInvariance, PTL

\* A transfer uses the streams it was given as toCallbackAsyncInputStream and
\* toCallbackAsyncOutputStream convert them: each of its steps is one of
\* CallbackStreams, or none.  What holds of every converted stream therefore
\* holds of the streams GridFS reads and writes.
THEOREM TransferUsesStreams == Spec => Streams!Spec
<1>1. Init => Streams!Init
  BY DEF Init
<1>2. TInv /\ [Next]_vars => [Streams!Next]_(Streams!vars)
  BY UsesStreams
<1> QED BY <1>1, <1>2, TransferInvariance, PTL DEF Spec, Streams!Spec

\* A files document is written only over the chunks of all that the source
\* gave this upload, whoever else reads from the source.
THEOREM FileComplete == Spec => []FileIsWhatWasRead
<1>1. TInv => FileIsWhatWasRead
  BY DEF TInv, SubInv, LoopInv, FileIsWhatWasRead
<1> QED BY <1>1, TransferInvariance, PTL

\* A subscriber is told of success only for a whole file, or a whole
\* destination and its size.
THEOREM WholeSuccess == Spec => []SuccessIsWhole
<1>1. ASSUME TInv, NEW s \in Subs, outcome[s] = "completed"
      PROVE  IF op = "upload"
             THEN file[s] /\ (Alone(s) => stored[s] = Content)
             ELSE amount[s] = Size /\ (Alone(s) => target = Content)
  <2>1. loop[s] = "over" /\ ~failed[s] /\ SubInv(s) /\ LoopInv(s)
    BY <1>1, Typed DEF LoopInv
  <2>2. CASE op = "upload"
    <3>1. file[s] /\ taken = Size /\ stored[s] = got[s]
      BY <2>1, <2>2 DEF SubInv, UploadInv, LoopInv
    <3>2. Alone(s) => got[s] = Content
      BY <2>1, <2>2, <3>1, Beginnings DEF SubInv, AloneUpload
    <3> QED BY <2>2, <3>1, <3>2
  <2>3. CASE op # "upload"
    <3>1. op = "download"
      BY <1>1, <2>3, Typed
    <3>2. amount[s] = Size
      BY <2>1, <3>1 DEF SubInv, DownloadInv
    <3>3. Alone(s) => target = Content
      BY <2>1, <3>1, Beginnings DEF SubInv, WrittenInv, AloneDownload
    <3> QED BY <2>3, <3>2, <3>3
  <2> QED BY <2>2, <2>3
<1>2. TInv => SuccessIsWhole
  BY <1>1 DEF SuccessIsWhole
<1> QED BY <1>2, TransferInvariance, PTL

\* A destination that one download writes to has the beginning of the file,
\* however the download ends.
THEOREM PrefixDelivered == Spec => []DestinationHasPrefix
<1>1. ASSUME TInv, NEW s \in Subs, Alone(s)
      PROVE  IsPrefix(target, Content)
  <2>1. CASE op = "upload"
    <3>1. target = SubSeq(Content, 1, 0) /\ 0 \in 0..Size
      BY <1>1, <2>1, Beginnings, Typed DEF TInv
    <3> QED BY <3>1, Beginnings
  <2>2. CASE op = "download"
    <3>1. target = SubSeq(Content, 1, written[s]) /\ written[s] \in 0..Size
      BY <1>1, <2>2, Typed DEF SubInv, AloneDownload
    <3> QED BY <3>1, Beginnings
  <2> QED BY <1>1, <2>1, <2>2, Typed
<1>2. TInv => DestinationHasPrefix
  BY <1>1 DEF DestinationHasPrefix
<1> QED BY <1>2, TransferInvariance, PTL
-----------------------------------------------------------------------------
(***************************************************************************)
(* The contract, for several subscribers of one stream.                    *)
(***************************************************************************)

\* What the contract calls the files.
Files == [s \in Subs |-> IF file[s] THEN {stored[s]} ELSE {}]

\* A step that deals out nothing, writes nothing and tells nobody anything.
Quiet ==
    /\ UNCHANGED <<op, taken, target, written, outcome>>
    /\ op = "upload" => got' = got
    /\ \A s \in Subs : file'[s] = file[s] /\ (file[s] => stored'[s] = stored[s])

LEMMA QuietUnnoticed == Quiet => UNCHANGED Contract!vars
<1> SUFFICES ASSUME Quiet PROVE UNCHANGED Contract!vars
  OBVIOUS
<1>1. Files' = Files
  BY DEF Quiet, Files
<1> QED BY <1>1 DEF Quiet, Files, Contract!vars

LEMMA BytesOfContent ==
    \A k, n : Contract!Bytes(k, n) = SubSeq(Content, k + 1, k + n)
BY DEF Contract!Bytes, Content

\* The loop keeps to itself.
LEMMA LoopIsQuiet ==
    ASSUME TInv, NEW s \in Subs,
           \/ Start(s) \/ Unsubscribe(s) \/ StreamEnds(s) \/ Callback(s) \/ ReadSource(s)
           \/ UploadContinues(s) \/ WriteDestination(s) \/ DownloadContinues(s)
    PROVE  Quiet
BY DEF Start, Unsubscribe, StreamEnds, Callback, ReadSource, UploadContinues,
       WriteDestination, DownloadContinues, dataVars, Quiet

\* What is stored or thrown away is not a file yet, or no longer.
LEMMA ChunksAreQuiet ==
    ASSUME TInv, NEW s \in Subs, StoreChunk(s) \/ AbortFile(s)
    PROVE  Quiet
<1>1. /\ loop[s] \in {"store", "abort"}
      /\ UNCHANGED <<op, taken, target, written, outcome, got, file>>
  BY DEF StoreChunk, AbortFile
<1>2. ~file[s]
  BY <1>1, Typed DEF LoopInv
<1>3. \A t \in Subs \ {s} : stored'[t] = stored[t]
  BY DEF StoreChunk, AbortFile, TInv, TypeOK
<1> QED BY <1>1, <1>2, <1>3 DEF Quiet

\* A download reads the stored file as often as it likes.
LEMMA ReadingIsQuiet ==
    ASSUME TInv, NEW s \in Subs, ReadChunk(s)
    PROVE  Quiet
BY DEF ReadChunk, Quiet

LEMMA SourceIsDealt ==
    ASSUME TInv, NEW s \in Subs, SourceReads(s)
    PROVE  Contract!Next \/ Quiet
<1>1. /\ op = "upload" /\ loop[s] = "wait" /\ outcome[s] = "none" /\ ~file[s]
      /\ UNCHANGED <<op, stored, file, target, written, outcome>>
  BY Typed DEF SourceReads, LoopInv
<1>2. CASE taken = Size
  <2>1. UNCHANGED <<got, taken>>
    BY <1>2 DEF SourceReads
  <2> QED BY <1>1, <2>1 DEF Quiet
<1>3. CASE taken # Size
  <2>1. PICK n \in 1..MaxCount :
            /\ taken + n <= Size /\ taken' = taken + n
            /\ got' = [got EXCEPT ![s] = @ \o SubSeq(Content, taken + 1, taken + n)]
    BY <1>3 DEF SourceReads
  <2>2. n \in 1..(Size - taken)
    BY <2>1, Typed
  <2>3. Files[s] = {} /\ Files' = Files
    BY <1>1 DEF Files
  <2>4. Contract!Deal(s, n)
    BY <1>1, <2>1, <2>3, BytesOfContent DEF Contract!Deal, Files
  <2> QED BY <2>2, <2>4 DEF Contract!Next
<1> QED BY <1>2, <1>3

LEMMA FileIsWrittenOnce ==
    ASSUME TInv, NEW s \in Subs, CloseFile(s)
    PROVE  Contract!Next \/ Quiet
<1>1. /\ loop[s] = "close" /\ file' = [file EXCEPT ![s] = file'[s]] /\ file'[s] \in BOOLEAN
      /\ UNCHANGED <<op, taken, target, written, outcome, got, stored>>
  BY DEF CloseFile, TInv, TypeOK
<1>2. /\ op = "upload" /\ ~file[s] /\ outcome[s] = "none"
      /\ taken = Size /\ got[s] = stored[s]
  BY <1>1, Typed DEF LoopInv, UploadInv, DownloadInv
<1>3. CASE file'[s]
  <2>1. Files[s] = {} /\ Files' = [Files EXCEPT ![s] = {got[s]}]
    BY <1>1, <1>2, <1>3 DEF Files, TInv, TypeOK
  <2>2. Contract!WriteFile(s)
    BY <1>1, <1>2, <2>1 DEF Contract!WriteFile, Files
  <2> QED BY <2>2 DEF Contract!Next
<1>4. CASE ~file'[s]
  BY <1>1, <1>2, <1>4 DEF Quiet, TInv, TypeOK
<1> QED BY <1>1, <1>3, <1>4

LEMMA DestinationTakesItsNext ==
    ASSUME TInv, NEW s \in Subs, DestinationWrites(s)
    PROVE  Contract!Next
<1>1. /\ op = "download" /\ loop[s] = "wait" /\ Emits(s, Len(buffer[s]))
      /\ target' = target \o buffer[s]
      /\ written' = [written EXCEPT ![s] = @ + Len(buffer[s])]
      /\ UNCHANGED <<op, loop, calls, taken, stored, file, outcome>>
  BY DEF DestinationWrites
<1>2. /\ outcome[s] = "none" /\ Len(got[s]) <= Size
      /\ amount[s] < Len(got[s]) /\ Len(got[s]) - amount[s] \in 1..MaxCount
      /\ buffer[s] = SubSeq(Content, amount[s] + 1, Len(got[s]))
  BY <1>1, Typed DEF LoopInv, DownloadInv
<1>t. Len(got[s]) \in Nat /\ amount[s] \in 0..Size /\ Size \in Nat
  BY <1>1, Typed
<1>3. PICK n \in Nat : n = Len(got[s]) - amount[s] /\ amount[s] + n = Len(got[s]) /\ n > 0
                       /\ amount[s] + n <= Size
  BY <1>2, <1>t
<1>4. buffer[s] = SubSeq(Content, amount[s] + 1, amount[s] + n) /\ Len(buffer[s]) = n
  <2>1. Len(SubSeq(Content, amount[s] + 1, amount[s] + n)) = n
    BY <1>t, <1>3, Beginnings
  <2> QED BY <1>2, <1>3, <2>1
<1>5. n \in Streams!Counts
  BY <1>2, <1>3, Typed DEF Streams!Counts, Streams!EOF
<1>6. Untouched(CallOf(s))
  BY <1>1, <1>4, <1>5, Given
<1>7. written[s] = amount[s]
  BY <1>1, <1>6, Typed DEF WrittenInv
<1>8. n \in 1..(Size - written[s])
  BY <1>3, <1>7, Typed
<1>9. Contract!Deliver(s, n)
  BY <1>1, <1>2, <1>4, <1>7, BytesOfContent DEF Contract!Deliver
<1> QED BY <1>8, <1>9 DEF Contract!Next

LEMMA ReplyIsTold ==
    ASSUME TInv, NEW s \in Subs, Reply(s)
    PROVE  Contract!Next \/ Quiet
<1>1. /\ loop[s] = "reply" /\ UNCHANGED <<op, taken, target, written, got, stored, file>>
  BY DEF Reply, dataVars
<1>2. CASE unsubscribed[s]
  BY <1>1, <1>2 DEF Reply, Quiet
<1>3. CASE ~unsubscribed[s]
  <2> DEFINE what == IF failed[s] THEN "error" ELSE "completed"
  <2>1. outcome' = [outcome EXCEPT ![s] = what] /\ outcome[s] = "none"
    BY <1>1, <1>3, Typed DEF Reply, LoopInv
  <2>2. ~failed[s] => IF op = "upload" THEN Files[s] # {} ELSE written[s] = Size
    BY <1>1, Typed DEF UploadInv, WrittenInv, Files
  <2>3. Contract!Tell(s, what)
    BY <1>1, <2>1, <2>2 DEF Contract!Tell, Files
  <2> QED BY <2>3 DEF Contract!Next
<1> QED BY <1>2, <1>3

LEMMA StepTransferContract == TInv /\ [Next]_vars => [Contract!Next]_(Contract!vars)
<1> SUFFICES ASSUME TInv, [Next]_vars PROVE Contract!Next \/ Quiet
  BY QuietUnnoticed
<1>1. CASE UNCHANGED vars
  BY <1>1 DEF vars, dataVars, Quiet
<1>2. CASE Next
  BY <1>2, LoopIsQuiet, ChunksAreQuiet, ReadingIsQuiet, SourceIsDealt, FileIsWrittenOnce,
     DestinationTakesItsNext, ReplyIsTold
     DEF Next, UploadFromStream, DownloadToStream, Upload, Download, Stream
<1> QED BY <1>1, <1>2

\* However many subscribers share one stream and however their loops
\* interleave: a byte of a source goes to one upload and into one file at
\* most, a file does not change once it exists, a download neither skips nor
\* repeats a byte, and success is told for whole transfers only.
THEOREM TransfersKeepContract == Spec => KeepsTransferContract
<1>1. Init => Contract!Init
  BY DEF Init, Contract!Init
<1> QED BY <1>1, StepTransferContract, TransferInvariance, PTL
        DEF Spec, KeepsTransferContract, Contract!Spec
=============================================================================
