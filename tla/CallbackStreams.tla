-------------------------- MODULE CallbackStreams --------------------------
(***************************************************************************)
(* GridFSAsyncStreamHelper: streams seen from both sides.                  *)
(*                                                                         *)
(* GridFS of the callback driver reads from and writes to streams whose    *)
(* read, write and close take a callback.  An application gives it streams *)
(* whose methods return Observables; toCallbackAsyncInputStream and        *)
(* toCallbackAsyncOutputStream subscribe to those and call the callback    *)
(* when they end.  Such a stream may itself be a callback stream, wrapped  *)
(* by toAsyncInputStream or toAsyncOutputStream (AsyncStreamHelper), so    *)
(* that a call passes through both conversions:                            *)
(*                                                                         *)
(*   callback <- Subscriber <- Observable <- voidToSuccess <- callback     *)
(*                                                                         *)
(* Several calls may be under way at once, on threads of their own.  Every *)
(* call has a Subscriber of its own; the Subscriber is wrapped by rx in a  *)
(* SafeSubscriber, which ends at the first terminal event.                 *)
(***************************************************************************)
EXTENDS Integers, Sequences

CONSTANTS
    Calls,          \* calls of the callback stream, in any order
    MaxCount,       \* bound: bytes one call transfers
    MaxEvents       \* bound: events of an application's own Observable

ASSUME StreamsAssumption == MaxCount \in Nat \ {0} /\ MaxEvents \in Nat

-----------------------------------------------------------------------------
\* Results: a number of bytes (-1 at the end of the stream), Success, or null.
EOF == -1
Null == -2
SUCCESS == -3
Counts == EOF..MaxCount

\* What a callback is called with.
Args(res, err) == [result |-> res, error |-> err]

NextEvent(v)   == [type |-> "next", value |-> v]
ErrorEvent     == [type |-> "error", value |-> Null]
CompletedEvent == [type |-> "completed", value |-> Null]

VARIABLES
    wrapper,    \* the stream is a callback stream wrapped by toAsync...Stream
    kind,       \* of each call: "none" until it is made; "read", "write", "close"
    threw,      \* the call threw instead
    inner,      \* the inner callback stream's answer to it, once there is one
    pending,    \* what the call's Observable has yet to deliver
    result,     \* the field `result` of the call's Subscriber
    done,       \* SafeSubscriber.done
    answers,    \* what the call's callback was called with, each time
    sent        \* history: events the Observable has delivered

vars == <<wrapper, kind, threw, inner, pending, result, done, answers, sent>>

Init ==
    /\ wrapper \in BOOLEAN
    /\ kind = [c \in Calls |-> "none"]
    /\ threw = [c \in Calls |-> FALSE]
    /\ inner = [c \in Calls |-> <<>>]
    /\ pending = [c \in Calls |-> <<>>]
    /\ result = [c \in Calls |-> Null]
    /\ done = [c \in Calls |-> FALSE]
    /\ answers = [c \in Calls |-> <<>>]
    /\ sent = [c \in Calls |-> <<>>]

-----------------------------------------------------------------------------
(***************************************************************************)
(* A call: wrapped.read(dst).subscribe(new Subscriber).  The exception of  *)
(* an application's own method goes to the caller; that of a wrapped       *)
(* callback stream comes out of request, and the bridge turns it into an   *)
(* error of the Observable.                                                *)
(***************************************************************************)
Call(c, k) ==
    /\ kind[c] = "none"
    /\ kind' = [kind EXCEPT ![c] = k]
    /\ \/ UNCHANGED <<threw, inner, pending>>
       \/ /\ ~wrapper
          /\ threw' = [threw EXCEPT ![c] = TRUE]
          /\ UNCHANGED <<inner, pending>>
       \/ /\ wrapper
          /\ inner' = [inner EXCEPT ![c] = <<Args(Null, TRUE)>>]
          /\ pending' = [pending EXCEPT ![c] = <<ErrorEvent>>]
          /\ UNCHANGED threw
    /\ UNCHANGED <<wrapper, result, done, answers, sent>>

Read(c)  == Call(c, "read")
Write(c) == Call(c, "write")
Close(c) == Call(c, "close")

\* What a method's Observable can emit.
Values(k) == IF k = "close" THEN {SUCCESS} ELSE Counts

\* mutant: the error of a void operation is not passed on
VoidToSuccessDropsError(args) == Args(SUCCESS, FALSE)

VoidToSuccess(args) == Args(SUCCESS, args.error)

\* Observables.observe (external): an error goes before a result, a null
\* result is an empty sequence.
Sequence(args) ==
    IF args.error THEN <<ErrorEvent>>
    ELSE IF args.result = Null THEN <<CompletedEvent>>
    ELSE <<NextEvent(args.result), CompletedEvent>>

\* The inner stream answers the callback that toAsyncInputStream or
\* toAsyncOutputStream passed to it.
InnerAnswers(c) ==
    /\ wrapper /\ kind[c] # "none" /\ inner[c] = <<>>
    /\ \E args \in IF kind[c] = "close"
                   THEN {Args(Null, FALSE), Args(Null, TRUE)}
                   ELSE {Args(n, FALSE) : n \in Counts} \cup {Args(Null, TRUE)} :
        /\ inner' = [inner EXCEPT ![c] = <<args>>]
        /\ pending' = [pending EXCEPT ![c] =
                Sequence(IF kind[c] = "close" THEN VoidToSuccess(args) ELSE args)]
    /\ UNCHANGED <<wrapper, kind, threw, result, done, answers, sent>>

\* The application's own Observable emits what it likes, when it likes; it
\* may even go on after it ended.
SourceEmits(c) ==
    /\ ~wrapper /\ kind[c] # "none" /\ ~threw[c]
    /\ pending[c] = <<>> /\ Len(sent[c]) < MaxEvents
    /\ \E e \in {NextEvent(v) : v \in Values(kind[c])} \cup {ErrorEvent, CompletedEvent} :
        pending' = [pending EXCEPT ![c] = <<e>>]
    /\ UNCHANGED <<wrapper, kind, threw, inner, result, done, answers, sent>>

-----------------------------------------------------------------------------
(***************************************************************************)
(* The Subscriber of a call.                                               *)
(***************************************************************************)

\* The Observable delivers its next event.
Deliver(c, type) ==
    /\ pending[c] # <<>>
    /\ Head(pending[c]).type = type
    /\ pending' = [pending EXCEPT ![c] = Tail(@)]
    /\ sent' = [sent EXCEPT ![c] = Append(@, Head(pending[c]))]
    /\ UNCHANGED <<wrapper, kind, threw, inner>>

\* mutant: the field belongs to the stream instead of the call
OnNextShared(c) ==
    /\ Deliver(c, "next")
    /\ result' = IF done[c] \/ kind[c] = "close" THEN result
                 ELSE [d \in Calls |-> Head(pending[c]).value]
    /\ UNCHANGED <<done, answers>>

\* mutant: close keeps its Success like a number of bytes
OnNextKeepsSuccess(c) ==
    /\ Deliver(c, "next")
    /\ result' = IF done[c] THEN result ELSE [result EXCEPT ![c] = Head(pending[c]).value]
    /\ UNCHANGED <<done, answers>>

\* mutant: the callback is called with every result
OnNextAnswers(c) ==
    /\ Deliver(c, "next")
    /\ answers' = IF done[c] THEN answers
                  ELSE [answers EXCEPT ![c] = Append(@, Args(Head(pending[c]).value, FALSE))]
    /\ UNCHANGED <<done, result>>

\* result = integer; the Subscriber of close ignores the Success.
OnNext(c) ==
    /\ Deliver(c, "next")
    /\ result' = IF done[c] \/ kind[c] = "close" THEN result
                 ELSE [result EXCEPT ![c] = Head(pending[c]).value]
    /\ UNCHANGED <<done, answers>>

\* mutant: an error ends the call like a completion
OnErrorForgiven(c) ==
    /\ Deliver(c, "error")
    /\ done' = [done EXCEPT ![c] = TRUE]
    /\ answers' = IF done[c] THEN answers
                  ELSE [answers EXCEPT ![c] = Append(@, Args(result[c], FALSE))]
    /\ UNCHANGED result

\* mutant: the callback is not called with an error
OnErrorKeepsSilent(c) ==
    /\ Deliver(c, "error")
    /\ done' = [done EXCEPT ![c] = TRUE]
    /\ UNCHANGED <<answers, result>>

\* callback.onResult(null, e)
OnError(c) ==
    /\ Deliver(c, "error")
    /\ done' = [done EXCEPT ![c] = TRUE]
    /\ answers' = IF done[c] THEN answers
                  ELSE [answers EXCEPT ![c] = Append(@, Args(Null, TRUE))]
    /\ UNCHANGED result

\* mutant: no result, no callback
OnCompletedNeedsResult(c) ==
    /\ Deliver(c, "completed")
    /\ done' = [done EXCEPT ![c] = TRUE]
    /\ answers' = IF done[c] \/ result[c] = Null THEN answers
                  ELSE [answers EXCEPT ![c] = Append(@, Args(result[c], FALSE))]
    /\ UNCHANGED result

\* callback.onResult(result, null): null when there was none, and for close.
OnCompleted(c) ==
    /\ Deliver(c, "completed")
    /\ done' = [done EXCEPT ![c] = TRUE]
    /\ answers' = IF done[c] THEN answers
                  ELSE [answers EXCEPT ![c] = Append(@, Args(result[c], FALSE))]
    /\ UNCHANGED result

-----------------------------------------------------------------------------
Subscriber(c) == OnNext(c) \/ OnError(c) \/ OnCompleted(c)

Next ==
    \E c \in Calls :
        \/ Read(c) \/ Write(c) \/ Close(c)
        \/ InnerAnswers(c)
        \/ SourceEmits(c)
        \/ Subscriber(c)

Spec == Init /\ [][Next]_vars

\* A wrapped callback stream answers every call, and its Observable delivers
\* the answer (it is requested without limit).  An application's own
\* Observable may never end.
Fairness == \A c \in Calls : WF_vars(InnerAnswers(c)) /\ WF_vars(Subscriber(c))

FairSpec == Spec /\ Fairness

-----------------------------------------------------------------------------
Results == Counts \cup {Null, SUCCESS}
Answer  == [result : Results, error : BOOLEAN]
Event   == [type : {"next", "error", "completed"}, value : Results]

TypeOK ==
    /\ wrapper \in BOOLEAN
    /\ kind \in [Calls -> {"none", "read", "write", "close"}]
    /\ threw \in [Calls -> BOOLEAN]
    /\ done \in [Calls -> BOOLEAN]
    /\ result \in [Calls -> Counts \cup {Null}]
    /\ inner \in [Calls -> Seq(Answer)] /\ answers \in [Calls -> Seq(Answer)]
    /\ pending \in [Calls -> Seq(Event)] /\ sent \in [Calls -> Seq(Event)]

\* GridFS goes on with its loop when a callback is called, so a call is
\* answered at most once, and not at all if it threw, even by an Observable
\* that goes on after its end.
AnsweredAtMostOnce ==
    \A c \in Calls : Len(answers[c]) <= IF threw[c] THEN 0 ELSE 1

\* The answer to a call is what its own Observable said, whatever is under way
\* for other calls: its error, or the last result before its end.
AnswerIsOwn ==
    \A c \in Calls : answers[c] # <<>> =>
        \E n \in DOMAIN sent[c] :
            /\ \A i \in 1..(n - 1) : sent[c][i].type = "next"
            /\ sent[c][n].type # "next"
            /\ answers[c] = << IF sent[c][n].type = "error" THEN Args(Null, TRUE)
                               ELSE Args(IF n = 1 \/ kind[c] = "close" THEN Null
                                         ELSE sent[c][n - 1].value, FALSE) >>

\* Two conversions are none: a wrapped callback stream answers as if GridFS
\* had called it directly.
RoundTrip ==
    \A c \in Calls : wrapper /\ answers[c] # <<>> => answers[c] = inner[c]

\* ... and answers every call, the void ones too.
EveryCallIsAnswered ==
    \A c \in Calls : wrapper /\ kind[c] # "none" ~> answers[c] # <<>>
=============================================================================
