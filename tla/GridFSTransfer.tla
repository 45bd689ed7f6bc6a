--------------------------- MODULE GridFSTransfer ---------------------------
(***************************************************************************)
(* uploadFromStream and downloadToStream of GridFSBucketImpl, from the     *)
(* subscription to the last byte.                                          *)
(*                                                                         *)
(* The Observable's Block converts the application's stream and starts a   *)
(* loop of the callback driver, which has one call of the converted stream *)
(* under way at a time: an upload reads until the end of the source and    *)
(* stores chunks, then the files document; a download writes the file's    *)
(* bytes to the destination.  The calls and their answers are those of     *)
(* CallbackStreams, instantiated here with one call per turn of a loop.    *)
(*                                                                         *)
(* Several subscribers (a retry among them) share the Observable and with  *)
(* it the stream; every subscription starts a loop of its own.  The loop   *)
(* is not told when its subscriber unsubscribes.  Bytes are numbered.      *)
(***************************************************************************)
EXTENDS Integers, Sequences, SequencesExt

CONSTANTS
    Subs,       \* subscribers of the Observable
    Size,       \* bytes of the source, or of the stored file
    MaxCount    \* bound: bytes one call transfers

ASSUME TransferAssumption == Size \in Nat /\ MaxCount \in Nat \ {0}

Calls == Subs \X (1..(Size + 1))
Content == [i \in 1..Size |-> i]

VARIABLES
    wrapper, kind, threw, inner, pending, result, done, answers, sent,

    op,           \* "upload" or "download": what the Observable was made by
    loop,         \* where each subscription's loop is
    calls,        \* calls of the converted stream it has made
    buffer,       \* the ByteBuffer of the current turn
    got,          \* history: bytes the loop's buffers were filled with
    taken,        \* upload: bytes the source has handed out
    stored,       \* upload: the chunks under the subscription's file id
    file,         \* upload: its files document exists
    target,       \* download: what the destination has received
    written,      \* history: the bytes of it each subscription's loop has written
    amount,       \* download: bytes the loop has counted as written
    failed,       \* the loop ended with an error
    unsubscribed,
    outcome       \* what the subscriber was told at the end

streamVars == <<wrapper, kind, threw, inner, pending, result, done, answers, sent>>
dataVars   == <<buffer, got, taken, stored, file, target, written, amount>>
vars == <<streamVars, op, loop, calls, dataVars, failed, unsubscribed, outcome>>

Streams == INSTANCE CallbackStreams WITH MaxEvents <- 2

Init ==
    /\ Streams!Init
    /\ op \in {"upload", "download"}
    /\ loop = [s \in Subs |-> "idle"]
    /\ calls = [s \in Subs |-> 0]
    /\ buffer = [s \in Subs |-> <<>>]
    /\ got = [s \in Subs |-> <<>>]
    /\ taken = 0
    /\ stored = [s \in Subs |-> <<>>]
    /\ file = [s \in Subs |-> FALSE]
    /\ target = <<>>
    /\ written = [s \in Subs |-> 0]
    /\ amount = [s \in Subs |-> 0]
    /\ failed = [s \in Subs |-> FALSE]
    /\ unsubscribed = [s \in Subs |-> FALSE]
    /\ outcome = [s \in Subs |-> "none"]

\* The loop of s moves on; ok says whether it is still without an error.
Go(s, place) == loop' = [loop EXCEPT ![s] = place] /\ UNCHANGED failed
Fail(s, place) ==
    /\ loop' = [loop EXCEPT ![s] = place]
    /\ failed' = [failed EXCEPT ![s] = TRUE]

\* The call under way, and its answer.
Current(s) == <<s, calls[s]>>
Answer(s) == answers[Current(s)][1]

-----------------------------------------------------------------------------
(***************************************************************************)
(* Starting: the first request runs the Block.                             *)
(***************************************************************************)
Start(s) ==
    /\ loop[s] = "idle"
    /\ ~unsubscribed[s]
    /\ Go(s, "next")
    /\ UNCHANGED <<streamVars, op, calls, dataVars, unsubscribed, outcome>>

UploadFromStream(s) == op = "upload" /\ Start(s)
DownloadToStream(s) == op = "download" /\ Start(s)

\* Unsubscribing leaves the loop alone.
Unsubscribe(s) ==
    /\ ~unsubscribed[s]
    /\ unsubscribed' = [unsubscribed EXCEPT ![s] = TRUE]
    /\ UNCHANGED <<streamVars, op, loop, calls, dataVars, failed, outcome>>

-----------------------------------------------------------------------------
(***************************************************************************)
(* The application's stream.  It keeps to its contract: a single element,  *)
(* or an error, which may come after the bytes have moved.                 *)
(***************************************************************************)

\* A call is made with this turn's buffer.
MakeCall(s) ==
    /\ calls' = [calls EXCEPT ![s] = @ + 1]
    /\ Go(s, "wait")
    /\ UNCHANGED threw      \* a stream reports its failures by its Observable

\* The stream's answer to the call of s is the number n.
Emits(s, n) ==
    LET c == Current(s)
    IN  \/ wrapper /\ Streams!InnerAnswers(c) /\ inner'[c] = << Streams!Args(n, FALSE) >>
        \/ /\ sent[c] = <<>>
           /\ Streams!SourceEmits(c)
           /\ pending'[c] = << Streams!NextEvent(n) >>

\* The source fills the buffer, or is at its end.
SourceReads(s) ==
    /\ op = "upload" /\ loop[s] = "wait"
    /\ IF taken = Size
       THEN Emits(s, Streams!EOF) /\ UNCHANGED <<buffer, got, taken>>
       ELSE \E n \in 1..MaxCount :
                /\ taken + n <= Size
                /\ Emits(s, n)
                /\ LET bytes == SubSeq(Content, taken + 1, taken + n)
                   IN  /\ buffer' = [buffer EXCEPT ![s] = bytes]
                       /\ got' = [got EXCEPT ![s] = @ \o bytes]
                /\ taken' = taken + n
    /\ UNCHANGED <<op, loop, calls, stored, file, target, written, amount, failed,
                   unsubscribed, outcome>>

\* The destination takes the buffer.
DestinationWrites(s) ==
    /\ op = "download" /\ loop[s] = "wait"
    /\ Emits(s, Len(buffer[s]))
    /\ target' = target \o buffer[s]
    /\ written' = [written EXCEPT ![s] = @ + Len(buffer[s])]
    /\ UNCHANGED <<op, loop, calls, buffer, got, taken, stored, file, amount, failed,
                   unsubscribed, outcome>>

StreamEnds(s) ==
    LET c == Current(s)
    IN  /\ loop[s] = "wait"
        /\ \/ wrapper /\ Streams!InnerAnswers(c) /\ inner'[c][1].error
           \/ Streams!SourceEmits(c) /\ pending'[c] = << Streams!ErrorEvent >> /\ ~done[c]
           \/ Streams!SourceEmits(c) /\ pending'[c] = << Streams!CompletedEvent >>
              /\ Len(sent[c]) = 1 /\ ~done[c]
        /\ UNCHANGED <<op, loop, calls, dataVars, failed, unsubscribed, outcome>>

\* The converted stream's Subscriber, which calls the loop's callback.
Callback(s) ==
    /\ loop[s] = "wait"
    /\ Streams!Subscriber(Current(s))
    /\ UNCHANGED <<op, loop, calls, dataVars, failed, unsubscribed, outcome>>

-----------------------------------------------------------------------------
(***************************************************************************)
(* The upload loop (external).                                             *)
(***************************************************************************)
ReadSource(s) ==
    /\ op = "upload" /\ loop[s] = "next"
    /\ Streams!Read(<<s, calls[s] + 1>>)
    /\ MakeCall(s)
    /\ buffer' = [buffer EXCEPT ![s] = <<>>]
    /\ UNCHANGED <<op, got, taken, stored, file, target, written, amount, unsubscribed,
                   outcome>>

\* An error aborts the upload, the end of the source closes it, anything else
\* is stored.
UploadContinues(s) ==
    /\ op = "upload" /\ loop[s] = "wait"
    /\ answers[Current(s)] # <<>>
    /\ IF Answer(s).error THEN Fail(s, "abort")
       ELSE Go(s, IF Answer(s).result = Streams!EOF THEN "close" ELSE "store")
    /\ UNCHANGED <<streamVars, op, calls, dataVars, unsubscribed, outcome>>

StoreChunk(s) ==
    /\ op = "upload" /\ loop[s] = "store"
    /\ \/ Go(s, "next") /\ stored' = [stored EXCEPT ![s] = @ \o buffer[s]]
       \/ \E place \in {"abort", "reply"} : Fail(s, place) /\ UNCHANGED stored
    /\ UNCHANGED <<streamVars, op, calls, buffer, got, taken, file, target, written, amount,
                   unsubscribed, outcome>>

\* The files document; the connection may fail after it was written.
CloseFile(s) ==
    /\ loop[s] = "close"
    /\ \/ Go(s, "reply") /\ file' = [file EXCEPT ![s] = TRUE]
       \/ Fail(s, "reply") /\ \E exists \in BOOLEAN : file' = [file EXCEPT ![s] = exists]
    /\ UNCHANGED <<streamVars, op, calls, buffer, got, taken, stored, target, written, amount,
                   unsubscribed, outcome>>

\* The chunks are deleted, if the connection allows it.
AbortFile(s) ==
    /\ loop[s] = "abort"
    /\ Go(s, "reply")
    /\ stored' \in {stored, [stored EXCEPT ![s] = <<>>]}
    /\ UNCHANGED <<streamVars, op, calls, buffer, got, taken, file, target, written, amount,
                   unsubscribed, outcome>>

-----------------------------------------------------------------------------
(***************************************************************************)
(* The download loop (external).                                           *)
(***************************************************************************)
ReadChunk(s) ==
    /\ op = "download" /\ loop[s] = "next"
    /\ \/ /\ Len(got[s]) < Size
          /\ \E n \in 1..MaxCount :
                LET bytes == SubSeq(Content, Len(got[s]) + 1, Len(got[s]) + n)
                IN  /\ Len(got[s]) + n <= Size
                    /\ buffer' = [buffer EXCEPT ![s] = bytes]
                    /\ got' = [got EXCEPT ![s] = @ \o bytes]
          /\ Go(s, "store")
       \/ Len(got[s]) = Size /\ Go(s, "reply") /\ UNCHANGED <<buffer, got>>
       \/ Fail(s, "reply") /\ UNCHANGED <<buffer, got>>
    /\ UNCHANGED <<streamVars, op, calls, taken, stored, file, target, written, amount,
                   unsubscribed, outcome>>

WriteDestination(s) ==
    /\ op = "download" /\ loop[s] = "store"
    /\ Streams!Write(<<s, calls[s] + 1>>)
    /\ MakeCall(s)
    /\ UNCHANGED <<op, dataVars, unsubscribed, outcome>>

DownloadContinues(s) ==
    /\ op = "download" /\ loop[s] = "wait"
    /\ answers[Current(s)] # <<>>
    /\ IF Answer(s).error
       THEN Fail(s, "reply") /\ UNCHANGED amount
       ELSE Go(s, "next") /\ amount' = [amount EXCEPT ![s] = @ + Answer(s).result]
    /\ UNCHANGED <<streamVars, op, calls, buffer, got, taken, stored, file, target, written,
                   unsubscribed, outcome>>

-----------------------------------------------------------------------------
\* mutant: the callback of the loop reports success whatever it is given
ReplyDropsError(s) ==
    /\ loop[s] = "reply"
    /\ Go(s, "over")
    /\ outcome' = IF unsubscribed[s] THEN outcome ELSE [outcome EXCEPT ![s] = "completed"]
    /\ UNCHANGED <<streamVars, op, calls, dataVars, unsubscribed>>

\* The loop's callback: an id, a Success or an amount, or the error; the
\* bridge passes it on to a subscriber that is still there.
Reply(s) ==
    /\ loop[s] = "reply"
    /\ Go(s, "over")
    /\ outcome' = IF unsubscribed[s] THEN outcome
                  ELSE [outcome EXCEPT ![s] = IF failed[s] THEN "error" ELSE "completed"]
    /\ UNCHANGED <<streamVars, op, calls, dataVars, unsubscribed>>

Upload(s) == ReadSource(s) \/ UploadContinues(s) \/ StoreChunk(s) \/ CloseFile(s) \/ AbortFile(s)

Download(s) == ReadChunk(s) \/ WriteDestination(s) \/ DownloadContinues(s)

Stream(s) == SourceReads(s) \/ DestinationWrites(s) \/ StreamEnds(s)

Next ==
    \E s \in Subs :
        \/ UploadFromStream(s) \/ DownloadToStream(s)
        \/ Unsubscribe(s)
        \/ Upload(s) \/ Download(s) \/ Reply(s)
        \/ Stream(s) \/ Callback(s)

Spec == Init /\ [][Next]_vars

\* The driver answers (its timeouts) and its loop goes on; the application's
\* stream answers the calls it is given; a Subscriber runs when its Observable
\* delivers.  Nobody has to subscribe or unsubscribe.
Fairness ==
    \A s \in Subs : /\ WF_vars(Upload(s) \/ Download(s) \/ Reply(s))
                    /\ WF_vars(Stream(s))
                    /\ WF_vars(Callback(s))

FairSpec == Spec /\ Fairness

-----------------------------------------------------------------------------
Places == {"idle", "next", "wait", "store", "close", "abort", "reply", "over"}

TypeOK ==
    /\ Streams!TypeOK
    /\ op \in {"upload", "download"}
    /\ loop \in [Subs -> Places]
    /\ calls \in [Subs -> 0..(Size + 1)]
    /\ buffer \in [Subs -> Seq(1..Size)] /\ got \in [Subs -> Seq(1..Size)]
    /\ stored \in [Subs -> Seq(1..Size)]
    /\ taken \in 0..Size
    /\ file \in [Subs -> BOOLEAN]
    /\ target \in Seq(1..Size) /\ written \in [Subs -> 0..Size]
    /\ amount \in [Subs -> 0..Size]
    /\ failed \in [Subs -> BOOLEAN] /\ unsubscribed \in [Subs -> BOOLEAN]
    /\ outcome \in [Subs -> {"none", "error", "completed"}]

Alone(s) == \A t \in Subs \ {s} : loop[t] = "idle"

\* A file that exists holds every byte its own loop was given, in order, even
\* when another upload reads from the same source at the same time: neither
\* an answer meant for the other nor an error between two reads makes the
\* loop take a part for the whole.
FileIsWhatWasRead ==
    \A s \in Subs : file[s] => stored[s] = got[s]

\* A subscriber is told of success only when its file exists, and then it has
\* the whole source if nobody else read from it; or only when the destination
\* has the whole file, and the amount reported is its size.
SuccessIsWhole ==
    \A s \in Subs : outcome[s] = "completed" =>
        IF op = "upload"
        THEN file[s] /\ (Alone(s) => stored[s] = Content)
        ELSE amount[s] = Size /\ (Alone(s) => target = Content)

\* Whatever becomes of a download - an error, an unsubscribe - its destination
\* has the beginning of the file: no gap, nothing twice.
DestinationHasPrefix ==
    \A s \in Subs : Alone(s) => IsPrefix(target, Content)

\* With one stream between several subscribers no byte of a source reaches two
\* files or is lost between two reads, no file is changed once it exists, and
\* no download skips or repeats a byte, however the loops interleave.
Contract == INSTANCE TransferContract WITH
                dealt <- IF op = "upload" THEN got ELSE [s \in Subs |-> <<>>],
                file  <- [s \in Subs |-> IF file[s] THEN {stored[s]} ELSE {}]

KeepsTransferContract == Contract!Spec

\* An unsubscribed upload does not stay half done: every transfer that was
\* started comes to its end.
TransferEnds ==
    \A s \in Subs : loop[s] = "next" ~> loop[s] = "over"

\* GridFSBucket: uploadFromStream "uploads the contents of the given
\* AsyncInputStream" for every subscriber that is told of its success.
UploadsTheContents ==
    \A s \in Subs : op = "upload" /\ outcome[s] = "completed" => stored[s] = Content
=============================================================================
