-------------------------- MODULE TransferContract --------------------------
(***************************************************************************)
(* What an application may rely on when several subscribers transfer with  *)
(* one stream.  An uploaded source is dealt out: each of its bytes goes to *)
(* one upload, in the source's order, and a file is written once, for an   *)
(* upload that saw the source to its end, with all that upload was dealt.  *)
(* A destination takes each download's bytes in the file's order, none of  *)
(* them twice.  Success is told for a whole transfer only.                 *)
(***************************************************************************)
EXTENDS Naturals, Sequences

CONSTANTS Subs, Size

VARIABLES
    op,         \* "upload" or "download"
    taken,      \* bytes the source has handed out
    dealt,      \* upload: the bytes each subscription was dealt
    file,       \* upload: its file, as a set of at most one sequence of bytes
    target,     \* download: what the destination has received
    written,    \* download: how much of the file each subscription has written
    outcome     \* what each subscriber was told at the end

vars == <<op, taken, dealt, file, target, written, outcome>>

\* The next n bytes after the first k, of a source or a stored file.
Bytes(k, n) == SubSeq([i \in 1..Size |-> i], k + 1, k + n)

Init ==
    /\ op \in {"upload", "download"}
    /\ taken = 0 /\ target = <<>>
    /\ dealt = [s \in Subs |-> <<>>]
    /\ file = [s \in Subs |-> {}]
    /\ written = [s \in Subs |-> 0]
    /\ outcome = [s \in Subs |-> "none"]

Deal(s, n) ==
    /\ op = "upload" /\ outcome[s] = "none" /\ file[s] = {}
    /\ taken' = taken + n
    /\ dealt' = [dealt EXCEPT ![s] = @ \o Bytes(taken, n)]
    /\ UNCHANGED <<op, file, target, written, outcome>>

WriteFile(s) ==
    /\ op = "upload" /\ outcome[s] = "none" /\ file[s] = {}
    /\ taken = Size
    /\ file' = [file EXCEPT ![s] = {dealt[s]}]
    /\ UNCHANGED <<op, taken, dealt, target, written, outcome>>

Deliver(s, n) ==
    /\ op = "download" /\ outcome[s] = "none"
    /\ target' = target \o Bytes(written[s], n)
    /\ written' = [written EXCEPT ![s] = @ + n]
    /\ UNCHANGED <<op, taken, dealt, file, outcome>>

\* An error may be told of any transfer, even of one that was carried out.
Tell(s, what) ==
    /\ outcome[s] = "none"
    /\ what = "completed" => IF op = "upload" THEN file[s] # {} ELSE written[s] = Size
    /\ outcome' = [outcome EXCEPT ![s] = what]
    /\ UNCHANGED <<op, taken, dealt, file, target, written>>

Next ==
    \E s \in Subs :
        \/ \E n \in 1..(Size - taken) : Deal(s, n)
        \/ WriteFile(s)
        \/ \E n \in 1..(Size - written[s]) : Deliver(s, n)
        \/ \E what \in {"error", "completed"} : Tell(s, what)

Spec == Init /\ [][Next]_vars
=============================================================================
