------------------------- MODULE ObservableContract -------------------------
(***************************************************************************)
(* What an application may rely on when it subscribes to an Observable of  *)
(* this API, whatever happens below: the state is only what the            *)
(* application itself did (asked, cancelled) and saw (nexts, outcome).     *)
(***************************************************************************)
EXTENDS Naturals

CONSTANTS
    MaxLong,    \* what a subscriber that never calls request asks for
    Results,    \* the numbers of results an operation may have
    Prefetches  \* BOOLEAN: whether an adapter asks for results by itself

VARIABLES
    asked,      \* results requested so far
    cancelled,  \* the subscriber is unsubscribed
    started,    \* the operation has been sent to the server
    total,      \* the results the operation has, once it is started
    nexts,      \* onNext calls seen
    outcome,    \* "none", "error" or "completed"
    late        \* the calls that crossed with the unsubscribe

vars == <<asked, cancelled, started, total, nexts, outcome, late>>

Init ==
    /\ asked = 0 /\ cancelled = FALSE /\ started = FALSE
    /\ total \in Results
    /\ nexts = 0 /\ outcome = "none" /\ late = 0

\* The application asks for more, or for everything by not asking at all.
Request ==
    /\ \/ asked' > asked
       \/ asked' = MaxLong
    /\ UNCHANGED <<cancelled, started, total, nexts, outcome, late>>

Cancel ==
    /\ cancelled' = TRUE
    /\ UNCHANGED <<asked, started, total, nexts, outcome, late>>

\* The operation runs once, and only for somebody who asked for something,
\* unless an adapter asks on its own account.  What it finds is settled then.
Wanted == asked > 0 \/ Prefetches

Start ==
    /\ ~started
    /\ Wanted
    /\ outcome = "none"
    /\ started' = TRUE
    /\ total' \in Results
    /\ UNCHANGED <<asked, cancelled, nexts, outcome, late>>

\* A call may cross with an unsubscribe, a second one does not follow it.
Cross ==
    /\ cancelled => late = 0
    /\ late' = IF cancelled THEN 1 ELSE late

NextResult ==
    /\ started
    /\ outcome = "none"
    /\ nexts < asked
    /\ nexts < total
    /\ nexts' = nexts + 1
    /\ Cross
    /\ UNCHANGED <<asked, cancelled, started, total, outcome>>

\* The application refuses a result by throwing: that ends the sequence too.
RefusedResult ==
    /\ started
    /\ outcome = "none"
    /\ nexts < asked
    /\ nexts < total
    /\ nexts' = nexts + 1
    /\ outcome' = "error"
    /\ cancelled' = TRUE
    /\ Cross
    /\ UNCHANGED <<asked, started, total>>

\* The sequence ends, perhaps unsubscribing the subscriber with it.  There is
\* no end before somebody asked, and without the operation only an error.
Finish ==
    /\ outcome = "none"
    /\ \/ outcome' = "completed" /\ started /\ nexts = total
       \/ outcome' = "error" /\ (started \/ Wanted)
    /\ Cross
    /\ cancelled' \in {cancelled, TRUE}
    /\ UNCHANGED <<asked, started, total, nexts>>

Next == Request \/ Cancel \/ Start \/ NextResult \/ RefusedResult \/ Finish

\* Whoever stays subscribed and has asked for more than was delivered so far
\* gets another result or the end.
Fairness ==
    /\ WF_vars(~cancelled /\ Start)
    /\ WF_vars(~cancelled /\ nexts < asked /\ (NextResult \/ Finish))

Safety == Init /\ [][Next]_vars

Spec == Safety /\ Fairness
=============================================================================
