------------------------------ MODULE HttpRetry ------------------------------
(***************************************************************************)
(* One call of ManhattanSimulatorHttpClient._request with RetryPolicy.run: *)
(* up to max_attempts requests, one after the other, with a growing pause  *)
(* in between.  Timeouts, transport errors and 5xx answers are tried       *)
(* again, every other answer ends the call.  A request that has timed out  *)
(* is still on its way: the WMS may take it in later, next to its          *)
(* successors.                                                             *)
(*                                                                         *)
(* Requests are named by their attempt number.  Times are in units of the  *)
(* bound on the jitter, so that the jitter is 0 or 1.                      *)
(***************************************************************************)
EXTENDS Integers

CONSTANTS
    MaxAttempts,   \* RetryPolicy.max_attempts (3 in bootstrap.py)
    MaxDelay       \* max_delay_seconds / base_delay_seconds (8)

ASSUME RetryAssumption == MaxAttempts \in Nat \ {0} /\ MaxDelay \in Nat

VARIABLES
    pc,        \* "send", "wait", or how the call ended: "returned", "raised"
    attempt,   \* the loop variable of run()
    wire,      \* requests on their way to the WMS
    taken,     \* requests the WMS has taken in
    slept      \* time spent in time.sleep

vars == <<pc, attempt, wire, taken, slept>>

Init ==
    /\ pc = "send"
    /\ attempt = 1
    /\ wire = {}
    /\ taken = {}
    /\ slept = 0

Send ==
    /\ pc = "send"
    /\ pc' = "wait"
    /\ wire' = wire \cup {attempt}
    /\ UNCHANGED <<attempt, taken, slept>>

\* The network loses a request, or the WMS receives it and takes it in.
Arrive ==
    /\ \E r \in wire : /\ wire' = wire \ {r}
                       /\ taken' \in {taken, taken \cup {r}}
    /\ UNCHANGED <<pc, attempt, slept>>

\* A 2xx answer.
Succeed ==
    /\ pc = "wait"
    /\ attempt \in taken
    /\ pc' = "returned"
    /\ UNCHANGED <<attempt, wire, taken, slept>>

\* Mutant of Refuse: raise_for_status is not called.
Refuse_Returned ==
    /\ pc = "wait"
    /\ attempt \in wire
    /\ wire' = wire \ {attempt}
    /\ pc' = "returned"
    /\ UNCHANGED <<attempt, taken, slept>>

\* A 3xx or 4xx answer: run() returns it, and raise_for_status raises.  It may
\* follow a request of the same call that was taken in.
Refuse ==
    /\ pc = "wait"
    /\ attempt \in wire
    /\ wire' = wire \ {attempt}
    /\ pc' = "raised"
    /\ UNCHANGED <<attempt, taken, slept>>

\* An answer that httpx cannot read: an HTTPError that is not tried again.
BrokenAnswer ==
    /\ pc = "wait"
    /\ attempt \in taken
    /\ pc' = "raised"
    /\ UNCHANGED <<attempt, wire, taken, slept>>

\* Mutant of Delay: the pause has no upper limit.
Delay_Uncapped(jitter) == 2 ^ (attempt - 1) + jitter

Delay(jitter) ==
    LET delay == 2 ^ (attempt - 1) + jitter IN IF delay > MaxDelay THEN MaxDelay ELSE delay

\* Mutant of RetryOrRaise: a failed request does not count as an attempt.
RetryOrRaise_NotCounted ==
    /\ pc' = "send"
    /\ \E jitter \in 0 .. 1 : slept' = slept
    /\ UNCHANGED attempt

\* The except branch of run().
RetryOrRaise ==
    IF attempt = MaxAttempts
    THEN pc' = "raised" /\ UNCHANGED <<attempt, slept>>
    ELSE /\ pc' = "send"
         /\ attempt' = attempt + 1
         /\ \E jitter \in 0 .. 1 : slept' = slept + Delay(jitter)

\* A 5xx answer to a request that was taken in, or was not.
ServerError ==
    /\ pc = "wait"
    /\ attempt \notin wire
    /\ RetryOrRaise
    /\ UNCHANGED <<wire, taken>>

\* A timeout or a transport error, wherever the request is by now.
NoAnswer ==
    /\ pc = "wait"
    /\ RetryOrRaise
    /\ UNCHANGED <<wire, taken>>

ClientStep == Send \/ Succeed \/ Refuse \/ BrokenAnswer \/ ServerError \/ NoAnswer

Next == ClientStep \/ Arrive

Spec == Init /\ [][Next]_vars

\* The loop goes on, and a request that gets no answer times out.
FairSpec == Spec /\ WF_vars(ClientStep)

-----------------------------------------------------------------------------
\* Types; only requests that were sent are on their way or taken in, and none
\* is both.  How long the daemon, which does nothing else meanwhile, sleeps in
\* one call is bounded: each pause is limited, and there is one per retry.
TypeOK ==
    /\ pc \in {"send", "wait", "returned", "raised"}
    /\ attempt \in 1 .. MaxAttempts
    /\ wire \cup taken \subseteq 1 .. IF pc = "send" THEN attempt - 1 ELSE attempt
    /\ wire \cap taken = {}
    /\ slept \in 0 .. (MaxAttempts - 1) * MaxDelay

\* The call as order processing sees it.
Outcome == IF pc \in {"returned", "raised"} THEN pc ELSE "open"
Sent == 1 .. IF pc = "send" THEN attempt - 1 ELSE attempt
Call == INSTANCE SubmitCall
    WITH Requests <- 1 .. MaxAttempts, outcome <- Outcome, sent <- Sent,
         loose <- wire, taken <- taken

\* The retry loop implements the submit call that order processing relies on:
\* it returns only when the WMS has taken the enrichment in, and sends nothing
\* more once it has ended, so that at most max_attempts requests are taken in.
ImplementsSubmitCall == Call!Spec

\* The call ends, whatever the WMS and the network do.
CallEnds == Call!Ends
=============================================================================
