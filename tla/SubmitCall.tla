----------------------------- MODULE SubmitCall -----------------------------
(***************************************************************************)
(* What order processing relies on when it calls                           *)
(* ExternalWmsPort.submit_enrichment: an answer means that the WMS has     *)
(* taken the enrichment in; an exception means nothing, and a request of   *)
(* the call may be taken in even after it.  HttpRetry implements this;     *)
(* OrderProcessing uses it with all the requests of a call seen as one     *)
(* (SubmitReturns, SubmitRaises, LateArrival).                             *)
(***************************************************************************)
CONSTANT Requests    \* the HTTP requests one call may send

VARIABLES
    outcome,   \* the call: "open", "returned" or "raised"
    sent,      \* requests sent
    loose,     \* requests on their way
    taken      \* requests the WMS has taken in

vars == <<outcome, sent, loose, taken>>

Init ==
    /\ outcome = "open"
    /\ sent = {}
    /\ loose = {}
    /\ taken = {}

\* Only a call under way sends requests.
Send ==
    /\ outcome = "open"
    /\ \E r \in Requests \ sent : /\ sent' = sent \cup {r}
                                  /\ loose' = loose \cup {r}
    /\ UNCHANGED <<outcome, taken>>

\* The network delivers a request, or loses it, at any time.
Arrive ==
    /\ \E r \in loose : /\ loose' = loose \ {r}
                        /\ taken' \in {taken, taken \cup {r}}
    /\ UNCHANGED <<outcome, sent>>

Return ==
    /\ outcome = "open"
    /\ taken # {}
    /\ outcome' = "returned"
    /\ UNCHANGED <<sent, loose, taken>>

\* The call gives up, for any reason; a request may be refused with it.
Raise ==
    /\ outcome = "open"
    /\ outcome' = "raised"
    /\ loose' \in SUBSET loose
    /\ UNCHANGED <<sent, taken>>

Next == Send \/ Arrive \/ Return \/ Raise

Spec == Init /\ [][Next]_vars

\* Every call ends.
Ends == <>(outcome # "open")
=============================================================================
