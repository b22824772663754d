---------------------------- MODULE EventDelivery ----------------------------
(***************************************************************************)
(* What the transactional outbox promises to those who consume the events: *)
(* an event stays once it is committed, it is taken in by the sink only    *)
(* after that, it may be taken in and still count as failed, but never     *)
(* counts as published without having been taken in, and once it is        *)
(* settled it does not wait again.                                         *)
(***************************************************************************)
CONSTANT Messages    \* events, by message id

VARIABLES
    row,         \* [Messages -> status], "ABSENT" before the event is committed
    accepted     \* events the sink has taken in

vars == <<row, accepted>>

Settled == {"PUBLISHED", "FAILED"}

Init ==
    /\ row = [m \in Messages |-> "ABSENT"]
    /\ accepted = {}

CommitEvent(m) ==
    /\ row[m] = "ABSENT"
    /\ row' = [row EXCEPT ![m] = "PENDING"]
    /\ UNCHANGED accepted

Accept(m) ==
    /\ row[m] # "ABSENT"
    /\ accepted' = accepted \cup {m}
    /\ UNCHANGED row

\* Any number of events at once, as a publisher commits them.
Settle ==
    /\ row' = [m \in Messages |-> row'[m]]
    /\ \A m \in Messages : row'[m] # row[m] =>
          /\ row[m] # "ABSENT"
          /\ row'[m] \in Settled
          /\ row'[m] = "PUBLISHED" => m \in accepted
    /\ UNCHANGED accepted

Next == Settle \/ \E m \in Messages : CommitEvent(m) \/ Accept(m)

Spec == Init /\ [][Next]_vars
=============================================================================
