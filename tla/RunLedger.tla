------------------------------ MODULE RunLedger ------------------------------
(***************************************************************************)
(* What order processing promises to those who read its tables and the     *)
(* WMS, whatever daemons run, fail and crash: the result of a run is       *)
(* entered as a whole (attempt, event and, for a success, idempotency      *)
(* record), at most once, with the number that is due or one given before, *)
(* and nothing is entered that has not happened in the WMS.                *)
(***************************************************************************)
EXTENDS Naturals

CONSTANTS
    Orders,      \* orders of the WMS
    NoRow,       \* no idempotency record
    NoFields     \* nothing to send

VARIABLES
    applied,     \* enrichments in the WMS
    attempts,    \* attempts entered
    events,      \* events entered
    records      \* idempotency records: [Orders -> record or NoRow]

tables == <<attempts, events, records>>
vars == <<applied, tables>>

Init ==
    /\ applied = {}
    /\ attempts = {}
    /\ events = {}
    /\ records = [o \in Orders |-> NoRow]

\* The WMS takes in an enrichment.
Take ==
    /\ \E e \in applied' : applied' = applied \cup {e}
    /\ UNCHANGED tables

\* A run is entered once, under the number after one that is there, or the first.
Due(a) ==
    /\ \A b \in attempts : b.corr # a.corr
    /\ a.number = 1 \/ \E b \in attempts : b.order = a.order /\ b.number + 1 = a.number

\* The attempt and its event come together, and speak of the same run.
Enter(a, m, status, type) ==
    /\ attempts' = attempts \cup {a}
    /\ events' = events \cup {m}
    /\ Due(a)
    /\ a.status = status /\ m.type = type
    /\ m.order = a.order /\ m.id.corr = a.corr

\* The WMS holds what the record says was sent.
Backed(o, record) ==
    \/ record.hash.fields = NoFields
    \/ \E e \in applied : e.order = o /\ e.hash = record.hash

EnterSuccess ==
    /\ \E a \in attempts' \ attempts, m \in events' \ events :
         /\ Enter(a, m, "SUCCESS", "OrderEnrichmentSucceeded")
         /\ m.event = "NoRulesMatched" \/ \E e \in applied : e.order = a.order /\ e.corr = a.corr
         /\ records' = [records EXCEPT ![a.order] = records'[a.order]]
         /\ records'[a.order].corr = a.corr
         /\ Backed(a.order, records'[a.order])
    /\ UNCHANGED applied

EnterFailure ==
    /\ \E a \in attempts' \ attempts, m \in events' \ events :
         Enter(a, m, "FAILED", "OrderEnrichmentFailed")
    /\ UNCHANGED <<applied, records>>

Next == Take \/ EnterSuccess \/ EnterFailure

Spec == Init /\ [][Next]_vars
=============================================================================
