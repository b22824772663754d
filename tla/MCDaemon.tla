------------------------------ MODULE MCDaemon ------------------------------
(***************************************************************************)
(* Daemon for TLC: two orders.  Rules come and go that match one of them;  *)
(* the other always has a match.                                           *)
(***************************************************************************)
EXTENDS Daemon

CONSTANTS o1, o2, f1

Match(fields) == [matched |-> TRUE, fields |-> fields]
NoMatch == [matched |-> FALSE, fields |-> NoFields]
TwoOrders == {o1, o2}
DecisionsOnTwo ==
    [o \in TwoOrders |-> IF o = o1 THEN {Match(f1), NoMatch} ELSE {Match(f1)}]
=============================================================================
