-------------------------- MODULE MCOrderProcessing --------------------------
(***************************************************************************)
(* Instances of OrderProcessing for TLC: the daemons and the orders are    *)
(* interchangeable model values.                                           *)
(***************************************************************************)
EXTENDS OrderProcessing, TLC

Symmetry == Permutations(Daemons) \cup Permutations(Orders)
=============================================================================
