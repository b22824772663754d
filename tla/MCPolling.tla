------------------------------ MODULE MCPolling ------------------------------
(***************************************************************************)
(* Instances of Polling for TLC.  The orders are interchangeable model     *)
(* values (the symmetry is for safety runs only).                          *)
(***************************************************************************)
EXTENDS Polling, TLC

Symmetry == Permutations(Orders)
=============================================================================
