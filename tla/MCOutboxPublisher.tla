-------------------------- MODULE MCOutboxPublisher --------------------------
(***************************************************************************)
(* Instances of OutboxPublisher for TLC: publishers and messages are       *)
(* interchangeable model values (the symmetry is for safety runs only).    *)
(***************************************************************************)
EXTENDS OutboxPublisher, TLC

Symmetry == Permutations(Publishers) \cup Permutations(Messages)
=============================================================================
