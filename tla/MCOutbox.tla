------------------------------ MODULE MCOutbox ------------------------------
(* Outbox on a small instance; the constants are given in the cfg files. *)
EXTENDS Outbox, TLC

Symmetry == Permutations(Workers)
=============================================================================
