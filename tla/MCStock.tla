------------------------------ MODULE MCStock -------------------------------
(* Stock on a small instance; the constants are given in the cfg files. *)
EXTENDS Stock, TLC

Symmetry ==
  Permutations(Requests) \cup Permutations(Reservations) \cup Permutations(Commands)
=============================================================================
