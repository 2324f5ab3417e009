----------------------------- MODULE MCFinance ------------------------------
(* Finance on a small instance; the constants are given in the cfg files. *)
EXTENDS Finance, TLC

Symmetry == Permutations(Requests) \cup Permutations(Payments) \cup Permutations(Entries)
=============================================================================
