------------------------------- MODULE MCForms ------------------------------
(* One purpose, one form and one version with one optional field. *)
EXTENDS Forms, TLC

Sym == Permutations(People) \cup Permutations(Requests)
=============================================================================
