------------------------------ MODULE MCIntake ------------------------------
(* One form that may change between two purposes, two versions of it, three *)
(* people, and two submissions at once.                                     *)
EXTENDS Intake, TLC

Sym == Permutations(People) \cup Permutations(Purposes) \cup Permutations(Versions)
         \cup Permutations(Requests) \cup Permutations(Posts)
         \cup Permutations(Keys) \cup Permutations(Contents)
=============================================================================
