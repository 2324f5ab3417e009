----------------------------- MODULE MCPipeline -----------------------------
(* Pipeline on small instances: s1 and s2 share a contact; s1 gives a name  *)
(* and a message, s2 a name only.  The other contact of s2 may belong to an *)
(* elector registered by hand.                                              *)
EXTENDS Pipeline, TLC

CONSTANTS s1, s2, c1, c2

MCEvents == {s1, s2}
MCContactsOf == s1 :> {c1} @@ s2 :> {c1, c2}
MCNamed == {s1, s2}
MCWithMessage == {s1}
MCByHand == {c2}

Symmetry == Permutations(Tasks)
=============================================================================
