-------------------------------- MODULE Books --------------------------------
(***************************************************************************)
(* What the finance of a campaign promises, as if everybody saw the books  *)
(* at the moment they write in them: an amount is allocated or reconciled  *)
(* within what is left of both sides, a decided obligation keeps its       *)
(* amount, and a payment that is reversed stops counting, everywhere at    *)
(* once.  There are no pages, locks or versions, no marks on links and no  *)
(* status of a bank entry: what counts follows from the payments alone.    *)
(***************************************************************************)
EXTENDS Naturals, FiniteSets

CONSTANTS Obligations, Payments, Entries, Amounts, Shares, MaxCents  \* as in Finance

VARIABLES
  decision,    \* of each obligation, "absent" before it is recorded
  amount,      \* of each record, 0 before
  alloc, link, \* what was ever allocated and reconciled
  reversed     \* the payments that do not count any more

vars == <<decision, amount, alloc, link, reversed>>

Counting == Payments \ reversed

Spent(p) == {u \in Obligations \X (1..MaxCents) : u[2] <= alloc[p][u[1]]}
Covered(o) == {u \in Counting \X (1..MaxCents) : u[2] <= alloc[u[1]][o]}
Matched(e) == {u \in Counting \X (1..MaxCents) : u[2] <= link[e][u[1]]}
Confirmed(p) == {u \in Entries \X (1..MaxCents) : u[2] <= link[u[1]][p]}

Init ==
  /\ decision = [o \in Obligations |-> "absent"]
  /\ amount   = [x \in Obligations \cup Payments \cup Entries |-> 0]
  /\ alloc    = [p \in Payments |-> [o \in Obligations |-> 0]]
  /\ link     = [e \in Entries |-> [p \in Payments |-> 0]]
  /\ reversed = {}

-----------------------------------------------------------------------------
Record(x, a) ==
  /\ amount[x] = 0
  /\ amount' = [amount EXCEPT ![x] = a]
  /\ decision' = [o \in Obligations |-> IF o = x THEN "draft" ELSE decision[o]]
  /\ UNCHANGED <<alloc, link, reversed>>

Edit(o, a) ==
  /\ decision[o] = "draft"
  /\ amount' = [amount EXCEPT ![o] = a]
  /\ UNCHANGED <<decision, alloc, link, reversed>>

(* Submitted, and then approved or rejected for good. *)
Decide(o, before, after) ==
  /\ decision[o] = before
  /\ decision' = [decision EXCEPT ![o] = after]
  /\ UNCHANGED <<amount, alloc, link, reversed>>

Allocate(p, o, a) ==
  /\ p \in Counting /\ decision[o] = "approved" /\ alloc[p][o] = 0
  /\ Cardinality(Spent(p)) + a <= amount[p]
  /\ Cardinality(Covered(o)) + a <= amount[o]
  /\ alloc' = [alloc EXCEPT ![p][o] = a]
  /\ UNCHANGED <<decision, amount, link, reversed>>

Reconcile(e, p, a) ==
  /\ p \in Counting /\ link[e][p] = 0
  /\ Cardinality(Matched(e)) + a <= amount[e]
  /\ Cardinality(Confirmed(p)) + a <= amount[p]
  /\ link' = [link EXCEPT ![e][p] = a]
  /\ UNCHANGED <<decision, amount, alloc, reversed>>

Reverse(p) ==
  /\ p \in Counting /\ amount[p] > 0
  /\ reversed' = reversed \cup {p}
  /\ UNCHANGED <<decision, amount, alloc, link>>

Next ==
  \/ \E x \in Obligations \cup Payments \cup Entries, a \in Amounts : Record(x, a)
  \/ \E o \in Obligations :
       \/ \E a \in Amounts : Edit(o, a)
       \/ Decide(o, "draft", "submitted")
       \/ Decide(o, "submitted", "approved") \/ Decide(o, "submitted", "rejected")
  \/ \E p \in Payments, a \in Shares :
       \/ \E o \in Obligations : Allocate(p, o, a)
       \/ \E e \in Entries : Reconcile(e, p, a)
  \/ \E p \in Payments : Reverse(p)

Spec == Init /\ [][Next]_vars
=============================================================================
