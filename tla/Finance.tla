------------------------------ MODULE Finance -------------------------------
(***************************************************************************)
(* The finance of one campaign (apps/finance and its actions in            *)
(* apps/workspace): obligations that are edited, submitted and decided,    *)
(* payments that are allocated to obligations and reconciled with bank     *)
(* entries, and the reversal of a payment.                                 *)
(*                                                                         *)
(* Each operation is a web request posted from a page that shows one       *)
(* record, the request's object, with its row version.  Its transaction    *)
(* locks the campaign row (execute_action, module_edit), then the object,  *)
(* whose version must still be the one the page shows, then the other rows *)
(* the operation writes or sums over, and commits everything at once.      *)
(* Amounts are in cents; a bank entry's is the absolute value of a debit,  *)
(* since credits are never reconciled.  All records have the same currency. *)
(***************************************************************************)
EXTENDS Naturals, FiniteSets

CONSTANTS
  Obligations, Payments, Entries,  \* ids, in the three tables
  Requests,     \* requests that may be in progress at once
  Campaign,     \* the campaign's row
  None,         \* no job, no other record
  Amounts,      \* the amounts of the records people enter
  Shares,       \* the amounts they allocate and reconcile
  MaxCents      \* what the amount columns can hold

Records == Obligations \cup Payments \cup Entries
Rows == Records \cup {Campaign}

ASSUME TablesDisjoint ==
  /\ Obligations \cap Payments = {}
  /\ Obligations \cap Entries = {}
  /\ Payments \cap Entries = {}
  /\ Campaign \notin Records /\ None \notin Records
ASSUME TablesFinite == IsFiniteSet(Payments) /\ IsFiniteSet(Entries)
                       /\ IsFiniteSet(Obligations)
ASSUME CentsAssumption == /\ MaxCents \in Nat
                          /\ Amounts \cup Shares \subseteq 1..MaxCents

VARIABLES
  state,    \* approval_status or status of each record, "absent" before the insert
  amount,   \* its amount_cents
  alloc,    \* PaymentAllocation.amount_cents, 0 without the row
  link,     \* ReconciliationLink.amount_cents, 0 without the row
  undone,   \* the links with reversed_at set
  at, job,  \* where each request is, and what it asks for
  stale,    \* the requests whose object was saved since their page was shown
  holds     \* the rows each request has locked

ledger   == <<state, amount, alloc, link, undone>>
requests == <<at, job, stale, holds>>
vars     == <<ledger, requests>>

(* What a page posts: the action, its record, the other record and the     *)
(* amount that some actions take, and the amount that the page shows.      *)
Job(kinds, objects, others, cents) ==
  [kind : kinds, object : objects, other : others, cents : cents, shown : 1..MaxCents]

Jobs == UNION { Job({"edit"}, Obligations, {None}, Amounts),
                Job({"submit", "approve", "reject"}, Obligations, {None}, {0}),
                Job({"allocate"}, Payments, Obligations, Shares),
                Job({"reverse"}, Payments, {None}, {0}),
                Job({"reconcile"}, Entries, Payments, Shares) }

Init ==
  /\ state  = [x \in Records |-> "absent"]
  /\ amount = [x \in Records |-> 0]
  /\ alloc  = [p \in Payments |-> [o \in Obligations |-> 0]]
  /\ link   = [e \in Entries |-> [p \in Payments |-> 0]]
  /\ undone = {}
  /\ at     = [q \in Requests |-> "idle"]
  /\ job    = [q \in Requests |-> None]
  /\ stale  = {}
  /\ holds  = [q \in Requests |-> {}]

-----------------------------------------------------------------------------
(* The sums the services compute, as sets of cents: how many cents of a    *)
(* payment go to obligations, and how many of an obligation are covered by *)
(* payments that were not reversed; how many cents of an entry, and of a   *)
(* payment, are reconciled by links that were not reversed.                *)
Spent(p) == {u \in Obligations \X (1..MaxCents) : u[2] <= alloc[p][u[1]]}
Covered(o) ==
  {u \in Payments \X (1..MaxCents) : state[u[1]] # "reversed" /\ u[2] <= alloc[u[1]][o]}
Matched(e) ==
  {u \in Payments \X (1..MaxCents) : <<e, u[1]>> \notin undone /\ u[2] <= link[e][u[1]]}
Confirmed(p) ==
  {u \in Entries \X (1..MaxCents) : <<u[1], p>> \notin undone /\ u[2] <= link[u[1]][p]}

(* The entries that a payment's active links name. *)
Linked(p) == {e \in Entries : link[e][p] > 0 /\ <<e, p>> \notin undone}

EntryStatus(total, whole) ==
  IF total = 0 THEN "unreconciled" ELSE IF total = whole THEN "reconciled" ELSE "partial"

(* The rows a request's transaction locks besides the campaign's. *)
Wanted(q) ==
  {job[q].object} \cup CASE job[q].kind \in {"allocate", "reconcile"} -> {job[q].other}
                         [] job[q].kind = "reverse" -> Linked(job[q].object)
                         [] OTHER -> {}

(* The rows it may ask for next: its object first. *)
NextRows(q) ==
  IF at[q] # "inside" THEN {}
  ELSE IF job[q].object \notin holds[q] THEN {job[q].object}
  ELSE Wanted(q) \ holds[q]

Free(x) == \A q \in Requests : x \notin holds[q]

-----------------------------------------------------------------------------
(* A record is inserted under the campaign's lock, and reads nothing. *)
Record(x, a) ==
  /\ state[x] = "absent" /\ Free(Campaign)
  /\ state' = [state EXCEPT ![x] = IF x \in Obligations THEN "draft"
                                   ELSE IF x \in Payments THEN "recorded"
                                   ELSE "unreconciled"]
  /\ amount' = [amount EXCEPT ![x] = a]
  /\ UNCHANGED <<alloc, link, undone, requests>>

(* Somebody posts from the page of a record, as it is shown at this moment. *)
Arrive(q, j) ==
  /\ at[q] = "idle"
  /\ state[j.object] # "absent" /\ j.shown = amount[j.object]
  /\ j.other # None => state[j.other] # "absent"
  /\ at' = [at EXCEPT ![q] = "arrived"]
  /\ job' = [job EXCEPT ![q] = j]
  /\ stale' = stale \ {q}
  /\ UNCHANGED <<ledger, holds>>

EnterUnlocked(q) ==
  /\ at[q] = "arrived"
  /\ at' = [at EXCEPT ![q] = "inside"]
  /\ UNCHANGED <<ledger, job, stale, holds>>

Enter(q) ==
  /\ at[q] = "arrived" /\ Free(Campaign)
  /\ at' = [at EXCEPT ![q] = "inside"]
  /\ holds' = [holds EXCEPT ![q] = {Campaign}]
  /\ UNCHANGED <<ledger, job, stale>>

LockUnversioned(q, x) ==
  /\ x \in NextRows(q) /\ Free(x)
  /\ holds' = [holds EXCEPT ![q] = @ \cup {x}]
  /\ UNCHANGED <<ledger, at, job, stale>>

(* Once the object is locked its version is compared with the page's. *)
LockRow(q, x) ==
  /\ x \in NextRows(q) /\ Free(x)
  /\ x = job[q].object => q \notin stale
  /\ holds' = [holds EXCEPT ![q] = @ \cup {x}]
  /\ UNCHANGED <<ledger, at, job, stale>>

Ready(q) == at[q] = "inside" /\ NextRows(q) = {}

(* The end of a transaction that saved the records xs: their row versions  *)
(* went up, so the pages that show the old ones are stale.                 *)
Finish(q, xs) ==
  /\ at' = [at EXCEPT ![q] = "idle"]
  /\ job' = [job EXCEPT ![q] = None]
  /\ holds' = [holds EXCEPT ![q] = {}]
  /\ stale' = (stale \cup {r \in Requests : at[r] # "idle" /\ job[r].object \in xs}) \ {q}

-----------------------------------------------------------------------------
EditUndecided(q) ==
  LET o == job[q].object
  IN  /\ Ready(q) /\ job[q].kind = "edit"
      /\ state[o] \in {"draft", "submitted"}
      /\ amount' = [amount EXCEPT ![o] = job[q].cents]
      /\ Finish(q, {o})
      /\ UNCHANGED <<state, alloc, link, undone>>

Edit(q) ==
  LET o == job[q].object
  IN  /\ Ready(q) /\ job[q].kind = "edit"
      /\ state[o] = "draft"
      /\ amount' = [amount EXCEPT ![o] = job[q].cents]
      /\ Finish(q, {o})
      /\ UNCHANGED <<state, alloc, link, undone>>

Submit(q) ==
  LET o == job[q].object
  IN  /\ Ready(q) /\ job[q].kind = "submit"
      /\ state[o] = "draft"
      /\ state' = [state EXCEPT ![o] = "submitted"]
      /\ Finish(q, {o})
      /\ UNCHANGED <<amount, alloc, link, undone>>

DecideByAction(q) ==
  LET o == job[q].object
  IN  /\ Ready(q) /\ job[q].kind \in {"approve", "reject"}
      /\ state[o] = "submitted"
      /\ state' = [state EXCEPT ![o] = job[q].kind]
      /\ Finish(q, {o})
      /\ UNCHANGED <<amount, alloc, link, undone>>

(* By somebody who did not create the obligation: the others are refused. *)
Decide(q) ==
  LET o == job[q].object
  IN  /\ Ready(q) /\ job[q].kind \in {"approve", "reject"}
      /\ state[o] = "submitted"
      /\ state' = [state EXCEPT ![o] = IF job[q].kind = "approve" THEN "approved" ELSE "rejected"]
      /\ Finish(q, {o})
      /\ UNCHANGED <<amount, alloc, link, undone>>

AllocateByPayment(q) ==
  LET p == job[q].object
      o == job[q].other
      a == job[q].cents
  IN  /\ Ready(q) /\ job[q].kind = "allocate"
      /\ state[p] # "reversed" /\ state[o] = "approved"
      /\ alloc[p][o] = 0
      /\ Cardinality(Spent(p)) + a <= amount[p]
      /\ alloc' = [alloc EXCEPT ![p][o] = a]
      /\ Finish(q, {p})
      /\ UNCHANGED <<state, amount, link, undone>>

(* Within what is left of both; one row for each pair. *)
Allocate(q) ==
  LET p == job[q].object
      o == job[q].other
      a == job[q].cents
  IN  /\ Ready(q) /\ job[q].kind = "allocate"
      /\ state[p] # "reversed" /\ state[o] = "approved"
      /\ alloc[p][o] = 0
      /\ Cardinality(Spent(p)) + a <= amount[p]
      /\ Cardinality(Covered(o)) + a <= amount[o]
      /\ alloc' = [alloc EXCEPT ![p][o] = a]
      /\ Finish(q, {p})
      /\ UNCHANGED <<state, amount, link, undone>>

ReconcileWith(q, payable) ==
  LET e == job[q].object
      p == job[q].other
      a == job[q].cents
      total == Cardinality(Matched(e)) + a
  IN  /\ Ready(q) /\ job[q].kind = "reconcile"
      /\ state[p] \in payable
      /\ link[e][p] = 0
      /\ total <= amount[e]
      /\ Cardinality(Confirmed(p)) + a <= amount[p]
      /\ link' = [link EXCEPT ![e][p] = a]
      /\ state' = [state EXCEPT ![e] = EntryStatus(total, amount[e])]
      /\ Finish(q, {e})
      /\ UNCHANGED <<amount, alloc, undone>>

ReconcileReversed(q) == ReconcileWith(q, {"recorded", "reversed"})

(* A pair that was reconciled once is not again, even after a reversal. *)
Reconcile(q) == ReconcileWith(q, {"recorded"})

ReverseKeepingStatus(q) ==
  LET p == job[q].object
  IN  /\ Ready(q) /\ job[q].kind = "reverse"
      /\ state[p] # "reversed"
      /\ undone' = undone \cup {<<e, p>> : e \in Linked(p)}
      /\ state' = [state EXCEPT ![p] = "reversed"]
      /\ Finish(q, {p} \cup Linked(p))
      /\ UNCHANGED <<amount, alloc, link>>

(* Every active link is marked, and its entry's status computed again. *)
Reverse(q) ==
  LET p == job[q].object
  IN  /\ Ready(q) /\ job[q].kind = "reverse"
      /\ state[p] # "reversed"
      /\ undone' = undone \cup {<<e, p>> : e \in Linked(p)}
      /\ state' = [x \in Records |->
           IF x = p THEN "reversed"
           ELSE IF x \in Linked(p) THEN
             IF {u \in Matched(x) : u[1] # p} = {} THEN "unreconciled" ELSE "partial"
           ELSE state[x]]
      /\ Finish(q, {p} \cup Linked(p))
      /\ UNCHANGED <<amount, alloc, link>>

(* Anything else ends the transaction without effect: a stale version, a    *)
(* state or an amount that does not fit, a permission, the creator's own    *)
(* decision, a command that was recorded before, a broken connection.       *)
Refuse(q) ==
  /\ at[q] # "idle"
  /\ Finish(q, {})
  /\ UNCHANGED ledger

-----------------------------------------------------------------------------
Carry(q) == Edit(q) \/ Submit(q) \/ Decide(q) \/ Allocate(q) \/ Reconcile(q) \/ Reverse(q)

Handle(q) ==
  \/ \E j \in Jobs : Arrive(q, j)
  \/ Enter(q) \/ Carry(q) \/ Refuse(q)
  \/ \E x \in Records : LockRow(q, x)

Next ==
  \/ \E x \in Records, a \in Amounts : Record(x, a)
  \/ \E q \in Requests : Handle(q)

Spec == Init /\ [][Next]_vars

-----------------------------------------------------------------------------
(* The statuses the services give to the records of each table. *)
ObligationStates == {"draft", "submitted", "approved", "rejected"}
PaymentStates    == {"recorded", "reversed"}
EntryStates      == {"unreconciled", "partial", "reconciled"}

States(x) == IF x \in Obligations THEN ObligationStates
             ELSE IF x \in Payments THEN PaymentStates ELSE EntryStates

(* Every variable has its type. *)
TypeOK ==
  /\ state \in [Records -> {"absent"} \cup ObligationStates \cup PaymentStates \cup EntryStates]
  /\ \A x \in Records : state[x] \in States(x) \cup {"absent"}
  /\ amount \in [Records -> 0..MaxCents]
  /\ alloc \in [Payments -> [Obligations -> 0..MaxCents]]
  /\ link \in [Entries -> [Payments -> 0..MaxCents]]
  /\ undone \subseteq Entries \X Payments
  /\ at \in [Requests -> {"idle", "arrived", "inside"}]
  /\ job \in [Requests -> Jobs \cup {None}]
  /\ stale \subseteq Requests
  /\ holds \in [Requests -> SUBSET Rows]

(***************************************************************************)
(* No cent is counted twice: neither a payment nor an obligation is        *)
(* allocated beyond its amount, and neither an entry nor a payment is      *)
(* reconciled beyond it, through every order of allocations, edits and     *)
(* reversals.                                                              *)
(***************************************************************************)
WithinAmounts ==
  /\ \A o \in Obligations : Cardinality(Covered(o)) <= amount[o]
  /\ \A p \in Payments : /\ Cardinality(Spent(p)) <= amount[p]
                         /\ Cardinality(Confirmed(p)) <= amount[p]
  /\ \A e \in Entries : Cardinality(Matched(e)) <= amount[e]

(***************************************************************************)
(* The status of a bank entry is what its active links say, although it is *)
(* stored, and recomputed by two different services.                       *)
(***************************************************************************)
EntryStatusTrue ==
  \A e \in Entries :
    state[e] # "absent" => state[e] = EntryStatus(Cardinality(Matched(e)), amount[e])

(***************************************************************************)
(* A reversed payment confirms no bank entry, whichever requests were in   *)
(* progress when it was reversed.                                          *)
(***************************************************************************)
ReversedCountsNowhere ==
  \A p \in Payments : state[p] = "reversed" => Confirmed(p) = {}

(***************************************************************************)
(* An obligation is submitted, approved or rejected only at the amount     *)
(* that the page of the person who did it showed.                          *)
(***************************************************************************)
DecidedAsShown ==
  [][\A o \in Obligations :
       state[o] # "absent" /\ state'[o] # state[o] =>
         \E q \in Requests : /\ at[q] = "inside" /\ at'[q] = "idle"
                             /\ job[q].object = o /\ job[q].shown = amount[o]]_vars

(* What a request waits for in vain as long as the other one holds it. *)
BlockedBy(q, r) == q # r /\ NextRows(q) \cap holds[r] # {}

(***************************************************************************)
(* No two requests wait for each other, although a reconciliation locks    *)
(* the entry before the payment and a reversal the payment first.          *)
(***************************************************************************)
NoCircularWait ==
  \A q, r \in Requests : ~(BlockedBy(q, r) /\ BlockedBy(r, q))

(***************************************************************************)
(* What finance/services.py:105 says ("All paths lock payments before bank *)
(* entries to avoid inverse lock order"): nobody asks for a payment while  *)
(* holding an entry.  The code breaks it: execute_action locks the entry   *)
(* before the service locks the payment.                                   *)
(***************************************************************************)
PaymentsBeforeEntries ==
  \A q \in Requests : holds[q] \cap Entries # {} => NextRows(q) \cap Payments = {}

-----------------------------------------------------------------------------
(* The books that the tables are, with what a reversal marks and recomputes *)
(* in them left out.                                                       *)
Atomic == INSTANCE Books WITH
  decision <- [o \in Obligations |-> state[o]],
  reversed <- {p \in Payments : state[p] = "reversed"}

(***************************************************************************)
(* The services, with their pages, versions and locks, behave as if each   *)
(* operation were decided in one step on the books of that moment.  In     *)
(* particular the marks on the links always are what the payments say.     *)
(***************************************************************************)
ImplementsBooks == Atomic!Spec

-----------------------------------------------------------------------------
(* The parts of the inductive invariant behind these properties. *)

(* Whoever is inside a transaction holds the campaign's row, and is alone. *)
LockInv ==
  /\ \A q \in Requests : at[q] # "idle" => job[q] \in Jobs
  /\ \A q \in Requests : at[q] # "inside" => holds[q] = {}
  /\ \A q \in Requests : at[q] = "inside" => Campaign \in holds[q]
  /\ \A q, r \in Requests : Campaign \in holds[q] /\ Campaign \in holds[r] => q = r

(* A page that is not stale shows its record as it is, and a request gets  *)
(* past its object's lock with no other page.                              *)
ShownInv ==
  /\ \A q \in Requests : at[q] # "idle" /\ q \notin stale =>
       state[job[q].object] # "absent" /\ job[q].shown = amount[job[q].object]
  /\ \A q \in Requests : at[q] = "inside" /\ job[q].object \in holds[q] => q \notin stale

(* What the rows of different tables say about each other. *)
BooksInv ==
  /\ \A x \in Records : state[x] = "absent" => amount[x] = 0
  /\ \A p \in Payments, o \in Obligations : alloc[p][o] > 0 => state[o] = "approved"
  /\ \A e \in Entries, p \in Payments : <<e, p>> \in undone => link[e][p] > 0

(* A mark is never removed, and there is none without a reversal. *)
UndoneReversed == \A e \in Entries, p \in Payments : <<e, p>> \in undone => state[p] = "reversed"
=============================================================================
