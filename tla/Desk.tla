-------------------------------- MODULE Desk --------------------------------
(***************************************************************************)
(* How the workspace changes a record.  Every form and every button ends   *)
(* in one transaction (module_edit, execute_action) that first locks the   *)
(* campaign's row, then the record, reads what its checks need and only    *)
(* then writes.  The reading and the writing are two steps here, so that   *)
(* what a check found can be out of date when its conclusion is written,   *)
(* which is what the lock must prevent.                                    *)
(*                                                                         *)
(* A request is let in with the current version of its record, the others  *)
(* are refused and change nothing (Finance models what a page showed); so  *)
(* are requests of people without the permission, without a reason or with *)
(* invalid fields.  The id of a new row stands for the command its page    *)
(* carries: the second post of the page finds the idempotency record, and  *)
(* a second post of an action finds its own (or an old version).           *)
(***************************************************************************)
EXTENDS Naturals, FiniteSets

CONSTANTS
  Requests,  \* the requests that may be in progress at once
  None       \* no job; also a reference that is not set

VARIABLE job \* what the transaction of each request has been let in to do

DeskInit == job = [q \in Requests |-> None]

BeginUnlocked(q, j) ==
  /\ job[q] = None
  /\ job' = [job EXCEPT ![q] = j]

(* The campaign's row is free, and locked until the transaction ends. *)
Begin(q, j) ==
  /\ \A r \in Requests : job[r] = None
  /\ job' = [job EXCEPT ![q] = j]

Doing(q, actions) == job[q] # None /\ job[q].action \in actions

(* Commit or rollback. *)
End(q) ==
  /\ job[q] # None
  /\ job' = [job EXCEPT ![q] = None]

-----------------------------------------------------------------------------
(* What the lock gives: at most one request is let in. *)
Alone == \A q, r \in Requests : job[q] # None /\ job[r] # None => q = r
=============================================================================
