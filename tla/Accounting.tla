----------------------------- MODULE Accounting -----------------------------
(***************************************************************************)
(* Budgets, whose lines are added to a draft until it is approved and      *)
(* supersedes the one before; and accounting batches, whose manifest is a  *)
(* snapshot of the finance records taken by several queries, reviewed,     *)
(* exported and finally filed.  Of the finance records only the reversal   *)
(* of payments is here: it changes a payment and its reconciliations in    *)
(* one transaction, and the snapshot reads the two in different queries.   *)
(* Independence of the approver, the cutoff and the evidence document are  *)
(* reasons for a refusal.                                                  *)
(***************************************************************************)
EXTENDS Desk

CONSTANTS
  Budgets, Batches,
  Paid,     \* payments, each with a reconciliation
  MaxLines  \* how many lines are added to a budget

ASSUME AccountingAssumption ==
  /\ MaxLines \in Nat
  /\ Budgets \cap Batches = {} /\ Budgets \cap Paid = {} /\ Batches \cap Paid = {}

VARIABLES
  budget,   \* BudgetVersion.status, "absent" before the insert
  lines,    \* how many BudgetLine rows it has
  passed,   \* how many it had when it was approved
  batch,    \* AccountingBatch.status, "absent" before the insert
  manifest, \* its payments and reconciliations that were reversed, None before
  filings,  \* its FilingRecord rows
  reversed, \* the payments reversed
  undoneOf, \* the payments whose reconciliation has reversed_at
  seen      \* what a running snapshot has read of the payments

accountRows == <<budget, lines, passed, batch, manifest, filings, reversed, undoneOf>>
accountVars == <<accountRows, seen, job>>

BudgetStates == {"absent", "draft", "approved", "superseded"}
BatchStates == {"absent", "building", "reviewed", "exported", "delivered"}

AccountJobs ==
  [action : {"create", "add_line", "approve"}, object : Budgets]
    \cup [action : {"snapshot", "review", "file"}, object : Batches]
    \cup [action : {"reverse"}, object : Paid]

ASSUME AccountJobAssumption == None \notin AccountJobs

AccountInit ==
  /\ budget   = [b \in Budgets |-> "absent"]
  /\ lines    = [b \in Budgets |-> 0]
  /\ passed   = [b \in Budgets |-> 0]
  /\ batch    = [b \in Batches |-> "absent"]
  /\ manifest = [b \in Batches |-> None]
  /\ filings  = [b \in Batches |-> 0]
  /\ reversed = {}
  /\ undoneOf = {}
  /\ seen     = [q \in Requests |-> None]
  /\ DeskInit

-----------------------------------------------------------------------------
AccountAllowed(j) ==
  /\ j.action = "create" => budget[j.object] = "absent"
  /\ j.action = "add_line" => budget[j.object] = "draft" /\ lines[j.object] < MaxLines
  /\ j.action = "approve" => budget[j.object] = "draft" /\ lines[j.object] > 0
  /\ j.action = "snapshot" => batch[j.object] = "absent"
  /\ j.action = "review" => batch[j.object] = "building"
  /\ j.action = "file" => batch[j.object] = "exported"
  /\ j.action = "reverse" => j.object \notin reversed

(* The snapshot begins with the payments. *)
AccountEnter(q, j) ==
  /\ Begin(q, j) /\ AccountAllowed(j)
  /\ seen' = [seen EXCEPT ![q] = IF j.action = "snapshot" THEN reversed ELSE None]
  /\ UNCHANGED accountRows

ApprovedAlone(b) == [budget EXCEPT ![b] = "approved"]

(* Whatever was approved is superseded by the approval of another version. *)
ApprovedInstead(b) ==
  [x \in Budgets |-> IF x = b THEN "approved"
                     ELSE IF budget[x] = "approved" THEN "superseded" ELSE budget[x]]

BudgetAction(q) ==
  LET b == job[q].object
  IN  /\ Doing(q, {"create", "add_line", "approve"})
      /\ budget' = IF job[q].action = "approve" THEN ApprovedInstead(b)
                   ELSE [budget EXCEPT ![b] = "draft"]
      /\ lines' = IF job[q].action = "add_line" THEN [lines EXCEPT ![b] = @ + 1] ELSE lines
      /\ passed' = IF job[q].action = "approve" THEN [passed EXCEPT ![b] = lines[b]] ELSE passed
      /\ End(q) /\ UNCHANGED <<batch, manifest, filings, reversed, undoneOf, seen>>

(* The last query of the snapshot, and the insert of the batch. *)
Snapshot(q) ==
  LET b == job[q].object
  IN  /\ Doing(q, {"snapshot"})
      /\ batch' = [batch EXCEPT ![b] = "building"]
      /\ manifest' = [manifest EXCEPT ![b] = <<seen[q], undoneOf>>]
      /\ End(q) /\ UNCHANGED <<budget, lines, passed, filings, reversed, undoneOf, seen>>

BatchAction(q) ==
  LET b == job[q].object
  IN  /\ Doing(q, {"review", "file"})
      /\ batch' = [batch EXCEPT ![b] = IF job[q].action = "review" THEN "reviewed" ELSE "delivered"]
      /\ filings' = [filings EXCEPT ![b] = IF job[q].action = "file" THEN @ + 1 ELSE @]
      /\ End(q) /\ UNCHANGED <<budget, lines, passed, manifest, reversed, undoneOf, seen>>

(* The export locks the batch only, not the campaign: it waits for whoever *)
(* has the batch, and for nobody else.                                     *)
Export(b) ==
  /\ batch[b] = "reviewed"
  /\ \A q \in Requests : job[q] # None => job[q].object # b
  /\ batch' = [batch EXCEPT ![b] = "exported"]
  /\ UNCHANGED <<budget, lines, passed, manifest, filings, reversed, undoneOf, seen, job>>

ReversePaid(q) ==
  /\ Doing(q, {"reverse"})
  /\ reversed' = reversed \cup {job[q].object}
  /\ undoneOf' = undoneOf \cup {job[q].object}
  /\ End(q) /\ UNCHANGED <<budget, lines, passed, batch, manifest, filings, seen>>

AccountRollback(q) == End(q) /\ UNCHANGED <<accountRows, seen>>

AccountNext ==
  \/ \E q \in Requests :
       \/ \E j \in AccountJobs : AccountEnter(q, j)
       \/ BudgetAction(q) \/ Snapshot(q) \/ BatchAction(q) \/ ReversePaid(q) \/ AccountRollback(q)
  \/ \E b \in Batches : Export(b)

AccountSpec == AccountInit /\ [][AccountNext]_accountVars

-----------------------------------------------------------------------------
AccountTypeOK ==
  /\ budget \in [Budgets -> BudgetStates]
  /\ lines \in [Budgets -> 0..MaxLines]
  /\ passed \in [Budgets -> 0..MaxLines]
  /\ batch \in [Batches -> BatchStates]
  /\ manifest \in [Batches -> ((SUBSET Paid) \X (SUBSET Paid)) \cup {None}]
  /\ filings \in [Batches -> Nat]
  /\ reversed \subseteq Paid /\ undoneOf \subseteq Paid
  /\ seen \in [Requests -> (SUBSET Paid) \cup {None}]
  /\ job \in [Requests -> AccountJobs \cup {None}]

(* The campaign has at most one approved budget, although two versions are *)
(* two rows that two people may approve at once; and what was approved has *)
(* lines, the same ones ever after.                                        *)
OneApprovedBudget ==
  /\ \A a, b \in Budgets : budget[a] = "approved" /\ budget[b] = "approved" => a = b
  /\ \A b \in Budgets :
       IF budget[b] \in {"approved", "superseded"}
       THEN lines[b] > 0 /\ passed[b] = lines[b] ELSE passed[b] = 0

(* A manifest shows the records as they were at one moment, although it is *)
(* read by several queries: the payments it shows as reversed are those    *)
(* whose reconciliations it shows as reversed.  A batch that was delivered *)
(* has one filing, the others have none.                                   *)
ManifestOfOneMoment ==
  \A b \in Batches :
    /\ batch[b] # "absent" => manifest[b][1] = manifest[b][2]
    /\ filings[b] = IF batch[b] = "delivered" THEN 1 ELSE 0

(* What was approved, and what is handed out, is what was signed for. *)
AccountsAsSigned == OneApprovedBudget /\ ManifestOfOneMoment
=============================================================================
