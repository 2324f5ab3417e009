------------------------------- MODULE Review -------------------------------
(***************************************************************************)
(* The workflow that events, trips, shifts, field activities, legal cases, *)
(* proposals, brand assets and editorial contents share (Reviewable and    *)
(* review_action): a draft is edited, submitted, approved by another       *)
(* person or returned, carried out and completed, or cancelled.  "fields"  *)
(* is all a form may change.  Documents that must be available, and the    *)
(* approver who must not be the creator, are reasons for a refusal.  The   *)
(* records that only have this workflow, and editorial contents, are       *)
(* complete here; Bookings and Field add what the others touch.            *)
(***************************************************************************)
EXTENDS Desk

CONSTANTS
  Reviewables,
  Contents,     \* the editorial contents among them
  Versions      \* what the fields of a record may be, for this module's own requests

ASSUME ReviewAssumption == Contents \subseteq Reviewables /\ None \notin Versions

VARIABLES
  review,    \* Reviewable.status, "absent" before the insert
  fields,    \* its other columns, None before the insert
  decisions, \* the ReviewDecision rows of a record: <<number, fields then>>
  published  \* the contents whose external publication is registered

reviewRows == <<review, fields, decisions, published>>
reviewVars == <<reviewRows, job>>

ReviewStates ==
  {"absent", "draft", "in_review", "approved", "active", "completed", "cancelled"}
ReviewActions == {"submit", "approve", "reject", "start", "complete", "cancel"}

ReviewMoves ==
  { <<"draft", "submit", "in_review">>, <<"in_review", "approve", "approved">>,
    <<"in_review", "reject", "draft">>, <<"approved", "start", "active">>,
    <<"active", "complete", "completed">> }
  \cup {<<s, "cancel", "cancelled">> : s \in {"draft", "in_review", "approved", "active"}}

(* What is posted for the records xs, whose fields may become any of fs. *)
ReviewJobs(xs, fs) ==
  [action : ReviewActions, object : xs] \cup [action : {"create", "edit"}, object : xs, fields : fs]

ContentJobs == ReviewJobs(Reviewables, Versions) \cup [action : {"publication"}, object : Contents]

ASSUME ContentJobAssumption == None \notin ContentJobs

ReviewInit ==
  /\ review    = [x \in Reviewables |-> "absent"]
  /\ fields    = [x \in Reviewables |-> None]
  /\ decisions = [x \in Reviewables |-> {}]
  /\ published = {}

-----------------------------------------------------------------------------
InDraftWhenShown(x) == review[x] # "absent"

(* can_edit, asked again under the lock. *)
InDraft(x) == review[x] = "draft"

ReviewAllowed(j) ==
  /\ j.action = "create" => review[j.object] = "absent"
  /\ j.action = "edit" => InDraft(j.object)
  /\ j.action \in ReviewActions =>
       \E s \in ReviewStates : <<review[j.object], j.action, s>> \in ReviewMoves

SaveFields(q) ==
  LET x == job[q].object
  IN  /\ Doing(q, {"create", "edit"})
      /\ review' = [review EXCEPT ![x] = IF job[q].action = "create" THEN "draft" ELSE @]
      /\ fields' = [fields EXCEPT ![x] = job[q].fields]
      /\ UNCHANGED <<decisions, published>>

(* An approval leaves an immutable decision with the hash of what it is about. *)
ReviewAction(q) ==
  LET x == job[q].object
  IN  /\ Doing(q, ReviewActions)
      /\ \E s \in ReviewStates : /\ <<review[x], job[q].action, s>> \in ReviewMoves
                                 /\ review' = [review EXCEPT ![x] = s]
      /\ decisions' = IF job[q].action = "approve"
                      THEN [decisions EXCEPT ![x] = @ \cup {<<Cardinality(@), fields[x]>>}]
                      ELSE decisions
      /\ UNCHANGED <<fields, published>>

(* The publication of a content is registered once it is approved, if its  *)
(* text still has the hash that was approved, and completes it.            *)
RegisterPublication(q) ==
  LET x == job[q].object
  IN  /\ Doing(q, {"publication"})
      /\ review' = [review EXCEPT ![x] = "completed"]
      /\ published' = published \cup {x}
      /\ UNCHANGED <<fields, decisions>>

-----------------------------------------------------------------------------
(* A content is completed only by its publication. *)
ContentAllowed(j) ==
  \/ /\ j.action = "publication" /\ review[j.object] \in {"approved", "active"}
     /\ \E d \in decisions[j.object] : d[2] = fields[j.object]
  \/ /\ j.action # "publication" /\ ReviewAllowed(j)
     /\ j.action = "complete" => j.object \notin Contents \ published

ContentEnter(q, j) == Begin(q, j) /\ ContentAllowed(j) /\ UNCHANGED reviewRows

ContentCommit(q) == (SaveFields(q) \/ ReviewAction(q) \/ RegisterPublication(q)) /\ End(q)

ContentRollback(q) == End(q) /\ UNCHANGED reviewRows

ContentInit == ReviewInit /\ DeskInit

ContentNext ==
  \E q \in Requests :
    \/ \E j \in ContentJobs : ContentEnter(q, j)
    \/ ContentCommit(q) \/ ContentRollback(q)

ContentSpec == ContentInit /\ [][ContentNext]_reviewVars

-----------------------------------------------------------------------------
ContentTypeOK ==
  /\ review \in [Reviewables -> ReviewStates]
  /\ fields \in [Reviewables -> Versions \cup {None}]
  /\ decisions \in [Reviewables -> SUBSET (Nat \X (Versions \cup {None}))]
  /\ published \subseteq Contents
  /\ job \in [Requests -> ContentJobs \cup {None}]

(* What is carried out or published is what was approved: a record past its *)
(* approval has exactly one decision, about the fields it still has; a      *)
(* record that was never approved has none, and a publication is of a       *)
(* completed content.                                                       *)
ApprovedUnchanged ==
  \A x \in Reviewables :
    /\ review[x] \in {"approved", "active", "completed"} => decisions[x] = {<<0, fields[x]>>}
    /\ review[x] \in {"absent", "draft", "in_review"} => decisions[x] = {}
    /\ x \in published => review[x] = "completed"
    /\ x \in Contents /\ review[x] = "completed" => x \in published
=============================================================================
