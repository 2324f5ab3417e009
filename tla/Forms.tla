-------------------------------- MODULE Forms -------------------------------
(***************************************************************************)
(* How a form is built and published: purposes, forms, their versions with *)
(* a privacy notice each, the review by somebody else, publication,        *)
(* pausing and closing (form_builder, publish_form_version, and            *)
(* module_edit for purposes and forms).  A notice is approved with its     *)
(* version and never changes alone: only its purpose is kept here.  Every  *)
(* version asks three mandatory fields; Fields are the optional ones.      *)
(***************************************************************************)
EXTENDS Desk

CONSTANTS People, Purposes, Forms, Versions, Fields

VARIABLES
  purpose, \* the row of ProcessingPurpose, None before the insert
  form,    \* the row of Form
  version, \* the row of FormVersion; "approver" is None until it is approved
  linked   \* the forms that have a link

formRows == <<purpose, form, version, linked>>
formVars == <<formRows, job>>

PurposeRows == [status : {"draft", "active"}, author : People, allowed : SUBSET Fields]
FormRows == [status : {"draft", "published", "paused", "closed"}, author : People,
             purpose : Purposes, current : Versions \cup {None}]
VersionRows == [status : {"in_review", "approved", "published"}, author : People, of : Forms,
                asks : SUBSET Fields, notice : Purposes, approver : People \cup {None}]

FormJobs ==
  [action : {"save_purpose"}, on : Purposes, by : People, allowed : SUBSET Fields]
    \cup [action : {"save_form"}, on : Forms, by : People, purpose : Purposes]
    \cup [action : {"draft"}, on : Forms, by : People, version : Versions, asks : SUBSET Fields]
    \cup [action : {"approve"}, on : Forms, by : People, version : Versions]
    \cup [action : {"publish"}, on : Forms, version : Versions]
    \cup [action : {"link", "pause", "close"}, on : Forms]

ASSUME FormAssumption ==
  /\ None \notin PurposeRows \cup FormRows \cup VersionRows \cup FormJobs
  /\ None \notin People \cup Purposes \cup Versions
  /\ Forms \cap Purposes = {}

FormInit ==
  /\ purpose = [p \in Purposes |-> None]
  /\ form    = [f \in Forms |-> None]
  /\ version = [v \in Versions |-> None]
  /\ linked  = {}
  /\ DeskInit

-----------------------------------------------------------------------------
(* What is edited or inserted by a form of the workspace: drafts only. *)
Draft(row) == row # None => row.status = "draft"

InReviewOrLater(v, f, status) ==
  version[v] # None /\ version[v].of = f /\ version[v].status = status

NoticeWhenDrafted(v, f) == TRUE

(* FormVersion.clean, on every save: its notice is about the form's purpose. *)
NoticeFits(v, f) == version[v].notice = form[f].purpose

Independent(who, v, f) ==
  who \notin {form[f].author, purpose[form[f].purpose].author, version[v].author}

(* The checks of the builder, of publish_form_version and of module_edit. *)
FormAllowed(j) ==
  /\ j.action = "save_purpose" => Draft(purpose[j.on])
  /\ j.action = "save_form" => Draft(form[j.on]) /\ purpose[j.purpose] # None
  /\ j.action = "draft" => /\ form[j.on] # None /\ version[j.version] = None
                           /\ j.asks \subseteq purpose[form[j.on].purpose].allowed
  /\ j.action = "approve" => /\ InReviewOrLater(j.version, j.on, "in_review")
                             /\ Independent(j.by, j.version, j.on)
                             /\ NoticeFits(j.version, j.on)
  /\ j.action = "publish" => /\ InReviewOrLater(j.version, j.on, "approved")
                             /\ purpose[form[j.on].purpose].status = "active"
                             /\ NoticeFits(j.version, j.on)
  /\ j.action \in {"link", "pause", "close"} => form[j.on] # None
  /\ j.action = "link" => form[j.on].status = "published"
  /\ j.action \in {"pause", "close"} => form[j.on].status \in {"published", "paused"}

FormEnter(q, j) == Begin(q, j) /\ FormAllowed(j) /\ UNCHANGED formRows

(* An edit keeps the author. *)
SavePurpose(q) ==
  LET j == job[q]
  IN  /\ Doing(q, {"save_purpose"})
      /\ purpose' = [purpose EXCEPT ![j.on] =
           [status |-> "draft", allowed |-> j.allowed,
            author |-> IF purpose[j.on] = None THEN j.by ELSE purpose[j.on].author]]
      /\ End(q) /\ UNCHANGED <<form, version, linked>>

SaveForm(q) ==
  LET j == job[q]
  IN  /\ Doing(q, {"save_form"})
      /\ form' = [form EXCEPT ![j.on] =
           [status |-> "draft", purpose |-> j.purpose, current |-> None,
            author |-> IF form[j.on] = None THEN j.by ELSE form[j.on].author]]
      /\ End(q) /\ UNCHANGED <<purpose, version, linked>>

DraftVersion(q) ==
  LET j == job[q]
  IN  /\ Doing(q, {"draft"})
      /\ version' = [version EXCEPT ![j.version] =
           [status |-> "in_review", author |-> j.by, of |-> j.on, asks |-> j.asks,
            notice |-> form[j.on].purpose, approver |-> None]]
      /\ End(q) /\ UNCHANGED <<purpose, form, linked>>

(* The approval of a version activates the form's purpose. *)
ApproveVersion(q) ==
  LET j == job[q]
  IN  /\ Doing(q, {"approve"})
      /\ version' = [version EXCEPT ![j.version].status = "approved",
                                    ![j.version].approver = j.by]
      /\ purpose' = [purpose EXCEPT ![form[j.on].purpose].status = "active"]
      /\ End(q) /\ UNCHANGED <<form, linked>>

PublishVersion(q) ==
  LET j == job[q]
  IN  /\ Doing(q, {"publish"})
      /\ version' = [version EXCEPT ![j.version].status = "published"]
      /\ form' = [form EXCEPT ![j.on].status = "published", ![j.on].current = j.version]
      /\ End(q) /\ UNCHANGED <<purpose, linked>>

LinkPauseClose(q) ==
  LET j == job[q]
  IN  /\ Doing(q, {"link", "pause", "close"})
      /\ linked' = IF j.action = "link" THEN linked \cup {j.on} ELSE linked
      /\ form' = IF j.action = "link" THEN form
                 ELSE [form EXCEPT ![j.on].status =
                         IF j.action = "pause" THEN "paused" ELSE "closed"]
      /\ End(q) /\ UNCHANGED <<purpose, version>>

FormCommit(q) ==
  \/ SavePurpose(q) \/ SaveForm(q) \/ DraftVersion(q)
  \/ ApproveVersion(q) \/ PublishVersion(q) \/ LinkPauseClose(q)

FormRollback(q) == End(q) /\ UNCHANGED formRows

FormNext ==
  \E q \in Requests :
    \/ \E j \in FormJobs : FormEnter(q, j)
    \/ FormCommit(q) \/ FormRollback(q)

FormSpec == FormInit /\ [][FormNext]_formVars

-----------------------------------------------------------------------------
FormTypeOK ==
  /\ purpose \in [Purposes -> PurposeRows \cup {None}]
  /\ form \in [Forms -> FormRows \cup {None}]
  /\ version \in [Versions -> VersionRows \cup {None}]
  /\ linked \subseteq Forms
  /\ job \in [Requests -> FormJobs \cup {None}]

PublishedForms == {f \in Forms : form[f] # None /\ form[f].status = "published"}

(* Whatever the public sees was reviewed by somebody who wrote none of it:  *)
(* the current version of a published form is a published version of it,    *)
(* approved by another person than the authors of the version, of the form  *)
(* and of the purpose the form has now, that purpose is active, and the     *)
(* notice shown is about it, although a draft form changes its purpose      *)
(* between the draft, the approval and the publication of its versions.     *)
ReviewedByAnother ==
  \A f \in PublishedForms :
    LET v == form[f].current
        p == form[f].purpose
    IN  /\ v # None /\ version[v].of = f /\ version[v].status = "published"
        /\ version[v].approver \notin {None, version[v].author, form[f].author, purpose[p].author}
        /\ version[v].notice = p /\ purpose[p].status = "active"

(* The builder takes only fields the purpose allows ("Use somente campos    *)
(* aprovados para esta finalidade."): then a published form asks no other.  *)
PublishedFieldsAllowed ==
  \A f \in PublishedForms :
    version[form[f].current].asks \subseteq purpose[form[f].purpose].allowed
=============================================================================
