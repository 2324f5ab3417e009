---------------------------- MODULE FormsProofs -----------------------------
(***************************************************************************)
(* Proofs about Forms.  The approver of a version was independent of the   *)
(* authors there were then; the publication asks nobody again.  What saves *)
(* it is that authors never change and that a version is published only    *)
(* while its notice is still about the purpose of the form, the purpose    *)
(* whose author was looked at (Approvals).  The second half is about the   *)
(* intake around the forms, whose requests and posts it keeps apart.       *)
(***************************************************************************)
EXTENDS Intake, SequenceTheorems, TLAPS

StillAllowed == \A q \in Requests : job[q] # None => FormAllowed(job[q])

(* FormTypeOK without the jobs, which are others in the intake. *)
RowTypes ==
  /\ purpose \in [Purposes -> PurposeRows \cup {None}]
  /\ form \in [Forms -> FormRows \cup {None}]
  /\ version \in [Versions -> VersionRows \cup {None}]
  /\ linked \subseteq Forms

(* A row's references are to rows that exist. *)
References ==
  /\ \A f \in Forms : form[f] # None => purpose[form[f].purpose] # None
  /\ \A v \in Versions : version[v] # None =>
       form[version[v].of] # None /\ purpose[version[v].notice] # None
  /\ \A f \in PublishedForms : form[f].current \in Versions /\ version[form[f].current] # None

Approvals ==
  \A v \in Versions :
    version[v] # None /\ version[v].status # "in_review" =>
      version[v].approver \notin {None, version[v].author, form[version[v].of].author,
                                  purpose[version[v].notice].author}

(* What is so of the rows, whoever has been let in. *)
RowsInv == RowTypes /\ References /\ Approvals /\ ReviewedByAnother

FormInv == job \in [Requests -> FormJobs \cup {None}] /\ Alone /\ StillAllowed /\ RowsInv

(* What no step does: it deletes no row, changes no author, and leaves an   *)
(* active purpose active.                                                  *)
Keeps ==
  /\ \A p \in Purposes : purpose[p] # None =>
       /\ purpose'[p] # None /\ purpose'[p].author = purpose[p].author
       /\ purpose[p].status = "active" => purpose'[p].status = "active"
  /\ \A f \in Forms : form[f] # None =>
       form'[f] # None /\ form'[f].author = form[f].author

-----------------------------------------------------------------------------
LEMMA EndLeavesNobody ==
  ASSUME Alone, job \in [Requests -> FormJobs \cup {None}], NEW q \in Requests, End(q)
  PROVE  /\ job[q] \in FormJobs
         /\ job' \in [Requests -> FormJobs \cup {None}]
         /\ \A r \in Requests : job'[r] = None
  BY DEF Alone, End

LEMMA JobTypes ==
  ASSUME NEW j \in FormJobs
  PROVE  /\ j.action = "save_purpose" =>
              j.on \in Purposes /\ j.by \in People /\ j.allowed \in SUBSET Fields
         /\ j.action = "save_form" =>
              j.on \in Forms /\ j.by \in People /\ j.purpose \in Purposes
         /\ j.action = "draft" =>
              /\ j.on \in Forms /\ j.by \in People
              /\ j.version \in Versions /\ j.asks \in SUBSET Fields
         /\ j.action = "approve" => j.on \in Forms /\ j.by \in People /\ j.version \in Versions
         /\ j.action = "publish" => j.on \in Forms /\ j.version \in Versions
         /\ j.action \in {"link", "pause", "close"} => j.on \in Forms
  BY DEF FormJobs

(* The versions and what the forms show of them are as they were. *)
LEMMA SameVersions ==
  ASSUME RowsInv, Keeps, version' = version,
         \A f \in PublishedForms' :
           /\ f \in PublishedForms
           /\ form'[f].current = form[f].current /\ form'[f].purpose = form[f].purpose
  PROVE  Approvals' /\ ReviewedByAnother'
  <1> USE DEF RowsInv
  <1>1. \A v \in Versions : version[v] # None =>
          version[v] \in VersionRows /\ version[v].of \in Forms /\ version[v].notice \in Purposes
    BY DEF RowTypes, VersionRows
  <1>2. Approvals'
    BY <1>1 DEF Approvals, References, Keeps
  <1>3. ASSUME NEW f \in PublishedForms'
        PROVE  LET v == form'[f].current
                   p == form'[f].purpose
               IN  /\ v # None /\ version'[v].of = f /\ version'[v].status = "published"
                   /\ version'[v].approver \notin
                        {None, version'[v].author, form'[f].author, purpose'[p].author}
                   /\ version'[v].notice = p /\ purpose'[p].status = "active"
    <2>1. f \in Forms /\ form[f] # None /\ form[f].purpose \in Purposes
      BY <1>3 DEF PublishedForms, RowTypes, FormRows
    <2>2. /\ form'[f].author = form[f].author
          /\ purpose'[form[f].purpose].author = purpose[form[f].purpose].author
          /\ purpose[form[f].purpose].status = "active" =>
               purpose'[form[f].purpose].status = "active"
      BY <2>1 DEF Keeps, References
    <2> QED
      BY <1>3, <2>2 DEF ReviewedByAnother
  <1>4. ReviewedByAnother'
    BY <1>3 DEF ReviewedByAnother
  <1> QED
    BY <1>2, <1>4

-----------------------------------------------------------------------------
LEMMA FormInvInit == FormInit => FormInv
  BY FormAssumption
  DEF FormInit, DeskInit, FormInv, RowsInv, RowTypes, Alone, StillAllowed, References, Approvals,
      ReviewedByAnother, PublishedForms

LEMMA SavePurposeKeeps ==
  ASSUME RowsInv, NEW q \in Requests, SavePurpose(q), job[q] \in FormJobs, FormAllowed(job[q])
  PROVE  RowsInv'
  <1> USE DEF RowsInv
  <1>1. job[q].action = "save_purpose"
    BY DEF SavePurpose, Doing
  <1>2. PICK p \in Purposes, who \in People, fs \in SUBSET Fields :
          p = job[q].on /\ who = job[q].by /\ fs = job[q].allowed
    BY <1>1, JobTypes
  <1>3. Draft(purpose[p])
    BY <1>1, <1>2 DEF FormAllowed
  <1>4. /\ purpose' = [purpose EXCEPT ![p] =
             [status |-> "draft", allowed |-> fs,
              author |-> IF purpose[p] = None THEN who ELSE purpose[p].author]]
        /\ UNCHANGED <<form, version, linked>>
    BY <1>2 DEF SavePurpose
  <1>5. purpose'[p] \in PurposeRows
    BY <1>4 DEF RowTypes, PurposeRows
  <1>6. RowTypes'
    BY <1>4, <1>5 DEF RowTypes
  <1>7. /\ purpose'[p] # None /\ purpose'[p].status = "draft"
        /\ purpose[p] # None => purpose'[p].author = purpose[p].author
        /\ \A o \in Purposes : o # p => purpose'[o] = purpose[o]
    BY <1>4, <1>5, FormAssumption DEF RowTypes
  <1>8. Keeps
    BY <1>3, <1>4, <1>7 DEF Keeps, Draft
  <1>9. References'
    BY <1>4, <1>8 DEF References, Keeps, RowTypes, FormRows, VersionRows, PublishedForms
  <1>10. Approvals' /\ ReviewedByAnother'
    BY <1>4, <1>8, SameVersions DEF PublishedForms
  <1> QED
    BY <1>6, <1>9, <1>10

LEMMA SaveFormKeeps ==
  ASSUME RowsInv, NEW q \in Requests, SaveForm(q), job[q] \in FormJobs, FormAllowed(job[q])
  PROVE  RowsInv'
  <1> USE DEF RowsInv
  <1>1. job[q].action = "save_form"
    BY DEF SaveForm, Doing
  <1>2. PICK f \in Forms, who \in People, p \in Purposes :
          f = job[q].on /\ who = job[q].by /\ p = job[q].purpose
    BY <1>1, JobTypes
  <1>3. Draft(form[f]) /\ purpose[p] # None
    BY <1>1, <1>2 DEF FormAllowed
  <1>4. /\ form' = [form EXCEPT ![f] =
             [status |-> "draft", purpose |-> p, current |-> None,
              author |-> IF form[f] = None THEN who ELSE form[f].author]]
        /\ UNCHANGED <<purpose, version, linked>>
    BY <1>2 DEF SaveForm
  <1>5. form'[f] \in FormRows
    BY <1>4 DEF RowTypes, FormRows
  <1>6. RowTypes'
    BY <1>4, <1>5 DEF RowTypes
  <1>7. /\ form'[f] # None /\ form'[f].status = "draft" /\ form'[f].purpose = p
        /\ form[f] # None => form'[f].author = form[f].author
        /\ \A g \in Forms : g # f => form'[g] = form[g]
    BY <1>4, <1>5, FormAssumption DEF RowTypes
  <1>8. Keeps
    BY <1>4, <1>7 DEF Keeps
  <1>9. References'
    BY <1>3, <1>4, <1>7 DEF References, RowTypes, VersionRows, PublishedForms
  <1>10. Approvals' /\ ReviewedByAnother'
    BY <1>4, <1>7, <1>8, SameVersions DEF PublishedForms
  <1> QED
    BY <1>6, <1>9, <1>10

(* A new version is nobody's current version. *)
LEMMA DraftVersionKeeps ==
  ASSUME RowsInv, NEW q \in Requests, DraftVersion(q), job[q] \in FormJobs, FormAllowed(job[q])
  PROVE  RowsInv'
  <1> USE DEF RowsInv
  <1>1. job[q].action = "draft"
    BY DEF DraftVersion, Doing
  <1>2. PICK f \in Forms, who \in People, v \in Versions, fs \in SUBSET Fields :
          f = job[q].on /\ who = job[q].by /\ v = job[q].version /\ fs = job[q].asks
    BY <1>1, JobTypes
  <1>3. form[f] # None /\ version[v] = None
    BY <1>1, <1>2 DEF FormAllowed
  <1>4. /\ version' = [version EXCEPT ![v] =
             [status |-> "in_review", author |-> who, of |-> f, asks |-> fs,
              notice |-> form[f].purpose, approver |-> None]]
        /\ UNCHANGED <<purpose, form, linked>>
    BY <1>2 DEF DraftVersion
  <1>5. form[f].purpose \in Purposes /\ purpose[form[f].purpose] # None
    BY <1>3 DEF RowTypes, FormRows, References
  <1>6. version'[v] \in VersionRows
    BY <1>4, <1>5 DEF RowTypes, VersionRows
  <1>7. RowTypes'
    BY <1>4, <1>6 DEF RowTypes
  <1>8. /\ version'[v] # None /\ version'[v].status = "in_review"
        /\ version'[v].of = f /\ version'[v].notice = form[f].purpose
        /\ \A w \in Versions : w # v => version'[w] = version[w]
    BY <1>4, <1>6, FormAssumption DEF RowTypes
  <1>9. PublishedForms' = PublishedForms
    BY <1>4 DEF PublishedForms
  <1>10. References'
    BY <1>3, <1>4, <1>5, <1>8, <1>9 DEF References
  <1>11. Approvals'
    BY <1>4, <1>8 DEF Approvals
  <1>12. \A g \in PublishedForms : form[g].current \in Versions /\ form[g].current # v
    BY <1>3 DEF References
  <1>13. ReviewedByAnother'
    BY <1>4, <1>8, <1>9, <1>12 DEF ReviewedByAnother
  <1> QED
    BY <1>7, <1>10, <1>11, <1>13

(* The approver is none of the authors, and no current version is approved again. *)
LEMMA ApproveVersionKeeps ==
  ASSUME RowsInv, NEW q \in Requests, ApproveVersion(q), job[q] \in FormJobs, FormAllowed(job[q])
  PROVE  RowsInv'
  <1> USE DEF RowsInv
  <1>1. job[q].action = "approve"
    BY DEF ApproveVersion, Doing
  <1>2. PICK f \in Forms, who \in People, v \in Versions :
          f = job[q].on /\ who = job[q].by /\ v = job[q].version
    BY <1>1, JobTypes
  <1>3. /\ version[v] # None /\ version[v].of = f /\ version[v].status = "in_review"
        /\ who \notin {form[f].author, purpose[form[f].purpose].author, version[v].author}
        /\ version[v].notice = form[f].purpose
    BY <1>1, <1>2 DEF FormAllowed, InReviewOrLater, Independent, NoticeFits
  <1>4. version[v] \in VersionRows /\ form[f] \in FormRows
    BY <1>3 DEF RowTypes, References
  <1>5. PICK p \in Purposes : p = form[f].purpose /\ purpose[p] \in PurposeRows
    BY <1>3, <1>4 DEF RowTypes, References, FormRows
  <1>6. /\ version' = [version EXCEPT ![v] = [[@ EXCEPT !.status = "approved"]
                                               EXCEPT !.approver = who]]
        /\ purpose' = [purpose EXCEPT ![p] = [@ EXCEPT !.status = "active"]]
        /\ UNCHANGED <<form, linked>>
    BY <1>2, <1>5 DEF ApproveVersion, RowTypes
  <1>7. /\ version'[v] \in VersionRows /\ version'[v].status = "approved"
        /\ version'[v].approver = who
        /\ version'[v].of = f /\ version'[v].notice = p /\ version'[v].author = version[v].author
        /\ \A w \in Versions : w # v => version'[w] = version[w]
    BY <1>3, <1>4, <1>5, <1>6 DEF RowTypes, VersionRows
  <1>8. /\ purpose'[p] \in PurposeRows /\ purpose'[p].status = "active"
        /\ purpose'[p].author = purpose[p].author
        /\ \A o \in Purposes : o # p => purpose'[o] = purpose[o]
    BY <1>5, <1>6 DEF RowTypes, PurposeRows
  <1>9. RowTypes'
    BY <1>6, <1>7, <1>8 DEF RowTypes
  <1>10. Keeps /\ version'[v] # None
    BY <1>6, <1>7, <1>8, FormAssumption DEF Keeps
  <1>11. PublishedForms' = PublishedForms
    BY <1>6 DEF PublishedForms
  <1>12. References'
    BY <1>3, <1>4, <1>5, <1>6, <1>7, <1>10, <1>11
    DEF References, Keeps, RowTypes, FormRows, VersionRows
  <1>13. Approvals'
    <2>1. ASSUME NEW w \in Versions, version'[w] # None, version'[w].status # "in_review"
          PROVE  version'[w].approver \notin
                   {None, version'[w].author, form'[version'[w].of].author,
                    purpose'[version'[w].notice].author}
      <3>1. CASE w = v
        BY <1>3, <1>5, <1>6, <1>7, <1>8, <3>1, FormAssumption
      <3>2. CASE w # v
        <4>1. version'[w] = version[w] /\ version[w] \in VersionRows
          BY <1>7, <2>1, <3>2 DEF RowTypes
        <4>2. purpose'[version[w].notice].author = purpose[version[w].notice].author
          BY <1>8, <4>1 DEF VersionRows
        <4> QED
          BY <1>6, <2>1, <4>1, <4>2 DEF Approvals
      <3> QED
        BY <3>1, <3>2
    <2> QED
      BY <2>1 DEF Approvals
  <1>14. \A g \in PublishedForms : form[g].current \in Versions /\ form[g].current # v
    BY <1>3 DEF References, ReviewedByAnother
  <1>15. ReviewedByAnother'
    <2>1. ASSUME NEW g \in PublishedForms
          PROVE  /\ form[g].purpose \in Purposes
                 /\ purpose'[form[g].purpose].author = purpose[form[g].purpose].author
                 /\ purpose'[form[g].purpose].status = "active"
      BY <1>8, <2>1 DEF PublishedForms, RowTypes, FormRows, ReviewedByAnother
    <2> QED
      BY <1>6, <1>7, <1>11, <1>14, <2>1 DEF ReviewedByAnother
  <1> QED
    BY <1>9, <1>12, <1>13, <1>15

(* What is published was approved, for the purpose the form has. *)
LEMMA PublishVersionKeeps ==
  ASSUME RowsInv, NEW q \in Requests, PublishVersion(q), job[q] \in FormJobs, FormAllowed(job[q])
  PROVE  RowsInv'
  <1> USE DEF RowsInv
  <1>1. job[q].action = "publish"
    BY DEF PublishVersion, Doing
  <1>2. PICK f \in Forms, v \in Versions : f = job[q].on /\ v = job[q].version
    BY <1>1, JobTypes
  <1>3. /\ version[v] # None /\ version[v].of = f /\ version[v].status = "approved"
        /\ version[v].notice = form[f].purpose /\ purpose[form[f].purpose].status = "active"
    BY <1>1, <1>2 DEF FormAllowed, InReviewOrLater, NoticeFits
  <1>4. version[v] \in VersionRows /\ form[f] \in FormRows
    BY <1>3 DEF RowTypes, References
  <1>5. /\ version' = [version EXCEPT ![v] = [@ EXCEPT !.status = "published"]]
        /\ form' = [form EXCEPT ![f] = [[@ EXCEPT !.status = "published"] EXCEPT !.current = v]]
        /\ UNCHANGED <<purpose, linked>>
    BY <1>2 DEF PublishVersion, RowTypes
  <1>6. /\ version'[v] \in VersionRows /\ version'[v].status = "published"
        /\ version'[v].approver = version[v].approver /\ version'[v].author = version[v].author
        /\ version'[v].of = f /\ version'[v].notice = form[f].purpose
        /\ \A w \in Versions : w # v => version'[w] = version[w]
    BY <1>3, <1>4, <1>5 DEF RowTypes, VersionRows
  <1>7. /\ form'[f] \in FormRows /\ form'[f].current = v
        /\ form'[f].author = form[f].author /\ form'[f].purpose = form[f].purpose
        /\ \A g \in Forms : g # f => form'[g] = form[g]
    BY <1>4, <1>5 DEF RowTypes, FormRows
  <1>8. RowTypes'
    BY <1>5, <1>6, <1>7 DEF RowTypes
  <1>9. version'[v] # None /\ form'[f] # None
    BY <1>6, <1>7, FormAssumption
  <1>10. \A g \in PublishedForms' : g \in PublishedForms \/ g = f
    BY <1>7 DEF PublishedForms
  <1>11. References'
    BY <1>3, <1>4, <1>5, <1>6, <1>7, <1>9, <1>10
    DEF References, RowTypes, FormRows, VersionRows, PublishedForms
  <1>12. \A g \in Forms : form'[g].author = form[g].author
    BY <1>7
  <1>13. version[v].approver \notin {None, version[v].author, form[f].author,
                                     purpose[form[f].purpose].author}
    BY <1>3 DEF Approvals
  <1>14. Approvals'
    <2>1. ASSUME NEW w \in Versions, version'[w] # None, version'[w].status # "in_review"
          PROVE  version'[w].approver \notin
                   {None, version'[w].author, form'[version'[w].of].author,
                    purpose'[version'[w].notice].author}
      <3>1. CASE w = v
        BY <1>5, <1>6, <1>12, <1>13, <3>1
      <3>2. CASE w # v
        <4>1. version'[w] = version[w] /\ version[w] \in VersionRows
          BY <1>6, <2>1, <3>2 DEF RowTypes
        <4> QED
          BY <1>5, <1>12, <2>1, <4>1 DEF Approvals, VersionRows
      <3> QED
        BY <3>1, <3>2
    <2> QED
      BY <2>1 DEF Approvals
  <1>15. \A g \in PublishedForms : form[g].current \in Versions /\ form[g].current # v
    BY <1>3 DEF References, ReviewedByAnother
  <1>16. ASSUME NEW g \in PublishedForms'
         PROVE  /\ form'[g].current # None /\ version'[form'[g].current].of = g
                /\ version'[form'[g].current].status = "published"
                /\ version'[form'[g].current].approver \notin
                     {None, version'[form'[g].current].author, form'[g].author,
                      purpose'[form'[g].purpose].author}
                /\ version'[form'[g].current].notice = form'[g].purpose
                /\ purpose'[form'[g].purpose].status = "active"
    <2>1. CASE g = f
      BY <1>3, <1>5, <1>6, <1>7, <1>13, <2>1, FormAssumption
    <2>2. CASE g # f
      BY <1>5, <1>6, <1>7, <1>10, <1>15, <2>2 DEF ReviewedByAnother, PublishedForms
    <2> QED
      BY <2>1, <2>2
  <1>17. ReviewedByAnother'
    BY <1>16 DEF ReviewedByAnother
  <1> QED
    BY <1>8, <1>11, <1>14, <1>17

LEMMA LinkPauseCloseKeeps ==
  ASSUME RowsInv, NEW q \in Requests, LinkPauseClose(q), job[q] \in FormJobs, FormAllowed(job[q])
  PROVE  RowsInv'
  <1> USE DEF RowsInv
  <1>1. job[q].action \in {"link", "pause", "close"}
    BY DEF LinkPauseClose, Doing
  <1>2. PICK f \in Forms : f = job[q].on
    BY <1>1, JobTypes
  <1>3. form[f] \in FormRows
    BY <1>1, <1>2 DEF FormAllowed, RowTypes
  <1>4. PICK s \in {"paused", "closed"} :
          form' = form \/ form' = [form EXCEPT ![f] = [@ EXCEPT !.status = s]]
    BY <1>2 DEF LinkPauseClose, RowTypes
  <1>5. linked' \subseteq Forms /\ UNCHANGED <<purpose, version>>
    BY <1>2 DEF LinkPauseClose, RowTypes
  <1>6. /\ form'[f] \in FormRows
        /\ form'[f].author = form[f].author /\ form'[f].purpose = form[f].purpose
        /\ form'[f] = form[f] \/ form'[f].status # "published"
        /\ \A g \in Forms : g # f => form'[g] = form[g]
    BY <1>3, <1>4 DEF RowTypes, FormRows
  <1>7. RowTypes'
    BY <1>4, <1>5, <1>6 DEF RowTypes
  <1>8. Keeps /\ form'[f] # None
    BY <1>5, <1>6, FormAssumption DEF Keeps
  <1>9. \A g \in PublishedForms' : g \in PublishedForms /\ form'[g] = form[g]
    BY <1>6 DEF PublishedForms
  <1>10. References'
    <2>1. \A g \in Forms : form'[g] # None => form[g] # None /\ form'[g].purpose = form[g].purpose
      BY <1>3, <1>6, FormAssumption
    <2>2. \A v \in Versions : version[v] # None => version[v].of \in Forms
      BY DEF RowTypes, VersionRows
    <2>3. \A g \in Forms : form'[g] # None => purpose[form'[g].purpose] # None
      BY <2>1 DEF References
    <2>4. \A v \in Versions : version[v] # None =>
            form'[version[v].of] # None /\ purpose[version[v].notice] # None
      BY <1>8, <2>2 DEF References, Keeps
    <2> QED
      BY <1>5, <1>9, <2>3, <2>4 DEF References
  <1>11. Approvals' /\ ReviewedByAnother'
    BY <1>5, <1>8, <1>9, SameVersions
  <1> QED
    BY <1>7, <1>10, <1>11

-----------------------------------------------------------------------------
LEMMA SameRows ==
  ASSUME RowsInv, UNCHANGED <<purpose, form, version, linked>>
  PROVE  RowsInv'
  <1> USE DEF RowsInv
  <1>1. PublishedForms' = PublishedForms
    BY DEF PublishedForms
  <1>2. RowTypes' /\ References' /\ Keeps
    BY <1>1 DEF RowTypes, References, Keeps
  <1> QED
    BY <1>1, <1>2, SameVersions

LEMMA EnterKeeps ==
  ASSUME FormInv, NEW q \in Requests, NEW j \in FormJobs, FormEnter(q, j)
  PROVE  FormInv'
  <1> USE DEF FormInv
  <1>1. /\ job' \in [Requests -> FormJobs \cup {None}]
        /\ \A r \in Requests : job'[r] \in {j, None}
        /\ Alone'
    BY DEF FormEnter, Begin, Alone
  <1>2. FormAllowed(j) /\ UNCHANGED <<purpose, form, version, linked>>
    BY DEF FormEnter, formRows
  <1>3. FormAllowed(j)'
    BY <1>2 DEF FormAllowed, Draft, InReviewOrLater, Independent, NoticeFits
  <1>4. StillAllowed'
    BY <1>1, <1>3 DEF StillAllowed
  <1> QED
    BY <1>1, <1>2, <1>4, SameRows

LEMMA CommitKeeps ==
  ASSUME FormInv, NEW q \in Requests, FormCommit(q) \/ FormRollback(q)
  PROVE  FormInv'
  <1>1. End(q)
    BY DEF FormCommit, FormRollback, SavePurpose, SaveForm, DraftVersion, ApproveVersion,
           PublishVersion, LinkPauseClose
  <1>2. /\ job[q] \in FormJobs
        /\ job' \in [Requests -> FormJobs \cup {None}]
        /\ \A r \in Requests : job'[r] = None
    BY <1>1, EndLeavesNobody DEF FormInv
  <1>3. Alone' /\ StillAllowed'
    BY <1>2 DEF Alone, StillAllowed
  <1>4. FormAllowed(job[q]) /\ RowsInv
    BY <1>1 DEF End, FormInv, StillAllowed
  <1>5. RowsInv'
    BY <1>2, <1>4, SavePurposeKeeps, SaveFormKeeps, DraftVersionKeeps, ApproveVersionKeeps,
       PublishVersionKeeps, LinkPauseCloseKeeps, SameRows DEF FormCommit, FormRollback, formRows
  <1> QED
    BY <1>2, <1>3, <1>5 DEF FormInv

LEMMA FormInvStep == FormInv /\ [FormNext]_formVars => FormInv'
  <1>1. SUFFICES ASSUME FormInv, [FormNext]_formVars PROVE FormInv'
    OBVIOUS
  <1>2. CASE UNCHANGED formVars
    <2>1. UNCHANGED <<purpose, form, version, linked, job>>
      BY <1>2 DEF formVars, formRows
    <2>2. StillAllowed' /\ Alone'
      BY <1>1, <2>1 DEF FormInv, StillAllowed, Alone, FormAllowed, Draft, InReviewOrLater,
                        Independent, NoticeFits
    <2> QED
      BY <1>1, <2>1, <2>2, SameRows DEF FormInv
  <1>3. CASE FormNext
    BY <1>1, <1>3, EnterKeeps, CommitKeeps DEF FormNext
  <1> QED
    BY <1>1, <1>2, <1>3

(* The current version of a published form was approved by somebody who     *)
(* wrote neither it nor the form nor its purpose, for any number of people, *)
(* purposes, forms and versions (form_builder, publish_form_version).      *)
THEOREM PublishedWasReviewed == FormSpec => []ReviewedByAnother
  <1>1. FormInv => ReviewedByAnother
    BY DEF FormInv, RowsInv
  <1> QED
    BY <1>1, FormInvInit, FormInvStep, PTL DEF FormSpec

-----------------------------------------------------------------------------
(* The intake.  A public submission holds a published form, so nobody      *)
(* closes the form under it, and the campaign is not archived while there  *)
(* is one.                                                                 *)
IntakeTypes ==
  /\ DOMAIN form = Forms
  /\ phase \in Phases
  /\ post \in [Posts -> Answers \cup {None}]
  /\ accepted \in Seq(Answers)
  /\ job \in [Requests -> FormJobs \cup IntakeJobs \cup {None}]

(* What a request with the campaign's row relies on.                       *)
RequestsAllowed ==
  \A q \in Requests : job[q] # None =>
    /\ job[q].action \in {"draft", "approve", "publish", "link", "pause", "close",
                          "assist", "advance"} => phase # "archived"
    /\ job[q].action = "advance" /\ phase = "closing" => PublishedForms = {}
    /\ job[q].action = "assist" => KeyFits(job[q].answer) /\ job[q].answer.form = job[q].on

(* A form is held by one transaction. *)
FormsHeld ==
  \A i \in Posts : post[i] # None =>
    /\ post[i].form \in PublishedForms /\ KeyFits(post[i])
    /\ \A k \in Posts : post[k] # None /\ post[k].form = post[i].form => k = i
    /\ \A q \in Requests : job[q] # None => job[q].on # post[i].form

NothingOpen == phase = "archived" => PublishedForms = {}

IntakeInv ==
  IntakeTypes /\ Alone /\ RequestsAllowed /\ FormsHeld /\ NothingOpen /\ AnsweredIsStored

(* What ArchivedStaysClosed says of one step. *)
ClosedStep ==
  phase' = "archived" =>
    /\ PublishedForms' = {}
    /\ phase = "archived" => UNCHANGED <<phase, version, linked, accepted>>

-----------------------------------------------------------------------------
LEMMA IntakeJobTypes ==
  ASSUME NEW j \in FormJobs \cup IntakeJobs
  PROVE  /\ j.action \in {"save_purpose", "save_form", "draft", "approve", "publish",
                          "link", "pause", "close"} <=> j \in FormJobs
         /\ j.action = "assist" => j.on \in Forms /\ j.answer \in Answers
         /\ j.action \in {"advance", "list", "complete", "close_request"} => j.on \notin Forms
  <1>1. j \in FormJobs => j.action \in {"save_purpose", "save_form", "draft", "approve", "publish",
                                        "link", "pause", "close"}
    BY DEF FormJobs
  <1>2. j \in IntakeJobs =>
          j.action \in {"assist", "advance", "list", "complete", "close_request"}
    BY DEF IntakeJobs
  <1>3. j \in IntakeJobs => /\ j.action = "assist" => j.on \in Forms /\ j.answer \in Answers
                            /\ j.action = "advance" => j.on = None
                            /\ j.action \in {"list", "complete"} => j.on \in Items
                            /\ j.action = "close_request" => j.on \in Numbers
    BY DEF IntakeJobs
  <1>4. Forms \cap (Items \cup Numbers \cup {None}) = {}
    BY IntakeAssumption
  <1> QED
    BY <1>1, <1>2, <1>3, <1>4

(* What is stored is told, and the key of another form is as free as before. *)
LEMMA StoreKeepsAnswers ==
  ASSUME accepted \in Seq(Answers), AnsweredIsStored, NEW a \in Answers, KeyFits(a), Store(a)
  PROVE  /\ accepted' \in Seq(Answers) /\ AnsweredIsStored'
         /\ \A b \in Answers : b.form # a.form /\ KeyFits(b) => KeyFits(b)'
  <1>1. CASE \E b \in Accepted : SameKey(a, b)
    <2>1. accepted' = accepted /\ a \in Accepted /\ answered' = answered \cup {a}
      BY <1>1 DEF Store, KeyFits
    <2> QED
      BY <2>1 DEF AnsweredIsStored, Accepted, KeyFits
  <1>2. CASE ~\E b \in Accepted : SameKey(a, b)
    <2>1. accepted' = Append(accepted, a) /\ answered' = answered \cup {a}
      BY <1>2 DEF Store
    <2>2. /\ accepted' \in Seq(Answers)
          /\ DOMAIN accepted' = 1..(Len(accepted) + 1) /\ DOMAIN accepted = 1..Len(accepted)
          /\ Len(accepted) \in Nat
          /\ accepted'[Len(accepted) + 1] = a
          /\ \A n \in 1..Len(accepted) : accepted'[n] = accepted[n]
      BY <2>1
    <2>3. Accepted' = Accepted \cup {a}
      BY <2>2 DEF Accepted
    <2>4. ASSUME NEW m \in DOMAIN accepted', NEW n \in DOMAIN accepted',
                 SameKey(accepted'[m], accepted'[n])
          PROVE  m = n
      <3>1. SameKey(a, accepted'[m]) \/ SameKey(a, accepted'[n])
              => m = Len(accepted) + 1 \/ n = Len(accepted) + 1
        BY <2>2, <1>2 DEF Accepted
      <3>2. CASE m \in 1..Len(accepted) /\ n \in 1..Len(accepted)
        BY <2>2, <2>4, <3>2 DEF AnsweredIsStored
      <3>3. CASE m = Len(accepted) + 1 /\ n \in 1..Len(accepted)
        BY <2>2, <2>4, <3>3, <1>2 DEF Accepted
      <3>4. CASE n = Len(accepted) + 1 /\ m \in 1..Len(accepted)
        <4>1. SameKey(a, accepted[m])
          BY <2>2, <2>4, <3>4 DEF SameKey
        <4> QED
          BY <4>1, <2>2, <3>4, <1>2 DEF Accepted
      <3> QED
        BY <2>2, <3>2, <3>3, <3>4
    <2>5. AnsweredIsStored'
      BY <2>1, <2>3, <2>4 DEF AnsweredIsStored
    <2>6. ASSUME NEW b \in Answers, b.form # a.form, KeyFits(b) PROVE KeyFits(b)'
      <3>1. ~SameKey(b, a)
        BY <2>6 DEF SameKey
      <3> QED
        BY <2>3, <2>6, <3>1 DEF KeyFits
    <2> QED
      BY <2>2, <2>5, <2>6
  <1> QED
    BY <1>1, <1>2

-----------------------------------------------------------------------------
LEMMA IntakeInvInit == IntakeInit => IntakeInv
  <1>1. SUFFICES ASSUME IntakeInit PROVE IntakeInv
    OBVIOUS
  <1>2. accepted = <<>> /\ answered = {} /\ accepted \in Seq(Answers) /\ DOMAIN accepted = {}
    BY <1>1 DEF IntakeInit
  <1>3. AnsweredIsStored
    BY <1>2 DEF AnsweredIsStored, Accepted
  <1> QED
    BY <1>1, <1>2, <1>3
    DEF IntakeInit, FormInit, DeskInit, IntakeInv, IntakeTypes, Phases, Alone, RequestsAllowed,
        FormsHeld, NothingOpen

(* Rows, posts and answers are as they were. *)
LEMMA OnlyJobsMove ==
  ASSUME IntakeInv, UNCHANGED <<form, phase, post, accepted, answered>>
  PROVE  /\ NothingOpen' /\ AnsweredIsStored'
         /\ PublishedForms' = PublishedForms
         /\ \A a : KeyFits(a)' <=> KeyFits(a)
  BY DEF IntakeInv, NothingOpen, PublishedForms, AnsweredIsStored, Accepted, KeyFits

LEMMA EnterIntakeKeeps ==
  ASSUME IntakeInv, NEW q \in Requests, NEW j \in FormJobs \cup IntakeJobs,
         Begin(q, j), UNCHANGED <<form, phase, post, accepted, answered>>,
         \A i \in Posts : post[i] # None => post[i].form # j.on,
         j.action \in {"draft", "approve", "publish", "link", "pause", "close",
                       "assist", "advance"} => phase # "archived",
         j.action = "advance" /\ phase = "closing" => PublishedForms = {},
         j.action = "assist" => KeyFits(j.answer) /\ j.answer.form = j.on
  PROVE  IntakeInv'
  <1> USE DEF IntakeInv
  <1>1. /\ job' \in [Requests -> FormJobs \cup IntakeJobs \cup {None}]
        /\ \A r \in Requests : job'[r] \in {j, None}
        /\ Alone'
    BY DEF Begin, IntakeTypes, Alone
  <1>2. IntakeTypes'
    BY <1>1 DEF IntakeTypes
  <1>3. RequestsAllowed'
    BY <1>1, OnlyJobsMove DEF RequestsAllowed
  <1>4. FormsHeld'
    BY <1>1, OnlyJobsMove DEF FormsHeld
  <1> QED
    BY <1>1, <1>2, <1>3, <1>4, OnlyJobsMove

LEMMA BuilderEnterKeeps ==
  ASSUME IntakeInv, NEW q \in Requests, NEW j \in FormJobs, BuilderEnter(q, j)
  PROVE  IntakeInv' /\ ClosedStep
  <1>1. /\ Begin(q, j) /\ UNCHANGED <<form, version, linked, phase, post, accepted, answered>>
        /\ \A i \in Posts : post[i] # None => post[i].form # j.on
        /\ j.action \in {"save_purpose", "save_form"} \/ phase # "archived"
    BY DEF BuilderEnter, FormEnter, formRows, intakeRows, FormFree
  <1>2. j.action \notin {"assist", "advance"}
    BY DEF FormJobs
  <1> QED
    BY <1>1, <1>2, EnterIntakeKeeps DEF ClosedStep, IntakeInv, NothingOpen, PublishedForms

LEMMA IntakeEnterKeeps ==
  ASSUME IntakeInv, NEW q \in Requests, NEW j \in IntakeJobs, IntakeEnter(q, j)
  PROVE  IntakeInv' /\ ClosedStep
  <1>1. /\ Begin(q, j) /\ UNCHANGED <<form, version, linked, phase, post, accepted, answered>>
        /\ IntakeAllowed(j)
    BY DEF IntakeEnter, formRows, intakeRows
  <1>2. j.action \in {"assist", "advance", "list", "complete", "close_request"}
    BY DEF IntakeJobs
  <1>3. j.action = "assist" => /\ phase # "archived" /\ KeyFits(j.answer)
                               /\ j.answer.form = j.on /\ FormFree(j.on)
    BY <1>1 DEF IntakeAllowed, Receivable
  <1>4. j.action = "advance" => /\ phase # "archived"
                                /\ phase = "closing" => PublishedForms = {}
    BY <1>1 DEF IntakeAllowed, Archivable
  <1>5. ASSUME NEW i \in Posts, post[i] # None PROVE post[i].form # j.on
    <2>1. post[i].form \in Forms
      BY <1>5 DEF IntakeInv, FormsHeld, PublishedForms
    <2> QED
      BY <1>2, <1>3, <1>5, <2>1, IntakeJobTypes DEF FormFree
  <1> QED
    BY <1>1, <1>2, <1>3, <1>4, <1>5, EnterIntakeKeeps
    DEF ClosedStep, IntakeInv, NothingOpen, PublishedForms

-----------------------------------------------------------------------------
LEMMA EndsAlone ==
  ASSUME IntakeInv, NEW q \in Requests, End(q)
  PROVE  /\ job[q] \in FormJobs \cup IntakeJobs
         /\ job' \in [Requests -> FormJobs \cup IntakeJobs \cup {None}]
         /\ \A r \in Requests : job'[r] = None
         /\ Alone' /\ RequestsAllowed'
  BY DEF End, IntakeInv, IntakeTypes, Alone, RequestsAllowed

(* A commit that leaves forms, posts and answers alone. *)
LEMMA EndKeeps ==
  ASSUME IntakeInv, NEW q \in Requests, End(q), UNCHANGED <<form, phase, post, accepted, answered>>
  PROVE  IntakeInv'
  <1>1. FormsHeld'
    BY EndsAlone, OnlyJobsMove DEF IntakeInv, FormsHeld
  <1> QED
    BY <1>1, EndsAlone, OnlyJobsMove DEF IntakeInv, IntakeTypes

LEMMA BuildKeeps ==
  ASSUME IntakeInv, NEW q \in Requests, Build(q)
  PROVE  IntakeInv' /\ ClosedStep
  <1>1. /\ End(q) /\ job[q] # None /\ UNCHANGED <<phase, post, accepted, answered>>
        /\ FormCommit(q)
    BY DEF Build, FormCommit, SavePurpose, SaveForm, DraftVersion, ApproveVersion,
           PublishVersion, LinkPauseClose, End, intakeRows
  <1>2. /\ DOMAIN form' = Forms
        /\ \A f \in Forms : f # job[q].on => form'[f] = form[f]
    BY <1>1 DEF IntakeInv, IntakeTypes, FormCommit, SavePurpose, SaveForm, DraftVersion,
                ApproveVersion, PublishVersion, LinkPauseClose
  <1>3. phase = "archived" => /\ UNCHANGED <<version, linked>>
                              /\ PublishedForms' \subseteq PublishedForms
    <2>1. SUFFICES ASSUME phase = "archived"
                   PROVE  UNCHANGED <<version, linked>> /\ PublishedForms' \subseteq PublishedForms
      OBVIOUS
    <2>2. job[q].action \notin {"draft", "approve", "publish", "link", "pause", "close"}
      BY <1>1, <2>1 DEF IntakeInv, RequestsAllowed
    <2>3. SavePurpose(q) \/ SaveForm(q)
      BY <1>1, <2>2 DEF FormCommit, DraftVersion, ApproveVersion, PublishVersion, LinkPauseClose,
                        Doing
    <2>4. CASE SavePurpose(q)
      BY <2>4 DEF SavePurpose, PublishedForms
    <2>5. CASE SaveForm(q)
      <3>1. UNCHANGED <<version, linked>>
        BY <2>5 DEF SaveForm
      <3>2. job[q].on \in Forms => form'[job[q].on].status = "draft"
        BY <2>5 DEF SaveForm, IntakeInv, IntakeTypes
      <3> QED
        BY <1>2, <3>1, <3>2 DEF PublishedForms
    <2> QED
      BY <2>3, <2>4, <2>5
  <1>4. AnsweredIsStored' /\ \A a : KeyFits(a)' <=> KeyFits(a)
    BY <1>1 DEF IntakeInv, AnsweredIsStored, Accepted, KeyFits
  <1>5. FormsHeld'
    <2>1. ASSUME NEW i \in Posts, post[i] # None PROVE post[i].form \in PublishedForms'
      BY <1>1, <1>2, <2>1 DEF IntakeInv, FormsHeld, PublishedForms
    <2> QED
      BY <1>1, <1>4, <2>1, EndsAlone DEF IntakeInv, FormsHeld
  <1>6. NothingOpen' /\ ClosedStep
    BY <1>1, <1>3 DEF IntakeInv, NothingOpen, ClosedStep
  <1> QED
    BY <1>1, <1>2, <1>4, <1>5, <1>6, EndsAlone DEF IntakeInv, IntakeTypes

LEMMA AssistKeeps ==
  ASSUME IntakeInv, NEW q \in Requests, Assist(q)
  PROVE  IntakeInv' /\ ClosedStep
  <1>1. /\ End(q) /\ job[q] # None /\ job[q].action = "assist"
        /\ UNCHANGED <<form, version, linked, phase, post>>
        /\ Store(job[q].answer)
    BY DEF Assist, Doing, formRows
  <1>2. /\ job[q].answer \in Answers /\ job[q].on \in Forms
    BY <1>1, EndsAlone, IntakeJobTypes
  <1>3. phase # "archived" /\ KeyFits(job[q].answer) /\ job[q].answer.form = job[q].on
    BY <1>1 DEF IntakeInv, RequestsAllowed
  <1>4. /\ accepted' \in Seq(Answers) /\ AnsweredIsStored'
        /\ \A b \in Answers : b.form # job[q].on /\ KeyFits(b) => KeyFits(b)'
    BY <1>1, <1>2, <1>3, StoreKeepsAnswers DEF IntakeInv, IntakeTypes
  <1>5. PublishedForms' = PublishedForms
    BY <1>1 DEF PublishedForms
  <1>6. FormsHeld'
    BY <1>1, <1>4, <1>5, EndsAlone DEF IntakeInv, IntakeTypes, FormsHeld
  <1> QED
    BY <1>1, <1>3, <1>4, <1>5, <1>6, EndsAlone
    DEF IntakeInv, IntakeTypes, NothingOpen, ClosedStep

LEMMA AdvancePhaseKeeps ==
  ASSUME IntakeInv, NEW q \in Requests, AdvancePhase(q)
  PROVE  IntakeInv' /\ ClosedStep
  <1>1. /\ End(q) /\ job[q] # None /\ job[q].action = "advance"
        /\ UNCHANGED <<form, post, accepted, answered>> /\ phase' = NextPhase[phase]
    BY DEF AdvancePhase, Doing, formRows
  <1>2. phase # "archived" /\ (phase = "closing" => PublishedForms = {})
    BY <1>1 DEF IntakeInv, RequestsAllowed
  <1>3. phase' \in Phases /\ (phase' = "archived" => phase = "closing")
    BY <1>1, <1>2 DEF IntakeInv, IntakeTypes, Phases, NextPhase
  <1>4. /\ PublishedForms' = PublishedForms /\ AnsweredIsStored'
        /\ \A a : KeyFits(a)' <=> KeyFits(a)
    BY <1>1 DEF IntakeInv, PublishedForms, AnsweredIsStored, Accepted, KeyFits
  <1>5. FormsHeld'
    BY <1>1, <1>4, EndsAlone DEF IntakeInv, FormsHeld
  <1> QED
    BY <1>1, <1>2, <1>3, <1>4, <1>5, EndsAlone
    DEF IntakeInv, IntakeTypes, NothingOpen, ClosedStep

(* The requests about the checklist and the service requests, and a rollback. *)
LEMMA OtherCommitKeeps ==
  ASSUME IntakeInv, NEW q \in Requests, SaveItem(q) \/ CloseRequest(q) \/ IntakeRollback(q)
  PROVE  IntakeInv' /\ ClosedStep
  <1>1. End(q) /\ UNCHANGED <<form, version, linked, phase, post, accepted, answered>>
    BY DEF SaveItem, CloseRequest, IntakeRollback, formRows, intakeRows
  <1> QED
    BY <1>1, EndKeeps, OnlyJobsMove DEF IntakeInv, NothingOpen, ClosedStep

-----------------------------------------------------------------------------
LEMMA ReadAndLockKeeps ==
  ASSUME IntakeInv, NEW i \in Posts, NEW a \in Answers, ReadAndLock(i, a)
  PROVE  IntakeInv' /\ ClosedStep
  <1>1. /\ post' = [post EXCEPT ![i] = a]
        /\ UNCHANGED <<form, version, linked, phase, accepted, answered, job>>
        /\ FormFree(a.form) /\ KeyFits(a)
        /\ form[a.form] # None /\ form[a.form].status = "published"
    BY DEF ReadAndLock, Receivable, formRows, intakeRows
  <1>2. a.form \in Forms /\ a.form \in PublishedForms
    BY <1>1 DEF Answers, PublishedForms
  <1>3. /\ post' \in [Posts -> Answers \cup {None}] /\ post'[i] = a
        /\ \A k \in Posts : k # i => post'[k] = post[k]
    BY <1>1 DEF IntakeInv, IntakeTypes
  <1>4. /\ PublishedForms' = PublishedForms /\ AnsweredIsStored'
        /\ \A b : KeyFits(b)' <=> KeyFits(b)
    BY <1>1 DEF IntakeInv, PublishedForms, AnsweredIsStored, Accepted, KeyFits
  <1>5. ASSUME NEW k \in Posts, post'[k] # None
        PROVE  /\ post'[k].form \in PublishedForms /\ KeyFits(post'[k])
               /\ \A l \in Posts : post'[l] # None /\ post'[l].form = post'[k].form => l = k
               /\ \A q \in Requests : job[q] # None => job[q].on # post'[k].form
    <2>1. CASE k = i
      BY <1>1, <1>2, <1>3, <2>1 DEF FormFree
    <2>2. CASE k # i
      <3>1. post'[k] = post[k] /\ post[k] # None /\ post[k].form # a.form
        BY <1>1, <1>3, <1>5, <2>2 DEF FormFree
      <3> QED
        BY <1>3, <3>1 DEF IntakeInv, FormsHeld
    <2> QED
      BY <2>1, <2>2
  <1>6. FormsHeld'
    BY <1>1, <1>4, <1>5 DEF FormsHeld
  <1>7. Alone' /\ RequestsAllowed'
    BY <1>1, <1>4 DEF IntakeInv, Alone, RequestsAllowed
  <1> QED
    BY <1>1, <1>3, <1>4, <1>6, <1>7 DEF IntakeInv, IntakeTypes, NothingOpen, ClosedStep

(* Fewer posts. *)
LEMMA SubmitKeeps ==
  ASSUME IntakeInv, NEW i \in Posts, Submit(i)
  PROVE  IntakeInv' /\ ClosedStep
  <1>1. /\ post[i] # None /\ post' = [post EXCEPT ![i] = None] /\ Store(post[i])
        /\ \A q \in Requests : job[q] = None
        /\ UNCHANGED <<form, version, linked, phase, job>>
    BY DEF Submit, formRows
  <1>2. /\ post[i] \in Answers /\ KeyFits(post[i]) /\ PublishedForms # {}
    BY <1>1 DEF IntakeInv, IntakeTypes, FormsHeld
  <1>3. /\ accepted' \in Seq(Answers) /\ AnsweredIsStored'
        /\ \A b \in Answers : b.form # post[i].form /\ KeyFits(b) => KeyFits(b)'
    BY <1>1, <1>2, StoreKeepsAnswers DEF IntakeInv, IntakeTypes
  <1>4. PublishedForms' = PublishedForms
    BY <1>1 DEF PublishedForms
  <1>5. /\ post' \in [Posts -> Answers \cup {None}]
        /\ \A k \in Posts : post'[k] # None => k # i /\ post'[k] = post[k] /\ post[k] \in Answers
    BY <1>1 DEF IntakeInv, IntakeTypes
  <1>6. FormsHeld'
    BY <1>1, <1>3, <1>4, <1>5 DEF IntakeInv, FormsHeld
  <1>7. Alone' /\ RequestsAllowed'
    BY <1>1 DEF Alone, RequestsAllowed
  <1> QED
    BY <1>1, <1>2, <1>3, <1>4, <1>5, <1>6, <1>7
    DEF IntakeInv, IntakeTypes, NothingOpen, ClosedStep

LEMMA AbandonKeeps ==
  ASSUME IntakeInv, NEW i \in Posts, Abandon(i)
  PROVE  IntakeInv' /\ ClosedStep
  <1>1. /\ post' = [post EXCEPT ![i] = None]
        /\ UNCHANGED <<form, version, linked, phase, accepted, answered, job>>
    BY DEF Abandon, formRows, intakeRows
  <1>2. /\ PublishedForms' = PublishedForms /\ AnsweredIsStored'
        /\ \A b : KeyFits(b)' <=> KeyFits(b)
    BY <1>1 DEF IntakeInv, PublishedForms, AnsweredIsStored, Accepted, KeyFits
  <1>3. /\ post' \in [Posts -> Answers \cup {None}]
        /\ \A k \in Posts : post'[k] # None => post'[k] = post[k]
    BY <1>1 DEF IntakeInv, IntakeTypes
  <1>4. FormsHeld'
    BY <1>1, <1>2, <1>3 DEF IntakeInv, FormsHeld
  <1>5. Alone' /\ RequestsAllowed'
    BY <1>1, <1>2 DEF IntakeInv, Alone, RequestsAllowed
  <1> QED
    BY <1>1, <1>2, <1>3, <1>4, <1>5 DEF IntakeInv, IntakeTypes, NothingOpen, ClosedStep

LEMMA NothingMoves ==
  ASSUME IntakeInv, UNCHANGED <<form, version, linked, phase, post, accepted, answered, job>>
  PROVE  IntakeInv' /\ ClosedStep
  <1>1. FormsHeld' /\ RequestsAllowed'
    BY OnlyJobsMove DEF IntakeInv, FormsHeld, RequestsAllowed
  <1> QED
    BY <1>1, OnlyJobsMove DEF IntakeInv, IntakeTypes, Alone, NothingOpen, ClosedStep

-----------------------------------------------------------------------------
LEMMA IntakeInvStep == IntakeInv /\ [IntakeNext]_intakeVars => IntakeInv' /\ ClosedStep
  <1>1. SUFFICES ASSUME IntakeInv, [IntakeNext]_intakeVars PROVE IntakeInv' /\ ClosedStep
    OBVIOUS
  <1>2. CASE UNCHANGED intakeVars
    BY <1>1, <1>2, NothingMoves DEF intakeVars, formRows, intakeRows
  <1>3. CASE \E n \in Numbers : ProcessSubmission(n)
    BY <1>1, <1>3, NothingMoves DEF ProcessSubmission, formRows
  <1>4. CASE \E i \in Posts : \/ \E a \in Answers : ReadAndLock(i, a)
                              \/ Submit(i) \/ Abandon(i)
    BY <1>1, <1>4, ReadAndLockKeeps, SubmitKeeps, AbandonKeeps
  <1>5. CASE \E q \in Requests : \/ \E j \in FormJobs : BuilderEnter(q, j)
                                 \/ \E j \in IntakeJobs : IntakeEnter(q, j)
    BY <1>1, <1>5, BuilderEnterKeeps, IntakeEnterKeeps
  <1>6. CASE \E q \in Requests : \/ Build(q) \/ Assist(q) \/ AdvancePhase(q) \/ SaveItem(q)
                                 \/ CloseRequest(q) \/ IntakeRollback(q)
    BY <1>1, <1>6, BuildKeeps, AssistKeeps, AdvancePhaseKeeps, OtherCommitKeeps
  <1> QED
    BY <1>1, <1>2, <1>3, <1>4, <1>5, <1>6 DEF IntakeNext

-----------------------------------------------------------------------------
(* The rows of the forms, in the intake: its other requests change none of *)
(* them, so what a builder's request relies on is so when it writes.       *)
BuildersAllowed == \A q \in Requests : job[q] \in FormJobs => FormAllowed(job[q])

Counted ==
  /\ Len(accepted) <= MaxAccepted
  /\ request \in [Numbers -> {"unprocessed", "none", "open", "closed"}]
  /\ item \in [Items -> {"absent", "open", "done"}]

FormsInIntake == RowsInv /\ BuildersAllowed /\ Counted

LEMMA FormsInIntakeInit == IntakeInit => FormsInIntake
  <1>1. SUFFICES ASSUME IntakeInit PROVE FormsInIntake
    OBVIOUS
  <1>2. RowsInv /\ BuildersAllowed
    BY <1>1, FormInvInit, FormAssumption
    DEF IntakeInit, FormInit, DeskInit, FormInv, BuildersAllowed
  <1>3. Len(accepted) = 0 /\ MaxAccepted \in Nat
    BY <1>1, IntakeAssumption DEF IntakeInit
  <1> QED
    BY <1>1, <1>2, <1>3 DEF IntakeInit, FormsInIntake, Counted

LEMMA BuildKeepsRows ==
  ASSUME IntakeInv, RowsInv, BuildersAllowed, NEW q \in Requests, FormCommit(q)
  PROVE  RowsInv' /\ BuildersAllowed'
  <1>1. /\ End(q) /\ job[q] # None
        /\ job[q].action \in {"save_purpose", "save_form", "draft", "approve", "publish",
                              "link", "pause", "close"}
    BY DEF FormCommit, SavePurpose, SaveForm, DraftVersion, ApproveVersion, PublishVersion,
           LinkPauseClose, Doing
  <1>2. job[q] \in FormJobs
    BY <1>1, EndsAlone, IntakeJobTypes
  <1>3. FormAllowed(job[q])
    BY <1>2 DEF BuildersAllowed
  <1>4. RowsInv'
    BY <1>2, <1>3, SavePurposeKeeps, SaveFormKeeps, DraftVersionKeeps, ApproveVersionKeeps,
       PublishVersionKeeps, LinkPauseCloseKeeps DEF FormCommit
  <1>5. BuildersAllowed'
    BY <1>1, EndsAlone, FormAssumption DEF BuildersAllowed
  <1> QED
    BY <1>4, <1>5

(* Whatever a request is let in to do, the rows are as they were. *)
LEMMA OthersKeepRows ==
  ASSUME RowsInv, BuildersAllowed, UNCHANGED formRows,
         \A q \in Requests : job'[q] \in FormJobs => job'[q] = job[q] \/ FormAllowed(job'[q])
  PROVE  RowsInv' /\ BuildersAllowed'
  <1>1. UNCHANGED <<purpose, form, version, linked>>
    BY DEF formRows
  <1>2. \A j : FormAllowed(j) => FormAllowed(j)'
    BY <1>1 DEF FormAllowed, Draft, InReviewOrLater, Independent, NoticeFits
  <1>3. BuildersAllowed'
    BY <1>2 DEF BuildersAllowed
  <1> QED
    BY <1>1, <1>3, SameRows

LEMMA RequestsKeepRows ==
  ASSUME IntakeInv, FormsInIntake, NEW q \in Requests,
         \/ \E j \in FormJobs : BuilderEnter(q, j)
         \/ \E j \in IntakeJobs : IntakeEnter(q, j)
         \/ Assist(q) \/ AdvancePhase(q) \/ SaveItem(q) \/ CloseRequest(q) \/ IntakeRollback(q)
  PROVE  RowsInv' /\ BuildersAllowed'
  <1>1. CASE \E j \in FormJobs : BuilderEnter(q, j)
    <2>1. PICK j \in FormJobs : FormAllowed(j) /\ Begin(q, j) /\ UNCHANGED formRows
      BY <1>1 DEF BuilderEnter, FormEnter
    <2>2. \A r \in Requests : job'[r] \in {j, job[r]}
      BY <2>1 DEF Begin, IntakeInv, IntakeTypes
    <2>3. \A r \in Requests : job'[r] = job[r] \/ FormAllowed(job'[r])
      BY <2>1, <2>2
    <2> QED
      BY <2>1, <2>3, OthersKeepRows DEF FormsInIntake
  <1>2. CASE \E j \in IntakeJobs : IntakeEnter(q, j)
    <2>1. PICK j \in IntakeJobs : Begin(q, j) /\ UNCHANGED formRows
      BY <1>2 DEF IntakeEnter
    <2>2. \A r \in Requests : job'[r] \in {j, job[r]}
      BY <2>1 DEF Begin, IntakeInv, IntakeTypes
    <2>3. j \notin FormJobs
      BY IntakeJobTypes DEF IntakeJobs
    <2> QED
      BY <2>1, <2>2, <2>3, OthersKeepRows DEF FormsInIntake
  <1>3. CASE Assist(q) \/ AdvancePhase(q) \/ SaveItem(q) \/ CloseRequest(q) \/ IntakeRollback(q)
    <2>1. End(q) /\ UNCHANGED formRows
      BY <1>3 DEF Assist, AdvancePhase, SaveItem, CloseRequest, IntakeRollback
    <2> QED
      BY <2>1, EndsAlone, OthersKeepRows, FormAssumption DEF FormsInIntake
  <1> QED
    BY <1>1, <1>2, <1>3

LEMMA CountedStep ==
  ASSUME IntakeInv, Counted, [IntakeNext]_intakeVars
  PROVE  Counted'
  <1>1. CASE UNCHANGED <<accepted, request, item>>
    BY <1>1 DEF Counted
  <1>2. CASE \E a : Store(a) /\ UNCHANGED <<request, item>>
    <2>1. accepted \in Seq(Answers) /\ MaxAccepted \in Nat
      BY IntakeAssumption DEF IntakeInv, IntakeTypes
    <2>2. PICK a : Store(a) /\ UNCHANGED <<request, item>>
      BY <1>2
    <2>3. CASE accepted' = accepted
      BY <2>2, <2>3 DEF Counted
    <2>4. CASE accepted' = Append(accepted, a) /\ Len(accepted) < MaxAccepted
      <3>1. Len(accepted') = Len(accepted) + 1 /\ Len(accepted) \in Nat
        BY <2>1, <2>4
      <3> QED
        BY <2>1, <2>2, <2>4, <3>1 DEF Counted
    <2> QED
      BY <2>2, <2>3, <2>4 DEF Store
  <1>3. CASE \E q \in Requests : SaveItem(q) \/ CloseRequest(q)
    BY <1>3 DEF SaveItem, CloseRequest, Counted
  <1>4. CASE \E n \in Numbers : ProcessSubmission(n)
    BY <1>4 DEF ProcessSubmission, Counted
  <1> QED
    BY <1>1, <1>2, <1>3, <1>4
    DEF IntakeNext, intakeVars, intakeRows, BuilderEnter, IntakeEnter, Build, Assist, AdvancePhase,
        IntakeRollback, ReadAndLock, Submit, Abandon

LEMMA FormsInIntakeStep == IntakeInv /\ FormsInIntake /\ [IntakeNext]_intakeVars => FormsInIntake'
  <1>1. SUFFICES ASSUME IntakeInv, FormsInIntake, [IntakeNext]_intakeVars PROVE FormsInIntake'
    OBVIOUS
  <1>2. Counted'
    BY <1>1, CountedStep DEF FormsInIntake
  <1>3. RowsInv' /\ BuildersAllowed'
    <2>1. CASE UNCHANGED <<formRows, job>>
      BY <1>1, <2>1, OthersKeepRows DEF FormsInIntake
    <2>2. CASE \E q \in Requests : Build(q)
      BY <1>1, <2>2, BuildKeepsRows DEF Build, FormsInIntake
    <2>3. CASE \E q \in Requests :
                 \/ \E j \in FormJobs : BuilderEnter(q, j)
                 \/ \E j \in IntakeJobs : IntakeEnter(q, j)
                 \/ Assist(q) \/ AdvancePhase(q) \/ SaveItem(q) \/ CloseRequest(q)
                 \/ IntakeRollback(q)
      BY <1>1, <2>3, RequestsKeepRows
    <2> QED
      BY <1>1, <2>1, <2>2, <2>3
      DEF IntakeNext, intakeVars, ReadAndLock, Submit, Abandon, ProcessSubmission
  <1> QED
    BY <1>2, <1>3 DEF FormsInIntake

-----------------------------------------------------------------------------
(* Every variable of the intake keeps its type. *)
THEOREM IntakeTypesCorrect == IntakeSpec => []IntakeTypeOK
  <1>1. IntakeInv /\ FormsInIntake => IntakeTypeOK
    <2>1. SUFFICES ASSUME IntakeInv, FormsInIntake PROVE IntakeTypeOK
      OBVIOUS
    <2>2. Accepted \subseteq Answers /\ answered = Accepted
      BY <2>1 DEF IntakeInv, IntakeTypes, Accepted, AnsweredIsStored
    <2> QED
      BY <2>1, <2>2 DEF IntakeInv, IntakeTypes, FormsInIntake, RowsInv, RowTypes, Counted,
                        IntakeTypeOK
  <1> QED
    BY <1>1, IntakeInvInit, IntakeInvStep, FormsInIntakeInit, FormsInIntakeStep, PTL DEF IntakeSpec

(* Nor do the submissions, the phases and the archiving around the forms    *)
(* let anything reach the public that its authors approved themselves.      *)
THEOREM ReviewedInIntake == IntakeSpec => []ReviewedByAnother
  <1>1. FormsInIntake => ReviewedByAnother
    BY DEF FormsInIntake, RowsInv
  <1> QED
    BY <1>1, IntakeInvInit, IntakeInvStep, FormsInIntakeInit, FormsInIntakeStep, PTL DEF IntakeSpec

(* For any number of forms, submissions at once, keys and contents, what    *)
(* was answered is what is stored, once (receive_public_submission,         *)
(* receive_assisted_submission).                                            *)
THEOREM AnswersAreStored == IntakeSpec => []AnsweredIsStored
  <1>1. IntakeInv => AnsweredIsStored
    BY DEF IntakeInv
  <1> QED
    BY <1>1, IntakeInvInit, IntakeInvStep, PTL DEF IntakeSpec

(* A campaign is archived only without published forms, and stays closed to *)
(* the public, whatever was on its way then (campaign_phase).               *)
THEOREM ArchiveCloses == IntakeSpec => ArchivedStaysClosed
  <1>1. IntakeSpec => [][IntakeInv /\ ClosedStep]_intakeVars
    BY IntakeInvInit, IntakeInvStep, PTL DEF IntakeSpec
  <1> QED
    BY <1>1, PTL DEF ArchivedStaysClosed, ClosedStep
=============================================================================
