------------------------------- MODULE Intake -------------------------------
(***************************************************************************)
(* The campaign's phases around its forms: the submissions the public and  *)
(* the assisting members send (receive_public_submission,                  *)
(* receive_assisted_submission), the service requests their processing     *)
(* opens (Pipeline has its steps), the closure checklist and the archiving *)
(* of the campaign (campaign_phase).                                       *)
(*                                                                         *)
(* A public submission locks its link and form only, reads the campaign's  *)
(* phase unlocked, and waits for the campaign's row when its inserts       *)
(* reference it.  It goes on while others change the campaign.  The other  *)
(* requests hold the campaign's row; those about a form hold its row too.  *)
(* The requests of module_edit and execute_action look at the phase before *)
(* they wait for that row, so they may find the campaign archived: they    *)
(* are not refused here.  A link stands for all links of its form, the     *)
(* tasks, obligations, reservations and bookings that also keep a campaign *)
(* from being archived are reasons for a refusal.                          *)
(***************************************************************************)
EXTENDS Forms, Sequences

CONSTANTS
  Posts,          \* public submissions in progress at once
  Keys, Contents, \* idempotency keys, and what is filled in
  MaxAccepted,    \* how many submissions are ever accepted
  Items           \* of the closure checklist

VARIABLES
  phase,    \* Campaign.phase
  post,     \* what each public submission in progress was let in to store
  accepted, \* the Submission rows, in order, with their idempotency record
  answered, \* what somebody was told "Recebemos sua solicitação" about
  request,  \* the service request of each submission, "unprocessed" before
  item      \* ClosureItem: "absent", "open" or "done"

intakeRows == <<phase, accepted, answered, request, item>>
intakeVars == <<formRows, intakeRows, post, job>>

Numbers == 1..MaxAccepted
Phases == {"preparation", "operation", "closing", "archived"}

(* An idempotency record is found by the mode, the form and the key. *)
Answers == [mode : {"public", "assisted"}, form : Forms, key : Keys,
            version : Versions, content : Contents]

IntakeJobs ==
  [action : {"assist"}, on : Forms, answer : {a \in Answers : a.mode = "assisted"}]
    \cup [action : {"advance"}, on : {None}]
    \cup [action : {"list", "complete"}, on : Items]
    \cup [action : {"close_request"}, on : Numbers]

ASSUME IntakeAssumption ==
  /\ MaxAccepted \in Nat /\ None \notin Answers \cup IntakeJobs
  /\ \A S \in {Forms, Purposes} : S \cap (Items \cup Numbers \cup {None}) = {}

IntakeInit ==
  /\ FormInit
  /\ phase    = "preparation"
  /\ post     = [i \in Posts |-> None]
  /\ accepted = <<>>
  /\ answered = {}
  /\ request  = [n \in Numbers |-> "unprocessed"]
  /\ item     = [c \in Items |-> "absent"]

-----------------------------------------------------------------------------
Accepted == {accepted[n] : n \in DOMAIN accepted}

SameKey(a, b) == <<a.mode, a.form, a.key>> = <<b.mode, b.form, b.key>>

KeyFitsAnything(a) == TRUE

(* The request_hash of the record covers the version and the content. *)
KeyFits(a) == \A b \in Accepted : SameKey(a, b) => a = b

FormFree(f) ==
  /\ \A i \in Posts : post[i] # None => post[i].form # f
  /\ \A q \in Requests : job[q] # None => job[q].on # f

(* _published_context, the conflict of versions, the fields and the key. *)
Receivable(a) ==
  /\ phase \notin {"closing", "archived"}
  /\ form[a.form] # None /\ form[a.form].status = "published"
  /\ form[a.form].current = a.version
  /\ purpose[form[a.form].purpose].status = "active"
  /\ version[a.version].asks \subseteq purpose[form[a.form].purpose].allowed
  /\ KeyFits(a)

(* A submission with its receipt and record; or the answer given before. *)
Store(a) ==
  /\ IF \E b \in Accepted : SameKey(a, b) THEN accepted' = accepted
     ELSE Len(accepted) < MaxAccepted /\ accepted' = Append(accepted, a)
  /\ answered' = answered \cup {a}

ReadAndLock(i, a) ==
  /\ post[i] = None /\ a.mode = "public" /\ a.form \in linked
  /\ FormFree(a.form) /\ Receivable(a)
  /\ post' = [post EXCEPT ![i] = a]
  /\ UNCHANGED <<formRows, intakeRows, job>>

Submit(i) ==
  /\ post[i] # None
  /\ \A q \in Requests : job[q] = None
  /\ Store(post[i])
  /\ post' = [post EXCEPT ![i] = None]
  /\ UNCHANGED <<formRows, phase, request, item, job>>

Abandon(i) ==
  /\ post[i] # None
  /\ post' = [post EXCEPT ![i] = None]
  /\ UNCHANGED <<formRows, intakeRows, job>>

ArchivableWithForms ==
  /\ \E c \in Items : item[c] # "absent"
  /\ \A c \in Items : item[c] # "open"
  /\ \A n \in Numbers : request[n] # "open"

(* The blockers that campaign_phase asks for; only the campaign is locked. *)
Archivable == ArchivableWithForms /\ PublishedForms = {}

(* The builder and the assisted submission look at the phase under the lock. *)
IntakeAllowed(j) ==
  CASE j.action = "assist"   -> FormFree(j.on) /\ j.answer.form = j.on /\ Receivable(j.answer)
    [] j.action = "advance"  -> phase # "archived" /\ (phase = "closing" => Archivable)
    [] j.action = "list"     -> item[j.on] = "absent"
    [] j.action = "complete" -> item[j.on] = "open"
    [] j.action = "close_request" -> request[j.on] = "open"

IntakeEnter(q, j) == Begin(q, j) /\ IntakeAllowed(j) /\ UNCHANGED <<formRows, intakeRows, post>>

BuilderEnter(q, j) ==
  /\ FormEnter(q, j)
  /\ j.action \in {"save_purpose", "save_form"} \/ phase # "archived"
  /\ FormFree(j.on)
  /\ UNCHANGED <<intakeRows, post>>

Build(q) == FormCommit(q) /\ UNCHANGED <<intakeRows, post>>

Assist(q) ==
  /\ Doing(q, {"assist"})
  /\ Store(job[q].answer)
  /\ End(q) /\ UNCHANGED <<formRows, phase, post, request, item>>

NextPhaseMisspelt == [preparation |-> "operation", operation |-> "closed", closing |-> "archived"]

NextPhase == [preparation |-> "operation", operation |-> "closing", closing |-> "archived"]

AdvancePhase(q) ==
  /\ Doing(q, {"advance"})
  /\ phase' = NextPhase[phase]
  /\ End(q) /\ UNCHANGED <<formRows, accepted, answered, post, request, item>>

SaveItem(q) ==
  /\ Doing(q, {"list", "complete"})
  /\ item' = [item EXCEPT ![job[q].on] = IF job[q].action = "list" THEN "open" ELSE "done"]
  /\ End(q) /\ UNCHANGED <<formRows, phase, accepted, answered, post, request>>

(* The last step of the workflow of a service request. *)
CloseRequest(q) ==
  /\ Doing(q, {"close_request"})
  /\ request' = [request EXCEPT ![job[q].on] = "closed"]
  /\ End(q) /\ UNCHANGED <<formRows, phase, accepted, answered, post, item>>

(* The worker asks for no phase.  A message opens a service request. *)
ProcessSubmission(n) ==
  /\ n \in DOMAIN accepted /\ request[n] = "unprocessed"
  /\ \A q \in Requests : job[q] = None
  /\ FormFree(accepted[n].form)
  /\ \E s \in {"open", "none"} : request' = [request EXCEPT ![n] = s]
  /\ UNCHANGED <<formRows, phase, accepted, answered, post, item, job>>

IntakeRollback(q) == End(q) /\ UNCHANGED <<formRows, intakeRows, post>>

IntakeNext ==
  \/ \E q \in Requests :
       \/ \E j \in FormJobs : BuilderEnter(q, j)
       \/ \E j \in IntakeJobs : IntakeEnter(q, j)
       \/ Build(q) \/ Assist(q) \/ AdvancePhase(q) \/ SaveItem(q) \/ CloseRequest(q)
       \/ IntakeRollback(q)
  \/ \E i \in Posts : \/ \E a \in Answers : ReadAndLock(i, a)
                      \/ Submit(i) \/ Abandon(i)
  \/ \E n \in Numbers : ProcessSubmission(n)

IntakeSpec == IntakeInit /\ [][IntakeNext]_intakeVars

-----------------------------------------------------------------------------
IntakeTypeOK ==
  /\ purpose \in [Purposes -> PurposeRows \cup {None}]
  /\ form \in [Forms -> FormRows \cup {None}]
  /\ version \in [Versions -> VersionRows \cup {None}]
  /\ linked \subseteq Forms
  /\ phase \in Phases
  /\ post \in [Posts -> Answers \cup {None}]
  /\ Len(accepted) <= MaxAccepted /\ Accepted \subseteq Answers
  /\ answered \subseteq Answers
  /\ request \in [Numbers -> {"unprocessed", "none", "open", "closed"}]
  /\ item \in [Items -> {"absent", "open", "done"}]
  /\ job \in [Requests -> FormJobs \cup IntakeJobs \cup {None}]

(* Whoever is told that a submission was received has exactly what was sent *)
(* stored, once, however often it is sent again, with the same or another   *)
(* content, before or after a new version is published.                     *)
AnsweredIsStored ==
  /\ answered = Accepted
  /\ \A m, n \in DOMAIN accepted : SameKey(accepted[m], accepted[n]) => m = n

(* When a campaign is archived no form is published; and from then on it    *)
(* stays archived and accepts no submission, version or link, although the  *)
(* public's requests do not hold the campaign's row.                        *)
ArchivedStaysClosed ==
  [][phase' = "archived" =>
       /\ PublishedForms' = {}
       /\ phase = "archived" => UNCHANGED <<phase, version, linked, accepted>>]_intakeVars
=============================================================================
