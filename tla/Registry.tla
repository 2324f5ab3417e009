------------------------------ MODULE Registry ------------------------------
(***************************************************************************)
(* What the processing of form submissions promises, as if each accepted   *)
(* submission were processed in one indivisible step, at most once: a      *)
(* person is registered unless one of its contacts already is, a service   *)
(* request is opened when there is a message, and the outcome is announced *)
(* by one event.  The counters count rows, so that a second person, request *)
(* or event for a submission is visible.  Electors are also registered by   *)
(* hand, in the workspace, and there nobody asks whether the contact is new. *)
(***************************************************************************)
EXTENDS Naturals

CONSTANTS
  Submissions,  \* the submissions of one campaign
  ContactsOf,   \* the contacts (type and blind index) each payload carries
  Named,        \* the submissions that give a name: only these make a person
  WithMessage,  \* the submissions that carry a message
  ByHand        \* the contacts of people an agent may register by hand

VARIABLES
  result,    \* Submission.processing_status as committed, or "none"
  persons,   \* how many Person rows each submission has created
  requests,  \* how many ServiceRequest rows
  announced, \* how many outcome events in the outbox
  listed     \* the contacts of the electors registered by hand

vars == <<result, persons, requests, announced, listed>>

Done == {"processed", "review_required"}
Count(b) == IF b THEN 1 ELSE 0

(* The contacts stored in the campaign: those of the registered persons. *)
Stored == listed \cup UNION {ContactsOf[s] : s \in {x \in Submissions : persons[x] > 0}}

Init ==
  /\ result    = [s \in Submissions |-> "none"]
  /\ persons   = [s \in Submissions |-> 0]
  /\ requests  = [s \in Submissions |-> 0]
  /\ announced = [s \in Submissions |-> 0]
  /\ listed    = {}

Accept(s) ==
  /\ result[s] = "none"
  /\ result' = [result EXCEPT ![s] = "received"]
  /\ UNCHANGED <<persons, requests, announced, listed>>

Register(c) ==
  /\ c \in ByHand \ listed
  /\ listed' = listed \cup {c}
  /\ UNCHANGED <<result, persons, requests, announced>>

(* The rows one processing writes, given whether it found a known contact. *)
Write(s, duplicate) ==
  /\ result' = [result EXCEPT ![s] = IF duplicate THEN "review_required" ELSE "processed"]
  /\ persons' = [persons EXCEPT ![s] = @ + Count(~duplicate /\ s \in Named)]
  /\ requests' = [requests EXCEPT ![s] = @ + Count(s \in WithMessage)]
  /\ announced' = [announced EXCEPT ![s] = @ + 1]
  /\ UNCHANGED listed

Process(s) ==
  /\ result[s] = "received"
  /\ Write(s, ContactsOf[s] \cap Stored # {})

Next ==
  \/ \E s \in Submissions : Accept(s) \/ Process(s)
  \/ \E c \in ByHand : Register(c)

Spec == Init /\ [][Next]_vars

-----------------------------------------------------------------------------
(* No two persons made from submissions share a contact: the second          *)
(* submission is sent to review.  (An elector registered by hand may.)        *)
NoSharedContact ==
  \A s, t \in Submissions :
    s # t /\ persons[s] > 0 /\ persons[t] > 0 => ContactsOf[s] \cap ContactsOf[t] = {}

(* Each submission has its effects once it is done, once, and none before. *)
EffectsOnce ==
  \A s \in Submissions :
    /\ announced[s] = Count(result[s] \in Done)
    /\ requests[s] = Count(result[s] \in Done /\ s \in WithMessage)
    /\ persons[s] = Count(result[s] = "processed" /\ s \in Named)

(* Nothing is sent to review without a stored contact to compare it with. *)
ReviewJustified ==
  \A s \in Submissions :
    result[s] = "review_required" => ContactsOf[s] \cap Stored # {}
=============================================================================
