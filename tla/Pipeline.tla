------------------------------ MODULE Pipeline ------------------------------
(***************************************************************************)
(* From an accepted form submission to its effects: the intake commits the *)
(* submission and its outbox row together (apps/forms), the outbox hands   *)
(* task messages to the broker (module Outbox), Celery delivers them to    *)
(* task workers, and process_submission writes the effects.                *)
(*                                                                         *)
(* An outbox row is identified with the submission it is about, so Events  *)
(* is the set of submissions of one campaign.  Messages reach the task     *)
(* workers in any order; a message is acknowledged when it is taken, as    *)
(* Celery does by default, so a worker that is killed loses it; a task     *)
(* that raises is published again until its retries are used up.           *)
(*                                                                         *)
(* process_submission is one database transaction.  What it writes is seen *)
(* when it commits; what it reads is what others have committed by then.   *)
(* Its first query locks the submission and every row joined to it by      *)
(* select_related, the campaign among them, until the end.                 *)
(***************************************************************************)
EXTENDS Outbox

CONSTANTS
  ContactsOf, Named, WithMessage,  \* the payloads, as in Registry
  ByHand,      \* the contacts registered by hand, as in Registry
  Tasks,       \* executions of forms.process_submission that may overlap
  NoTask,      \* the owner of the locks when nobody has them
  MaxRetries,  \* 5: how often a task that raises is published again
  MaxRaises,   \* bound of the model: tasks that raise
  MaxKills     \* bound of the model: task workers that are killed

ASSUME TasksAssumption ==
  /\ NoTask \notin Tasks
  /\ MaxRetries \in Nat /\ MaxRaises \in Nat /\ MaxKills \in Nat
ASSUME PayloadsAssumption ==
  /\ \A s \in Events : IsFiniteSet(ContactsOf[s])
  /\ Named \subseteq Events /\ WithMessage \subseteq Events

VARIABLES
  result, persons, requests, announced, listed,  \* the tables, as in Registry
  taken,      \* first deliveries of each submission's message taken so far
  republished,\* messages published again and waiting, by number of retries
  at,         \* where each task is in process_submission
  on,         \* the submission it works on
  tries,      \* the retries its message has behind it
  duplicate,  \* what its search for known contacts found
  owner,      \* the task that holds the campaign's row lock
  raised, killed

tables   == <<result, persons, requests, announced, listed>>
tasks    == <<at, on, tries, duplicate, owner>>
messages == <<taken, republished>>
budget   == <<raised, killed>>
pvars    == <<vars, tables, tasks, messages, budget>>

Reg == INSTANCE Registry WITH Submissions <- Events

PInit ==
  /\ Init
  /\ Reg!Init
  /\ taken       = [s \in Events |-> 0]
  /\ republished = [s \in Events |-> [r \in 1..MaxRetries |-> 0]]
  /\ at          = [t \in Tasks |-> "idle"]
  /\ on          = [t \in Tasks |-> NoEvent]
  /\ tries       = [t \in Tasks |-> 0]
  /\ duplicate   = [t \in Tasks |-> FALSE]
  /\ owner       = NoTask
  /\ raised = 0 /\ killed = 0

-----------------------------------------------------------------------------
(* The intake: submission and outbox row in the same transaction. *)
Accept(s) ==
  /\ Reg!Accept(s)
  /\ Enqueue(s)
  /\ UNCHANGED <<tasks, messages, budget>>

(* The page that registers an elector locks the campaign before it inserts. *)
RegisterByHand(c) ==
  /\ owner = NoTask
  /\ Reg!Register(c)
  /\ UNCHANGED <<vars, tasks, messages, budget>>

(* A first delivery: a message the outbox sent. *)
Take(t, s) ==
  /\ at[t] = "idle"
  /\ taken[s] < sent[s]
  /\ taken' = [taken EXCEPT ![s] = @ + 1]
  /\ at' = [at EXCEPT ![t] = "begun"]
  /\ on' = [on EXCEPT ![t] = s]
  /\ tries' = [tries EXCEPT ![t] = 0]
  /\ UNCHANGED <<vars, tables, duplicate, owner, republished, budget>>

TakeRetryUnpublished(t, s, r) ==
  /\ at[t] = "idle"
  /\ republished' = [republished EXCEPT ![s][r] = @ - 1]
  /\ at' = [at EXCEPT ![t] = "begun"]
  /\ on' = [on EXCEPT ![t] = s]
  /\ tries' = [tries EXCEPT ![t] = r]
  /\ UNCHANGED <<vars, tables, duplicate, owner, taken, budget>>

(* A delivery of a message that was published again. *)
TakeRetry(t, s, r) ==
  /\ at[t] = "idle"
  /\ republished[s][r] > 0
  /\ republished' = [republished EXCEPT ![s][r] = @ - 1]
  /\ at' = [at EXCEPT ![t] = "begun"]
  /\ on' = [on EXCEPT ![t] = s]
  /\ tries' = [tries EXCEPT ![t] = r]
  /\ UNCHANGED <<vars, tables, duplicate, owner, taken, budget>>

Finish(t) ==
  /\ at' = [at EXCEPT ![t] = "idle"]
  /\ on' = [on EXCEPT ![t] = NoEvent]
  /\ tries' = [tries EXCEPT ![t] = 0]
  /\ duplicate' = [duplicate EXCEPT ![t] = FALSE]
  /\ owner' = IF owner = t THEN NoTask ELSE owner

(* The locking query waits until nobody holds the campaign's row. *)
LocksIgnored == TRUE
LocksFree == owner = NoTask

(* It finds the submission processed already: nothing to do. *)
AlreadyDone(t) ==
  /\ at[t] = "begun" /\ LocksFree
  /\ result[on[t]] \in Reg!Done
  /\ Finish(t)
  /\ UNCHANGED <<vars, tables, messages, budget>>

LockUnchecked(t) ==
  /\ at[t] = "begun" /\ LocksFree
  /\ at' = [at EXCEPT ![t] = "locked"]
  /\ owner' = t
  /\ UNCHANGED <<vars, tables, on, tries, duplicate, messages, budget>>

Lock(t) ==
  /\ at[t] = "begun" /\ LocksFree
  /\ result[on[t]] \notin Reg!Done
  /\ at' = [at EXCEPT ![t] = "locked"]
  /\ owner' = t
  /\ UNCHANGED <<vars, tables, on, tries, duplicate, messages, budget>>

SearchSubmissions(t) ==
  /\ at[t] = "locked"
  /\ duplicate' = [duplicate EXCEPT ![t] =
       \E s \in Events \ {on[t]} :
         result[s] # "none" /\ ContactsOf[on[t]] \cap ContactsOf[s] # {}]
  /\ at' = [at EXCEPT ![t] = "searched"]
  /\ UNCHANGED <<vars, tables, on, tries, owner, messages, budget>>

(* Looks every contact of the payload up among the campaign's. *)
SearchContacts(t) ==
  /\ at[t] = "locked"
  /\ duplicate' = [duplicate EXCEPT ![t] = ContactsOf[on[t]] \cap Reg!Stored # {}]
  /\ at' = [at EXCEPT ![t] = "searched"]
  /\ UNCHANGED <<vars, tables, on, tries, owner, messages, budget>>

(* A submission has at most one ServiceRequest: a second insert would raise. *)
Commit(t) ==
  /\ at[t] = "searched"
  /\ on[t] \in WithMessage => requests[on[t]] = 0
  /\ Reg!Write(on[t], duplicate[t])
  /\ Finish(t)
  /\ UNCHANGED <<vars, messages, budget>>

RaiseWithoutRetry(t) ==
  /\ at[t] # "idle" /\ raised < MaxRaises
  /\ raised' = raised + 1
  /\ Finish(t)
  /\ UNCHANGED <<vars, tables, messages, killed>>

RaiseWithoutRollback(t) ==
  /\ at[t] # "idle" /\ raised < MaxRaises
  /\ raised' = raised + 1
  /\ requests' = IF at[t] = "searched" THEN [requests EXCEPT ![on[t]] = @ + 1] ELSE requests
  /\ Finish(t)
  /\ UNCHANGED <<vars, result, persons, announced, listed, messages, killed>>

(* The task raises and is rolled back; Celery publishes it again, or gives *)
(* it up after its last retry.                                             *)
Raise(t) ==
  /\ at[t] # "idle" /\ raised < MaxRaises
  /\ raised' = raised + 1
  /\ republished' = IF tries[t] < MaxRetries
                    THEN [republished EXCEPT ![on[t]][tries[t] + 1] = @ + 1]
                    ELSE republished
  /\ Finish(t)
  /\ UNCHANGED <<vars, tables, taken, killed>>

(* The worker is killed: the transaction is rolled back, the message gone. *)
Kill(t) ==
  /\ at[t] # "idle" /\ killed < MaxKills
  /\ killed' = killed + 1
  /\ Finish(t)
  /\ UNCHANGED <<vars, tables, messages, raised>>

-----------------------------------------------------------------------------
Run(t) ==
  \/ \E s \in Events : Take(t, s) \/ \E r \in 1..MaxRetries : TakeRetry(t, s, r)
  \/ AlreadyDone(t) \/ Lock(t) \/ SearchContacts(t) \/ Commit(t)

OutboxStep ==
  /\ \/ \E w \in Workers : SelectBatch(w) \/ Dispatch(w) \/ Crash(w) \/ FinalWriteRaises(w)
     \/ Tick
  /\ UNCHANGED <<tables, tasks, messages, budget>>

PNext ==
  \/ \E s \in Events : Accept(s)
  \/ \E c \in ByHand : RegisterByHand(c)
  \/ OutboxStep
  \/ \E t \in Tasks : Run(t) \/ Raise(t) \/ Kill(t)

(* As in Outbox; a task worker takes what waits for it and runs it on, and *)
(* one that waits for the campaign's lock is served in the end.            *)
PFairness ==
  /\ WF_pvars(Tick /\ UNCHANGED <<tables, tasks, messages, budget>>)
  /\ \A w \in Workers :
       /\ WF_pvars(SelectBatch(w) /\ UNCHANGED <<tables, tasks, messages, budget>>)
       /\ WF_pvars(Dispatch(w) /\ UNCHANGED <<tables, tasks, messages, budget>>)
  /\ \A t \in Tasks : SF_pvars(Run(t))

PSpec == PInit /\ [][PNext]_pvars
PFairSpec == PSpec /\ PFairness

-----------------------------------------------------------------------------
(* Every variable of the pipeline has its type. *)
PTypeOK ==
  /\ result \in [Events -> {"none", "received"} \cup Reg!Done]
  /\ persons \in [Events -> Nat]
  /\ requests \in [Events -> Nat]
  /\ announced \in [Events -> Nat]
  /\ listed \subseteq ByHand
  /\ taken \in [Events -> Nat]
  /\ republished \in [Events -> [1..MaxRetries -> Nat]]
  /\ at \in [Tasks -> {"idle", "begun", "locked", "searched"}]
  /\ on \in [Tasks -> Events \cup {NoEvent}]
  /\ tries \in [Tasks -> 0..MaxRetries]
  /\ duplicate \in [Tasks -> BOOLEAN]
  /\ owner \in Tasks \cup {NoTask}
  /\ raised \in 0..MaxRaises /\ killed \in 0..MaxKills

(***************************************************************************)
(* No two persons made from submissions share a contact, although no       *)
(* unique constraint says so and the search for known contacts locks       *)
(* nothing: only the campaign row, locked by the first query, keeps two    *)
(* tasks from both finding nobody.                                         *)
(***************************************************************************)
NoSharedContact == Reg!NoSharedContact

(***************************************************************************)
(* However often a submission's message is delivered, lost, retried or     *)
(* interrupted, its person, its request and its outcome event are written  *)
(* once, and exactly when it is done.                                      *)
(***************************************************************************)
EffectsOnce == Reg!EffectsOnce

(***************************************************************************)
(* A submission waits for review only if a registered person, from another *)
(* submission or by hand, does have one of its contacts: never because of  *)
(* its own earlier, failed or repeated processing.                         *)
(***************************************************************************)
ReviewJustified == Reg!ReviewJustified

(***************************************************************************)
(* The pipeline implements Registry: seen from the tables, every           *)
(* submission is processed in one indivisible step, at most once.          *)
(***************************************************************************)
ImplementsRegistry == Reg!Spec

(***************************************************************************)
(* Liveness: an accepted submission is processed or sent to review, unless *)
(* the outbox gave its row up without the broker having taken a single     *)
(* message.  It needs that no task worker is killed with a message in hand *)
(* and that no task outlives its retries.                                  *)
(***************************************************************************)
EventuallyDone ==
  \A s \in Events :
    (result[s] = "received")
      ~> (result[s] \in Reg!Done \/ (status[s] = "failed" /\ sent[s] = 0))
=============================================================================
