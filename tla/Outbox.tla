------------------------------- MODULE Outbox -------------------------------
(***************************************************************************)
(* The transactional outbox of apps/core: rows of OutboxEvent, the         *)
(* periodic task core.dispatch_outbox and the service that claims a row,   *)
(* hands its task to the broker outside any transaction, and then writes   *)
(* the outcome.                                                            *)
(*                                                                         *)
(* Events are the rows whose kind has a task (EVENT_TASKS); the selection  *)
(* never sees the others.  A worker is one execution of dispatch_outbox;   *)
(* executions overlap freely, run at any speed and may die between any two *)
(* of their transactions.                                                  *)
(*                                                                         *)
(* Time is relative, so that behaviours are infinite and states finite:    *)
(* wait[e] is available_at - now, never below 0; age[e] is now -           *)
(* updated_at, which is only compared with the five minutes of a stale     *)
(* claim and therefore stops counting once past it.                        *)
(***************************************************************************)
EXTENDS Integers, FiniteSets

CONSTANTS
  Workers,      \* executions of core.dispatch_outbox that may overlap
  Events,       \* outbox rows of a kind that has a task
  NoEvent,      \* what a worker without a claimed row holds
  MaxAttempts,  \* 10: the attempt whose failure gives the row up
  StaleAfter,   \* 5 minutes: a claim older than this may be taken over
  Base,         \* 15 seconds: the delay after the first failure
  Cap,          \* 3600 seconds: the longest delay
  MaxCrashes    \* bound of the model: worker deaths and failed final writes

ASSUME WorkersFinite  == IsFiniteSet(Workers)
ASSUME NoEventFresh   == NoEvent \notin Events
ASSUME LimitsPositive == /\ MaxAttempts \in Nat \ {0}
                         /\ StaleAfter \in Nat
                         /\ Base \in Nat \ {0}
                         /\ Cap \in Nat \ {0}
                         /\ MaxCrashes \in Nat

VARIABLES
  status,    \* OutboxEvent.status, or "absent" before the row is inserted
  attempts,  \* OutboxEvent.attempts
  wait,      \* time left until available_at
  age,       \* time since updated_at, counted up to StaleAfter + 1
  stage,     \* where each worker is in dispatch_outbox_event
  batch,     \* the ids a worker selected and has not come to yet
  claimed,   \* the row a worker is dispatching
  sent,      \* how many task messages the broker has accepted for each row
  crashes    \* how many workers died or lost their final write so far

rows    == <<status, attempts, wait, age>>
workers == <<stage, batch, claimed>>
vars    == <<rows, workers, sent, crashes>>

Status == {"absent", "pending", "processing", "published", "failed"}
Settled == {"published", "failed"}
Stage  == {"loop", "sending", "confirming", "failing"}

(***************************************************************************)
(* The delay before the next attempt once attempt n has failed.            *)
(* Operators of this module whose name says With, Without, Never or the    *)
(* like are faults: each is the definition after it with a plausible       *)
(* mistake, put in its place to see that the properties notice.            *)
(***************************************************************************)
BackoffWithoutCap(n) == Base * 2 ^ (IF n > 1 THEN n - 1 ELSE 0)

Backoff(n) ==
  LET doubled == Base * 2 ^ (IF n > 1 THEN n - 1 ELSE 0)
  IN  IF doubled \in 0..Cap THEN doubled ELSE Cap

StaleClaimNever(e) == FALSE
StaleClaim(e) == status[e] = "processing" /\ age[e] > StaleAfter

(* What the selection of the periodic task and the claim both ask of a row *)
Claimable(e) ==
  /\ status[e] = "pending" \/ StaleClaim(e)
  /\ wait[e] = 0

InFlight(e) == {w \in Workers : claimed[w] = e}

Init ==
  /\ status   = [e \in Events |-> "absent"]
  /\ attempts = [e \in Events |-> 0]
  /\ wait     = [e \in Events |-> 0]
  /\ age      = [e \in Events |-> 0]
  /\ stage    = [w \in Workers |-> "loop"]
  /\ batch    = [w \in Workers |-> {}]
  /\ claimed  = [w \in Workers |-> NoEvent]
  /\ sent     = [e \in Events |-> 0]
  /\ crashes  = 0

-----------------------------------------------------------------------------
(* A business transaction commits together with the row it enqueued. *)
Enqueue(e) ==
  /\ status[e] = "absent"
  /\ status' = [status EXCEPT ![e] = "pending"]
  /\ wait' = [wait EXCEPT ![e] = 0]
  /\ age' = [age EXCEPT ![e] = 0]
  /\ UNCHANGED <<attempts, workers, sent, crashes>>

(* The periodic task reads the ids it will dispatch, and nothing else. *)
SelectBatch(w) ==
  /\ stage[w] = "loop" /\ batch[w] = {}
  /\ \E e \in Events : Claimable(e)
  /\ batch' = [batch EXCEPT ![w] = {e \in Events : Claimable(e)}]
  /\ UNCHANGED <<rows, stage, claimed, sent, crashes>>

ClaimWithoutCounting(w, e) ==
  /\ stage[w] = "loop" /\ e \in batch[w] /\ Claimable(e)
  /\ status' = [status EXCEPT ![e] = "processing"]
  /\ age' = [age EXCEPT ![e] = 0]
  /\ stage' = [stage EXCEPT ![w] = "sending"]
  /\ batch' = [batch EXCEPT ![w] = @ \ {e}]
  /\ claimed' = [claimed EXCEPT ![w] = e]
  /\ UNCHANGED <<attempts, wait, sent, crashes>>

(* The claim locks the row and asks again: the selection may be old. *)
Claim(w, e) ==
  /\ stage[w] = "loop" /\ e \in batch[w]
  /\ Claimable(e)
  /\ status' = [status EXCEPT ![e] = "processing"]
  /\ attempts' = [attempts EXCEPT ![e] = @ + 1]
  /\ age' = [age EXCEPT ![e] = 0]
  /\ stage' = [stage EXCEPT ![w] = "sending"]
  /\ batch' = [batch EXCEPT ![w] = @ \ {e}]
  /\ claimed' = [claimed EXCEPT ![w] = e]
  /\ UNCHANGED <<wait, sent, crashes>>

(* Someone else has it by now: the claim returns None, the loop goes on. *)
Skip(w, e) ==
  /\ stage[w] = "loop" /\ e \in batch[w]
  /\ ~Claimable(e)
  /\ batch' = [batch EXCEPT ![w] = @ \ {e}]
  /\ UNCHANGED <<rows, stage, claimed, sent, crashes>>

(* send_task returns. *)
Send(w) ==
  /\ stage[w] = "sending"
  /\ sent' = [sent EXCEPT ![claimed[w]] = @ + 1]
  /\ stage' = [stage EXCEPT ![w] = "confirming"]
  /\ UNCHANGED <<rows, batch, claimed, crashes>>

SendRaisesUnnoticed(w) ==
  /\ stage[w] = "sending"
  /\ \E taken \in 0..1 : sent' = [sent EXCEPT ![claimed[w]] = @ + taken]
  /\ stage' = [stage EXCEPT ![w] = "confirming"]
  /\ UNCHANGED <<rows, batch, claimed, crashes>>

(* send_task raises; the broker may or may not have taken the message. *)
SendRaises(w) ==
  /\ stage[w] = "sending"
  /\ \E taken \in 0..1 : sent' = [sent EXCEPT ![claimed[w]] = @ + taken]
  /\ stage' = [stage EXCEPT ![w] = "failing"]
  /\ UNCHANGED <<rows, batch, claimed, crashes>>

Release(w) ==
  /\ stage' = [stage EXCEPT ![w] = "loop"]
  /\ claimed' = [claimed EXCEPT ![w] = NoEvent]

(* An update by primary key: neither the status nor the claim is looked at, *)
(* and updated_at is not touched.                                           *)
MarkPublished(w) ==
  /\ stage[w] = "confirming"
  /\ status' = [status EXCEPT ![claimed[w]] = "published"]
  /\ Release(w)
  /\ UNCHANGED <<attempts, wait, age, batch, sent, crashes>>

(* The row is given up from the limit on, and waits for its turn below it. *)
FailWithLimit(w, limit) ==
  /\ stage[w] = "failing"
  /\ LET e == claimed[w]
     IN  /\ \/ /\ attempts[e] >= limit
               /\ status' = [status EXCEPT ![e] = "failed"]
               /\ wait' = wait
            \/ /\ attempts[e] < limit
               /\ status' = [status EXCEPT ![e] = "pending"]
               /\ wait' = [wait EXCEPT ![e] = Backoff(attempts[e])]
         /\ age' = [age EXCEPT ![e] = 0]
  /\ Release(w)
  /\ UNCHANGED <<attempts, batch, sent, crashes>>

RecordFailureTooEarly(w) == FailWithLimit(w, MaxAttempts - 1)
RecordFailureTooLate(w)  == FailWithLimit(w, MaxAttempts + 1)

(* Decided on the attempts the row has now, under its lock. *)
RecordFailure(w) == FailWithLimit(w, MaxAttempts)

(* The process dies: what it selected and what it claimed are forgotten. *)
Crash(w) ==
  /\ crashes < MaxCrashes
  /\ stage[w] # "loop" \/ batch[w] # {}
  /\ batch' = [batch EXCEPT ![w] = {}]
  /\ Release(w)
  /\ crashes' = crashes + 1
  /\ UNCHANGED <<rows, sent>>

(* The write that follows the send raises: the loop swallows the exception *)
(* and goes on to the next id, the row stays as claimed.                   *)
FinalWriteRaises(w) ==
  /\ crashes < MaxCrashes
  /\ stage[w] \in {"confirming", "failing"}
  /\ Release(w)
  /\ crashes' = crashes + 1
  /\ UNCHANGED <<rows, batch, sent>>

Older(n) == IF n > StaleAfter THEN n ELSE n + 1
Sooner(n) == IF n = 0 THEN 0 ELSE n - 1

Tick ==
  /\ age' = [e \in Events |-> IF status[e] = "absent" THEN 0 ELSE Older(age[e])]
  /\ wait' = [e \in Events |-> Sooner(wait[e])]
  /\ UNCHANGED <<status, attempts, workers, sent, crashes>>

-----------------------------------------------------------------------------
Dispatch(w) ==
  \/ \E e \in Events : Claim(w, e) \/ Skip(w, e)
  \/ Send(w) \/ SendRaises(w)
  \/ MarkPublished(w) \/ RecordFailure(w)

Next ==
  \/ \E e \in Events : Enqueue(e)
  \/ \E w \in Workers : SelectBatch(w) \/ Dispatch(w) \/ Crash(w) \/ FinalWriteRaises(w)
  \/ Tick

(***************************************************************************)
(* Celery beat fires the task every five seconds, an execution that has    *)
(* begun runs on unless its process dies, and the clock advances.          *)
(***************************************************************************)
Fairness ==
  /\ WF_vars(Tick)
  /\ \A w \in Workers : WF_vars(SelectBatch(w)) /\ WF_vars(Dispatch(w))

Spec == Init /\ [][Next]_vars
FairSpec == Spec /\ Fairness

-----------------------------------------------------------------------------
(* Every variable has its type. *)
TypeOK ==
  /\ status \in [Events -> Status]
  /\ attempts \in [Events -> Nat]
  /\ wait \in [Events -> 0..Cap]
  /\ age \in [Events -> 0..(StaleAfter + 1)]
  /\ stage \in [Workers -> Stage]
  /\ batch \in [Workers -> SUBSET Events]
  /\ claimed \in [Workers -> Events \cup {NoEvent}]
  /\ sent \in [Events -> Nat]
  /\ crashes \in 0..MaxCrashes

(***************************************************************************)
(* A row is published only if the broker accepted a message for it, however *)
(* many workers held it, took it over or wrote late.                       *)
(***************************************************************************)
PublishedWasSent ==
  \A e \in Events : status[e] = "published" => sent[e] > 0

(***************************************************************************)
(* No row is given up before its tenth attempt, although the failure that  *)
(* gives it up may belong to an older claim than the one it ends.          *)
(***************************************************************************)
GivenUpOnlyWhenExhausted ==
  \A e \in Events : status[e] = "failed" => attempts[e] >= MaxAttempts

(***************************************************************************)
(* The limit of attempts is checked only when a failure is recorded, and a *)
(* claim gone stale is taken over without asking it.  What still bounds a  *)
(* row's attempts, and with them the messages sent for it: beyond the      *)
(* limit every take-over leaves behind a worker that still holds the row   *)
(* or one that died.                                                       *)
(***************************************************************************)
AttemptsBounded ==
  \A e \in Events :
    attempts[e] <= MaxAttempts - 1 + Cardinality(Workers) + crashes

(***************************************************************************)
(* What regras_servidor.md:318 asks of every call to the outside ("retry   *)
(* com backoff e limite de tentativas"): no row is tried more often than   *)
(* the limit.  The code breaks it when a claim of the last attempt dies.   *)
(***************************************************************************)
AttemptsWithinLimit ==
  \A e \in Events : attempts[e] <= MaxAttempts

(***************************************************************************)
(* Each message is paid for by a claim of its own: a row is never sent     *)
(* more often than it was claimed.                                         *)
(***************************************************************************)
SentWithinAttempts ==
  \A e \in Events : sent[e] <= attempts[e]

(***************************************************************************)
(* Liveness: once enqueued, a row ends published or given up and stays so; *)
(* neither a backoff, a dead worker nor a late write of an old claim keeps *)
(* it open for ever.                                                       *)
(***************************************************************************)
EventuallySettled ==
  \A e \in Events : (status[e] # "absent") ~> [](status[e] \in Settled)

-----------------------------------------------------------------------------
(***************************************************************************)
(* The inductive invariant behind the safety properties: what a worker's   *)
(* stage says of its row, and where the claims of a row have gone.         *)
(***************************************************************************)
Sending(e) == {w \in Workers : claimed[w] = e /\ stage[w] = "sending"}

(* A worker holds a row exactly while it is dispatching one; a row that is *)
(* held has been enqueued; a worker that confirms has sent.                *)
WorkersInv ==
  /\ \A w \in Workers : stage[w] = "loop" <=> claimed[w] = NoEvent
  /\ \A w \in Workers : stage[w] # "loop" => status[claimed[w]] # "absent"
  /\ \A w \in Workers : stage[w] = "confirming" => sent[claimed[w]] > 0

(* Every claim was spent on a message or is still about to be. *)
SentInv ==
  \A e \in Events : sent[e] + Cardinality(Sending(e)) <= attempts[e]

(* A row that waits has attempts left; one claimed beyond the limit has been *)
(* taken over from workers that are still there or that died.                *)
AttemptsInv ==
  \A e \in Events :
    /\ status[e] \in {"absent", "pending"} => attempts[e] < MaxAttempts
    /\ status[e] = "processing" /\ attempts[e] >= MaxAttempts =>
         attempts[e] <= MaxAttempts - 1 + Cardinality(InFlight(e)) + crashes

=============================================================================
