---------------------------- MODULE OutboxProofs ----------------------------
(***************************************************************************)
(* Proofs of the safety properties of Outbox, for any number of workers    *)
(* and rows and any value of the limits.  The inductive invariant is       *)
(* built in layers, each resting on the ones below it: types, what the     *)
(* workers hold, what was sent, and how the attempts were spent.           *)
(***************************************************************************)
EXTENDS Outbox, FiniteSetTheorems, TLAPS

(* A delay lies between 0 and the cap. *)
LEMMA BackoffType == \A n \in Nat : Backoff(n) \in 0..Cap
BY LimitsPositive DEF Backoff

(* A worker that is not in the loop holds a row. *)
LEMMA HeldRow ==
  ASSUME TypeOK, WorkersInv, NEW w \in Workers, stage[w] # "loop"
  PROVE  claimed[w] \in Events
BY DEF TypeOK, WorkersInv

(* Every variable keeps its type. *)
LEMMA TypeStep == TypeOK /\ WorkersInv /\ [Next]_vars => TypeOK'
<1> SUFFICES ASSUME TypeOK, WorkersInv, [Next]_vars PROVE TypeOK'
  OBVIOUS
<1> USE DEF TypeOK, rows, workers, vars, Status, Stage
<1>1. ASSUME NEW e \in Events, Enqueue(e) PROVE TypeOK'
  BY <1>1, LimitsPositive DEF Enqueue
<1>2. ASSUME NEW w \in Workers, SelectBatch(w) PROVE TypeOK'
  BY <1>2 DEF SelectBatch
<1>3. ASSUME NEW w \in Workers, NEW e \in Events, Claim(w, e) PROVE TypeOK'
  BY <1>3, LimitsPositive DEF Claim
<1>4. ASSUME NEW w \in Workers, NEW e \in Events, Skip(w, e) PROVE TypeOK'
  BY <1>4 DEF Skip
<1>5. ASSUME NEW w \in Workers, Send(w) PROVE TypeOK'
  <2>1. claimed[w] \in Events
    BY <1>5, HeldRow DEF Send
  <2>2. sent' \in [Events -> Nat]
    BY <1>5, <2>1 DEF Send
  <2>3. QED BY <1>5, <2>2 DEF Send
<1>6. ASSUME NEW w \in Workers, SendRaises(w) PROVE TypeOK'
  <2>1. claimed[w] \in Events
    BY <1>6, HeldRow DEF SendRaises
  <2>2. sent' \in [Events -> Nat]
    BY <1>6, <2>1 DEF SendRaises
  <2>3. QED BY <1>6, <2>2 DEF SendRaises
<1>7. ASSUME NEW w \in Workers, MarkPublished(w) PROVE TypeOK'
  BY <1>7 DEF MarkPublished, Release
<1>8. ASSUME NEW w \in Workers, RecordFailure(w) PROVE TypeOK'
  <2>1. claimed[w] \in Events
    BY <1>8, HeldRow DEF RecordFailure, FailWithLimit
  <2>2. Backoff(attempts[claimed[w]]) \in 0..Cap
    BY <2>1, BackoffType
  <2>3. wait' \in [Events -> 0..Cap]
    BY <1>8, <2>1, <2>2 DEF RecordFailure, FailWithLimit
  <2>4. age' \in [Events -> 0..(StaleAfter + 1)]
    BY <1>8, <2>1, LimitsPositive DEF RecordFailure, FailWithLimit
  <2>5. status' \in [Events -> Status]
    BY <1>8, <2>1 DEF RecordFailure, FailWithLimit
  <2>6. QED BY <1>8, <2>3, <2>4, <2>5 DEF RecordFailure, FailWithLimit, Release
<1>9. ASSUME NEW w \in Workers, Crash(w) PROVE TypeOK'
  BY <1>9, LimitsPositive DEF Crash, Release
<1>10. ASSUME NEW w \in Workers, FinalWriteRaises(w) PROVE TypeOK'
  BY <1>10, LimitsPositive DEF FinalWriteRaises, Release
<1>11. CASE Tick
  <2>1. \A n \in 0..(StaleAfter + 1) : Older(n) \in 0..(StaleAfter + 1)
    BY LimitsPositive DEF Older
  <2>2. \A n \in 0..Cap : Sooner(n) \in 0..Cap
    BY LimitsPositive DEF Sooner
  <2>3. age' \in [Events -> 0..(StaleAfter + 1)]
    BY <1>11, <2>1, LimitsPositive DEF Tick
  <2>4. wait' \in [Events -> 0..Cap]
    BY <1>11, <2>2 DEF Tick
  <2>5. QED BY <1>11, <2>3, <2>4 DEF Tick
<1>12. CASE UNCHANGED vars
  BY <1>12
<1>13. QED
  BY <1>1, <1>2, <1>3, <1>4, <1>5, <1>6, <1>7, <1>8, <1>9, <1>10, <1>11, <1>12
  DEF Next, Dispatch

-----------------------------------------------------------------------------
(* What a worker's stage says about the row it holds survives every step:  *)
(* the row of a worker is never un-enqueued and never loses a message.     *)
LEMMA WorkersStep == TypeOK /\ WorkersInv /\ [Next]_vars => WorkersInv'
<1> SUFFICES ASSUME TypeOK, WorkersInv, [Next]_vars PROVE WorkersInv'
  OBVIOUS
<1> USE NoEventFresh DEF TypeOK, WorkersInv, rows, workers, vars, Stage
<1>1. ASSUME NEW e \in Events, Enqueue(e) PROVE WorkersInv'
  BY <1>1 DEF Enqueue
<1>2. ASSUME NEW w \in Workers, SelectBatch(w) PROVE WorkersInv'
  BY <1>2 DEF SelectBatch
<1>3. ASSUME NEW w \in Workers, NEW e \in Events, Claim(w, e) PROVE WorkersInv'
  BY <1>3 DEF Claim
<1>4. ASSUME NEW w \in Workers, NEW e \in Events, Skip(w, e) PROVE WorkersInv'
  BY <1>4 DEF Skip
<1>5. ASSUME NEW w \in Workers, Send(w) PROVE WorkersInv'
  BY <1>5 DEF Send
<1>6. ASSUME NEW w \in Workers, SendRaises(w) PROVE WorkersInv'
  BY <1>6 DEF SendRaises
<1>7. ASSUME NEW w \in Workers, MarkPublished(w) PROVE WorkersInv'
  BY <1>7 DEF MarkPublished, Release
<1>8. ASSUME NEW w \in Workers, RecordFailure(w) PROVE WorkersInv'
  BY <1>8 DEF RecordFailure, FailWithLimit, Release
<1>9. ASSUME NEW w \in Workers, Crash(w) PROVE WorkersInv'
  BY <1>9 DEF Crash, Release
<1>10. ASSUME NEW w \in Workers, FinalWriteRaises(w) PROVE WorkersInv'
  BY <1>10 DEF FinalWriteRaises, Release
<1>11. CASE Tick
  BY <1>11 DEF Tick
<1>12. CASE UNCHANGED vars
  BY <1>12
<1>13. QED
  BY <1>1, <1>2, <1>3, <1>4, <1>5, <1>6, <1>7, <1>8, <1>9, <1>10, <1>11, <1>12
  DEF Next, Dispatch

(* The type invariant: every reachable state is well typed. *)
THEOREM TypeCorrect == Spec => []TypeOK
<1>1. Init => TypeOK /\ WorkersInv
  BY LimitsPositive, NoEventFresh DEF Init, TypeOK, WorkersInv, Status, Stage
<1>2. QED BY <1>1, TypeStep, WorkersStep, PTL DEF Spec

(* A worker holds a row exactly while it dispatches one, the row exists, and *)
(* a worker about to confirm has sent.                                       *)
THEOREM WorkersCorrect == Spec => []WorkersInv
<1>1. Init => TypeOK /\ WorkersInv
  BY LimitsPositive, NoEventFresh DEF Init, TypeOK, WorkersInv, Status, Stage
<1>2. QED BY <1>1, TypeStep, WorkersStep, PTL DEF Spec

-----------------------------------------------------------------------------
(* No row is published without a message: the only step that publishes     *)
(* belongs to a worker that has sent, and messages are never un-sent.      *)
THEOREM PublishedOnlyIfSent == Spec => []PublishedWasSent
<1>1. Init => PublishedWasSent
  BY DEF Init, PublishedWasSent
<1>2. TypeOK /\ WorkersInv /\ PublishedWasSent /\ [Next]_vars => PublishedWasSent'
  <2> SUFFICES ASSUME TypeOK, WorkersInv, PublishedWasSent, [Next]_vars,
                      NEW r \in Events, status'[r] = "published"
               PROVE  sent'[r] > 0
    BY DEF PublishedWasSent
  <2> USE DEF TypeOK, PublishedWasSent, rows, workers, vars
  <2>1. ASSUME NEW w \in Workers, Send(w) \/ SendRaises(w) PROVE sent'[r] > 0
    BY <2>1 DEF Send, SendRaises
  <2>2. ASSUME NEW w \in Workers, MarkPublished(w) PROVE sent'[r] > 0
    BY <2>2 DEF MarkPublished, WorkersInv
  <2>3. ASSUME NEW w \in Workers, RecordFailure(w) PROVE sent'[r] > 0
    BY <2>3 DEF RecordFailure, FailWithLimit
  <2>4. ASSUME NEW e \in Events, NEW w \in Workers, Claim(w, e) \/ Skip(w, e)
        PROVE  sent'[r] > 0
    BY <2>4 DEF Claim, Skip
  <2>5. CASE (\E e \in Events : Enqueue(e)) \/ Tick \/ UNCHANGED vars
    BY <2>5 DEF Enqueue, Tick
  <2>6. ASSUME NEW w \in Workers, SelectBatch(w) \/ Crash(w) \/ FinalWriteRaises(w)
        PROVE  sent'[r] > 0
    BY <2>6 DEF SelectBatch, Crash, FinalWriteRaises
  <2>7. QED BY <2>1, <2>2, <2>3, <2>4, <2>5, <2>6 DEF Next, Dispatch
<1>3. QED BY <1>1, <1>2, TypeCorrect, WorkersCorrect, PTL DEF Spec

(* No row is given up before its last attempt. *)
THEOREM GivenUpCorrect == Spec => []GivenUpOnlyWhenExhausted
<1>1. Init => GivenUpOnlyWhenExhausted
  BY DEF Init, GivenUpOnlyWhenExhausted
<1>2. TypeOK /\ WorkersInv /\ GivenUpOnlyWhenExhausted /\ [Next]_vars
        => GivenUpOnlyWhenExhausted'
  <2> SUFFICES ASSUME TypeOK, WorkersInv, GivenUpOnlyWhenExhausted, [Next]_vars,
                      NEW r \in Events, status'[r] = "failed"
               PROVE  attempts'[r] >= MaxAttempts
    BY DEF GivenUpOnlyWhenExhausted
  <2> USE DEF TypeOK, GivenUpOnlyWhenExhausted, rows, workers, vars
  <2>1. ASSUME NEW w \in Workers, RecordFailure(w) PROVE attempts'[r] >= MaxAttempts
    BY <2>1, HeldRow DEF RecordFailure, FailWithLimit
  <2>2. ASSUME NEW w \in Workers, MarkPublished(w) PROVE attempts'[r] >= MaxAttempts
    BY <2>2 DEF MarkPublished
  <2>3. ASSUME NEW e \in Events, NEW w \in Workers, Claim(w, e) \/ Skip(w, e)
        PROVE  attempts'[r] >= MaxAttempts
    BY <2>3 DEF Claim, Skip
  <2>4. ASSUME NEW w \in Workers,
               \/ SelectBatch(w) \/ Send(w) \/ SendRaises(w)
               \/ Crash(w) \/ FinalWriteRaises(w)
        PROVE  attempts'[r] >= MaxAttempts
    BY <2>4 DEF SelectBatch, Send, SendRaises, Crash, FinalWriteRaises
  <2>5. CASE (\E e \in Events : Enqueue(e)) \/ Tick \/ UNCHANGED vars
    BY <2>5 DEF Enqueue, Tick
  <2>6. QED BY <2>1, <2>2, <2>3, <2>4, <2>5 DEF Next, Dispatch
<1>3. QED BY <1>1, <1>2, TypeCorrect, WorkersCorrect, PTL DEF Spec

-----------------------------------------------------------------------------
(* The workers that hold a row, and those about to send it, are finitely   *)
(* many, and no more than there are workers.                               *)
LEMMA Counting ==
  ASSUME NEW S \in SUBSET Workers
  PROVE  /\ IsFiniteSet(S)
         /\ Cardinality(S) \in Nat
         /\ Cardinality(Workers) \in Nat
         /\ Cardinality(S) <= Cardinality(Workers)
BY WorkersFinite, FS_Subset, FS_CardinalityType

(* One worker more, or one worker less. *)
LEMMA CountingStep ==
  ASSUME NEW S \in SUBSET Workers, NEW w \in Workers
  PROVE  /\ w \notin S => Cardinality(S \cup {w}) = Cardinality(S) + 1
         /\ w \in S => Cardinality(S \ {w}) = Cardinality(S) - 1
BY Counting, FS_AddElement, FS_RemoveElement

(* Each step accounts for its messages: a claim pays for one, and a worker *)
(* that sends stops being about to.                                        *)
LEMMA SentStep == TypeOK /\ WorkersInv /\ SentInv /\ [Next]_vars => SentInv'
<1> SUFFICES ASSUME TypeOK, WorkersInv, SentInv, [Next]_vars, NEW r \in Events
             PROVE  sent'[r] + Cardinality(Sending(r)') <= attempts'[r]
  BY DEF SentInv
<1> DEFINE Goal == sent'[r] + Cardinality(Sending(r)') <= attempts'[r]
<1>0. /\ sent[r] + Cardinality(Sending(r)) <= attempts[r]
      /\ Sending(r) \in SUBSET Workers
      /\ Cardinality(Sending(r)) \in Nat
      /\ sent[r] \in Nat /\ attempts[r] \in Nat
  BY Counting DEF SentInv, Sending, TypeOK
<1>1. ASSUME Sending(r)' = Sending(r), sent'[r] = sent[r], attempts'[r] >= attempts[r],
             attempts'[r] \in Nat
      PROVE  Goal
  BY <1>0, <1>1
<1> USE DEF TypeOK, rows, workers, vars, Sending
<1>2. ASSUME NEW w \in Workers, NEW e \in Events, Claim(w, e) PROVE Goal
  <2>1. CASE e = r
    <3>1. Sending(r)' = Sending(r) \cup {w} /\ w \notin Sending(r)
      BY <1>2, <2>1 DEF Claim, Stage
    <3>2. Cardinality(Sending(r)') = Cardinality(Sending(r)) + 1
      BY <3>1, <1>0, CountingStep
    <3>3. sent'[r] = sent[r] /\ attempts'[r] = attempts[r] + 1
      BY <1>2, <2>1 DEF Claim
    <3>4. QED BY <3>2, <3>3, <1>0
  <2>2. CASE e # r
    <3>1. Sending(r)' = Sending(r) /\ sent'[r] = sent[r] /\ attempts'[r] = attempts[r]
      BY <1>2, <2>2, NoEventFresh DEF Claim, WorkersInv
    <3>2. QED BY <3>1, <1>0, <1>1
  <2>3. QED BY <2>1, <2>2
<1>3. ASSUME NEW w \in Workers, Send(w) \/ SendRaises(w) PROVE Goal
  <2>0. claimed[w] \in Events /\ stage[w] = "sending"
    BY <1>3, HeldRow DEF Send, SendRaises
  <2>1. CASE claimed[w] = r
    <3>1. Sending(r)' = Sending(r) \ {w} /\ w \in Sending(r)
      BY <1>3, <2>0, <2>1 DEF Send, SendRaises
    <3>2. Cardinality(Sending(r)') = Cardinality(Sending(r)) - 1
      BY <3>1, <1>0, CountingStep
    <3>3. /\ sent'[r] \in sent[r]..(sent[r] + 1)
          /\ attempts'[r] = attempts[r]
      BY <1>3, <2>1 DEF Send, SendRaises
    <3>4. QED BY <3>2, <3>3, <1>0
  <2>2. CASE claimed[w] # r
    <3>1. Sending(r)' = Sending(r) /\ sent'[r] = sent[r] /\ attempts'[r] = attempts[r]
      BY <1>3, <2>0, <2>2 DEF Send, SendRaises
    <3>2. QED BY <3>1, <1>0, <1>1
  <2>3. QED BY <2>1, <2>2
<1>4. ASSUME NEW w \in Workers, MarkPublished(w) \/ RecordFailure(w) \/ FinalWriteRaises(w)
      PROVE  Goal
  <2>1. Sending(r)' = Sending(r)
    BY <1>4, NoEventFresh DEF MarkPublished, RecordFailure, FailWithLimit,
                             FinalWriteRaises, Release
  <2>2. sent'[r] = sent[r] /\ attempts'[r] = attempts[r]
    BY <1>4 DEF MarkPublished, RecordFailure, FailWithLimit, FinalWriteRaises
  <2>3. QED BY <2>1, <2>2, <1>0, <1>1
<1>5. ASSUME NEW w \in Workers, Crash(w) PROVE Goal
  <2>1. Sending(r)' = Sending(r) \ {w}
    BY <1>5, NoEventFresh DEF Crash, Release
  <2>2. Cardinality(Sending(r)') <= Cardinality(Sending(r)) /\ Cardinality(Sending(r)') \in Nat
    <3>1. Sending(r) \ {w} \in SUBSET Sending(r) /\ IsFiniteSet(Sending(r))
      BY <1>0, Counting
    <3>2. QED BY <2>1, <3>1, FS_Subset, FS_CardinalityType
  <2>3. sent'[r] = sent[r] /\ attempts'[r] = attempts[r]
    BY <1>5 DEF Crash
  <2>4. QED BY <2>2, <2>3, <1>0
<1>6. ASSUME NEW w \in Workers, SelectBatch(w) \/ (\E e \in Events : Skip(w, e)) PROVE Goal
  <2>1. Sending(r)' = Sending(r) /\ sent' = sent /\ attempts' = attempts
    BY <1>6 DEF SelectBatch, Skip
  <2>2. QED BY <2>1, <1>0, <1>1
<1>7. CASE (\E e \in Events : Enqueue(e)) \/ Tick \/ UNCHANGED vars
  <2>1. Sending(r)' = Sending(r) /\ sent' = sent /\ attempts' = attempts
    BY <1>7 DEF Enqueue, Tick
  <2>2. QED BY <2>1, <1>0, <1>1
<1>8. QED BY <1>2, <1>3, <1>4, <1>5, <1>6, <1>7 DEF Next, Dispatch

(* A row is never sent more often than it was claimed. *)
THEOREM SentCorrect == Spec => []SentWithinAttempts
<1>1. Init => SentInv
  <2> SUFFICES ASSUME Init, NEW e \in Events
               PROVE  sent[e] + Cardinality(Sending(e)) <= attempts[e]
    BY DEF SentInv
  <2>1. Sending(e) = {}
    BY DEF Init, Sending
  <2>2. QED BY <2>1, FS_EmptySet DEF Init
<1>2. TypeOK /\ SentInv => SentWithinAttempts
  <2> SUFFICES ASSUME TypeOK, SentInv, NEW e \in Events PROVE sent[e] <= attempts[e]
    BY DEF SentWithinAttempts
  <2>1. Sending(e) \in SUBSET Workers
    BY DEF Sending
  <2>2. Cardinality(Sending(e)) \in Nat
    BY <2>1, Counting
  <2>3. QED BY <2>2 DEF SentInv, TypeOK
<1>3. QED BY <1>1, <1>2, SentStep, TypeCorrect, WorkersCorrect, PTL DEF Spec

-----------------------------------------------------------------------------
(* Each step keeps the account of the claims beyond the limit: a take-over *)
(* adds a holder, a holder that leaves without settling the row is a       *)
(* crash, and a holder that writes its outcome settles the row.            *)
LEMMA AttemptsStep == TypeOK /\ WorkersInv /\ AttemptsInv /\ [Next]_vars => AttemptsInv'
<1> DEFINE Account(st, at, held, cr) ==
             /\ st \in {"absent", "pending"} => at < MaxAttempts
             /\ st = "processing" /\ at >= MaxAttempts => at <= MaxAttempts - 1 + held + cr
<1> SUFFICES ASSUME TypeOK, WorkersInv, AttemptsInv, [Next]_vars, NEW r \in Events
             PROVE  Account(status'[r], attempts'[r], Cardinality(InFlight(r)'), crashes')
  BY DEF AttemptsInv
<1> DEFINE Goal == Account(status'[r], attempts'[r], Cardinality(InFlight(r)'), crashes')
<1>0. /\ Account(status[r], attempts[r], Cardinality(InFlight(r)), crashes)
      /\ InFlight(r) \in SUBSET Workers
      /\ Cardinality(InFlight(r)) \in Nat
      /\ attempts[r] \in Nat /\ crashes \in Nat /\ MaxAttempts \in Nat \ {0}
  <2>1. InFlight(r) \in SUBSET Workers
    BY DEF InFlight
  <2>2. Cardinality(InFlight(r)) \in Nat
    BY <2>1, Counting
  <2>3. attempts[r] \in Nat /\ crashes \in Nat /\ MaxAttempts \in Nat \ {0}
    BY LimitsPositive DEF TypeOK
  <2>4. QED BY <2>1, <2>2, <2>3 DEF AttemptsInv
<1>1. ASSUME InFlight(r)' = InFlight(r), attempts'[r] = attempts[r], crashes' = crashes,
             \/ status'[r] = status[r]
             \/ status'[r] \notin {"absent", "pending", "processing"}
             \/ status'[r] = "pending" /\ status[r] = "absent"
      PROVE  Goal
  BY <1>0, <1>1
<1> USE DEF TypeOK, rows, workers, vars
<1>2. ASSUME NEW w \in Workers, NEW e \in Events, Claim(w, e) PROVE Goal
  <2>0. claimed[w] = NoEvent /\ NoEvent # r
    BY <1>2, NoEventFresh DEF Claim, WorkersInv
  <2>1. CASE e = r
    <3>1. InFlight(r)' = InFlight(r) \cup {w} /\ w \notin InFlight(r)
      BY <1>2, <2>0, <2>1 DEF Claim, InFlight
    <3>2. Cardinality(InFlight(r)') = Cardinality(InFlight(r)) + 1
      BY <3>1, <1>0, CountingStep
    <3>3. /\ attempts'[r] = attempts[r] + 1 /\ crashes' = crashes
          /\ status'[r] = "processing" /\ status[r] \in {"pending", "processing"}
      BY <1>2, <2>1 DEF Claim, Claimable, StaleClaim
    <3>4. QED BY <3>2, <3>3, <1>0
  <2>2. CASE e # r
    <3>1. InFlight(r)' = InFlight(r)
      BY <1>2, <2>0, <2>2 DEF Claim, InFlight
    <3>2. attempts'[r] = attempts[r] /\ crashes' = crashes /\ status'[r] = status[r]
      BY <1>2, <2>2 DEF Claim
    <3>3. QED BY <3>1, <3>2, <1>1
  <2>3. QED BY <2>1, <2>2
<1>3. ASSUME NEW w \in Workers, MarkPublished(w) \/ RecordFailure(w) PROVE Goal
  <2>0. claimed[w] \in Events
    BY <1>3, HeldRow DEF MarkPublished, RecordFailure, FailWithLimit
  <2>1. CASE claimed[w] = r
    <3>1. /\ attempts'[r] = attempts[r]
          /\ \/ status'[r] \in {"published", "failed"}
             \/ status'[r] = "pending" /\ attempts[r] < MaxAttempts
      BY <1>3, <2>1 DEF MarkPublished, RecordFailure, FailWithLimit
    <3>2. QED BY <3>1
  <2>2. CASE claimed[w] # r
    <3>1. InFlight(r)' = InFlight(r)
      BY <1>3, <2>2, NoEventFresh DEF MarkPublished, RecordFailure, FailWithLimit,
                                      Release, InFlight
    <3>2. attempts'[r] = attempts[r] /\ crashes' = crashes /\ status'[r] = status[r]
      BY <1>3, <2>2 DEF MarkPublished, RecordFailure, FailWithLimit
    <3>3. QED BY <3>1, <3>2, <1>1
  <2>3. QED BY <2>1, <2>2
<1>4. ASSUME NEW w \in Workers, Crash(w) \/ FinalWriteRaises(w) PROVE Goal
  <2>1. InFlight(r)' = InFlight(r) \ {w}
    BY <1>4, NoEventFresh DEF Crash, FinalWriteRaises, Release, InFlight
  <2>2. Cardinality(InFlight(r)') + 1 >= Cardinality(InFlight(r)) /\ Cardinality(InFlight(r)') \in Nat
    <3>1. CASE w \in InFlight(r)
      BY <2>1, <3>1, <1>0, CountingStep, Counting
    <3>2. CASE w \notin InFlight(r)
      <4>1. InFlight(r)' = InFlight(r)
        BY <2>1, <3>2
      <4>2. QED BY <4>1, <1>0
    <3>3. QED BY <3>1, <3>2
  <2>3. attempts'[r] = attempts[r] /\ status'[r] = status[r] /\ crashes' = crashes + 1
    BY <1>4 DEF Crash, FinalWriteRaises
  <2>4. QED BY <2>2, <2>3, <1>0
<1>5. ASSUME NEW w \in Workers,
             SelectBatch(w) \/ Send(w) \/ SendRaises(w) \/ (\E e \in Events : Skip(w, e))
      PROVE  Goal
  <2>1. InFlight(r)' = InFlight(r) /\ attempts' = attempts /\ status' = status /\ crashes' = crashes
    BY <1>5 DEF SelectBatch, Skip, Send, SendRaises, InFlight
  <2>2. QED BY <2>1, <1>1
<1>6. ASSUME NEW e \in Events, Enqueue(e) PROVE Goal
  <2>1. InFlight(r)' = InFlight(r)
    BY <1>6 DEF Enqueue, InFlight
  <2>2. attempts' = attempts /\ crashes' = crashes
    BY <1>6 DEF Enqueue
  <2>3. status'[r] = status[r] \/ (status'[r] = "pending" /\ status[r] = "absent")
    BY <1>6 DEF Enqueue
  <2>4. QED BY <2>1, <2>2, <2>3, <1>1
<1>7. CASE Tick \/ UNCHANGED vars
  <2>1. InFlight(r)' = InFlight(r) /\ attempts' = attempts /\ status' = status /\ crashes' = crashes
    BY <1>7 DEF Tick, InFlight
  <2>2. QED BY <2>1, <1>1
<1>8. QED BY <1>2, <1>3, <1>4, <1>5, <1>6, <1>7 DEF Next, Dispatch

(* Only a claim spends an attempt, and a row just claimed is in processing. *)
LEMMA AttemptsSpent ==
  ASSUME TypeOK, WorkersInv, [Next]_vars, NEW r \in Events
  PROVE  /\ crashes' >= crashes
         /\ attempts'[r] = attempts[r] \/ status'[r] = "processing"
<1> USE DEF TypeOK, rows, workers, vars
<1>1. ASSUME NEW w \in Workers, NEW e \in Events, Claim(w, e)
      PROVE  crashes' >= crashes /\ (attempts'[r] = attempts[r] \/ status'[r] = "processing")
  BY <1>1 DEF Claim
<1>2. ASSUME NEW w \in Workers,
             \/ SelectBatch(w) \/ Send(w) \/ SendRaises(w) \/ MarkPublished(w)
             \/ RecordFailure(w) \/ Crash(w) \/ FinalWriteRaises(w)
             \/ \E e \in Events : Skip(w, e)
      PROVE  crashes' >= crashes /\ attempts' = attempts
  BY <1>2 DEF SelectBatch, Skip, Send, SendRaises, MarkPublished, RecordFailure, FailWithLimit,
              Crash, FinalWriteRaises
<1>3. CASE (\E e \in Events : Enqueue(e)) \/ Tick \/ UNCHANGED vars
  BY <1>3 DEF Enqueue, Tick
<1>4. QED BY <1>1, <1>2, <1>3 DEF Next, Dispatch

(* In every reachable state a row has been attempted at most MaxAttempts - 1 *)
(* times plus once per worker and once per worker lost.                      *)
THEOREM AttemptsCorrect == Spec => []AttemptsBounded
<1>1. Init => AttemptsInv /\ AttemptsBounded
  <2>1. Cardinality(Workers) \in Nat
    BY Counting
  <2>2. QED BY <2>1, LimitsPositive DEF Init, AttemptsInv, AttemptsBounded
<1>2. ASSUME TypeOK, AttemptsInv, NEW r \in Events, status[r] \notin Settled
      PROVE  attempts[r] <= MaxAttempts - 1 + Cardinality(Workers) + crashes
  <2>1. /\ Cardinality(InFlight(r)) \in Nat /\ Cardinality(Workers) \in Nat
        /\ Cardinality(InFlight(r)) <= Cardinality(Workers)
    BY Counting DEF InFlight
  <2>2. status[r] \in {"absent", "pending", "processing"}
    BY <1>2 DEF TypeOK, Status, Settled
  <2>3. attempts[r] \in Nat /\ crashes \in Nat /\ MaxAttempts \in Nat \ {0}
    BY <1>2, LimitsPositive DEF TypeOK
  <2>4. QED BY <2>1, <2>2, <2>3, <1>2 DEF AttemptsInv
<1>3. TypeOK /\ TypeOK' /\ WorkersInv /\ AttemptsInv' /\ AttemptsBounded /\ [Next]_vars
        => AttemptsBounded'
  <2> SUFFICES ASSUME TypeOK, TypeOK', WorkersInv, AttemptsInv', AttemptsBounded, [Next]_vars,
                      NEW r \in Events
               PROVE  attempts'[r] <= MaxAttempts - 1 + Cardinality(Workers) + crashes'
    BY DEF AttemptsBounded
  <2>0. Cardinality(Workers) \in Nat
    BY Counting
  <2>1. CASE attempts'[r] = attempts[r]
    <3>1. crashes' >= crashes
      BY AttemptsSpent
    <3>2. attempts[r] \in Nat /\ crashes \in Nat /\ crashes' \in Nat /\ MaxAttempts \in Nat
      BY LimitsPositive DEF TypeOK
    <3>3. QED BY <2>0, <2>1, <3>1, <3>2 DEF AttemptsBounded
  <2>2. CASE status'[r] = "processing"
    <3>1. /\ Cardinality(InFlight(r)') \in Nat
          /\ Cardinality(InFlight(r)') <= Cardinality(Workers)
      BY Counting DEF InFlight
    <3>2. attempts'[r] \in Nat /\ crashes' \in Nat /\ MaxAttempts \in Nat \ {0}
      BY LimitsPositive DEF TypeOK
    <3>3. QED BY <2>0, <2>2, <3>1, <3>2 DEF AttemptsInv
  <2>3. QED BY <2>1, <2>2, AttemptsSpent
<1>4. QED BY <1>1, <1>3, TypeStep, AttemptsStep, TypeCorrect, WorkersCorrect, PTL DEF Spec
=============================================================================
