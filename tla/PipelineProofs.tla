--------------------------- MODULE PipelineProofs ---------------------------
(***************************************************************************)
(* Proofs about Pipeline: its safety properties, and that it implements    *)
(* Registry.  A task past its first query holds the campaign's row, and    *)
(* nobody else writes a contact while it does: what the search found is    *)
(* still so at the commit (OwnerInv).  That a message is always about an   *)
(* accepted submission comes from the outbox (KnownInv).                   *)
(***************************************************************************)
EXTENDS Pipeline, OutboxProofs

(* Rows and messages are about submissions that were accepted. *)
KnownInv ==
  \A s \in Events :
    /\ result[s] = "none" <=> status[s] = "absent"
    /\ sent[s] > 0 => status[s] # "absent"
    /\ \A r \in 1..MaxRetries : republished[s][r] > 0 => result[s] # "none"

OwnerInv ==
  \A t \in Tasks :
    /\ at[t] # "idle" => on[t] \in Events /\ result[on[t]] # "none"
    /\ at[t] \in {"locked", "searched"} => owner = t /\ result[on[t]] = "received"
    /\ at[t] = "searched" => (duplicate[t] <=> ContactsOf[on[t]] \cap Reg!Stored # {})

TablesInv == EffectsOnce /\ NoSharedContact /\ ReviewJustified

PInv == TypeOK /\ WorkersInv /\ PTypeOK /\ KnownInv /\ OwnerInv /\ TablesInv

-----------------------------------------------------------------------------
(* The tables say what they said. *)
LEMMA SameTables ==
  ASSUME TablesInv, UNCHANGED tables
  PROVE  /\ TablesInv'
         /\ Reg!Stored' = Reg!Stored
         /\ UNCHANGED <<result, persons, requests, announced, listed>>
  <1>1. UNCHANGED <<result, persons, requests, announced, listed>>
    BY DEF tables
  <1>2. Reg!Stored' = Reg!Stored
    BY <1>1 DEF Reg!Stored
  <1>3. EffectsOnce' /\ NoSharedContact'
    BY <1>1 DEF TablesInv, EffectsOnce, Reg!EffectsOnce, NoSharedContact, Reg!NoSharedContact,
                Reg!Done, Reg!Count
  <1>4. ReviewJustified'
    BY <1>1, <1>2 DEF TablesInv, ReviewJustified, Reg!ReviewJustified
  <1> QED
    BY <1>1, <1>2, <1>3, <1>4 DEF TablesInv

(* Seen from the outbox, every step is one of its own or none. *)
LEMMA OutboxStepOrNone == [PNext]_pvars => [Next]_vars
  BY DEF PNext, pvars, Next, Accept, RegisterByHand, OutboxStep, Run, Take, TakeRetry, AlreadyDone,
         Lock, SearchContacts, Commit, Raise, Kill

LEMMA OutboxKeepsTypes == PInv /\ [PNext]_pvars => TypeOK' /\ WorkersInv'
  BY OutboxStepOrNone, TypeStep, WorkersStep DEF PInv

LEMMA PInvInit == PInit => PInv
  <1>1. SUFFICES ASSUME PInit PROVE PInv
    OBVIOUS
  <1>2. TypeOK /\ WorkersInv
    BY <1>1, LimitsPositive, NoEventFresh DEF PInit, Init, TypeOK, WorkersInv, Status, Stage
  <1>3. /\ result = [s \in Events |-> "none"] /\ persons = [s \in Events |-> 0]
        /\ requests = [s \in Events |-> 0] /\ announced = [s \in Events |-> 0] /\ listed = {}
    BY <1>1 DEF PInit, Reg!Init
  <1>4. PTypeOK
    BY <1>1, <1>3, TasksAssumption DEF PInit, PTypeOK
  <1>5. KnownInv
    BY <1>1, <1>3 DEF PInit, Init, KnownInv
  <1>6. OwnerInv
    BY <1>1 DEF PInit, OwnerInv
  <1>7. TablesInv
    BY <1>3 DEF TablesInv, EffectsOnce, NoSharedContact, ReviewJustified, Reg!EffectsOnce,
                Reg!NoSharedContact, Reg!ReviewJustified, Reg!Done, Reg!Count
  <1> QED
    BY <1>2, <1>4, <1>5, <1>6, <1>7 DEF PInv

-----------------------------------------------------------------------------
(* The intake. *)
LEMMA AcceptKeeps ==
  ASSUME PInv, NEW s \in Events, Accept(s)
  PROVE  PTypeOK' /\ KnownInv' /\ OwnerInv' /\ TablesInv'
  <1> USE DEF PInv
  <1>1. /\ result[s] = "none" /\ result' = [result EXCEPT ![s] = "received"]
        /\ UNCHANGED <<persons, requests, announced, listed>>
        /\ status' = [status EXCEPT ![s] = "pending"] /\ sent' = sent
        /\ UNCHANGED <<at, on, tries, duplicate, owner, taken, republished, raised, killed>>
    BY DEF Accept, Reg!Accept, Enqueue, tasks, messages, budget
  <1>2. PTypeOK'
    BY <1>1 DEF PTypeOK
  <1>3. KnownInv'
    BY <1>1 DEF KnownInv, PTypeOK, TypeOK
  <1>4. Reg!Stored' = Reg!Stored
    BY <1>1 DEF Reg!Stored
  <1>5. \A x \in Events : x # s => result'[x] = result[x]
    BY <1>1 DEF PTypeOK
  <1>6. OwnerInv'
    BY <1>1, <1>4, <1>5 DEF OwnerInv
  <1>7. result'[s] = "received"
    BY <1>1 DEF PTypeOK
  <1>8. EffectsOnce'
    BY <1>1, <1>5, <1>7 DEF TablesInv, EffectsOnce, Reg!EffectsOnce, Reg!Done, Reg!Count
  <1>9. NoSharedContact' /\ ReviewJustified'
    BY <1>1, <1>4, <1>5, <1>7
    DEF TablesInv, NoSharedContact, Reg!NoSharedContact, ReviewJustified, Reg!ReviewJustified
  <1> QED
    BY <1>2, <1>3, <1>6, <1>8, <1>9 DEF TablesInv

(* By hand: nobody is past the search then. *)
LEMMA RegisterKeeps ==
  ASSUME PInv, NEW c \in ByHand, RegisterByHand(c)
  PROVE  PTypeOK' /\ KnownInv' /\ OwnerInv' /\ TablesInv'
  <1> USE DEF PInv
  <1>1. /\ owner = NoTask /\ listed' = listed \cup {c}
        /\ UNCHANGED <<result, persons, requests, announced>>
        /\ UNCHANGED <<status, sent>>
        /\ UNCHANGED <<at, on, tries, duplicate, owner, taken, republished, raised, killed>>
    BY DEF RegisterByHand, Reg!Register, tasks, messages, budget, vars, rows
  <1>2. PTypeOK'
    BY <1>1 DEF PTypeOK
  <1>3. KnownInv'
    BY <1>1 DEF KnownInv
  <1>4. \A t \in Tasks : at[t] \notin {"locked", "searched"}
    BY <1>1, TasksAssumption DEF OwnerInv
  <1>5. OwnerInv'
    BY <1>1, <1>4 DEF OwnerInv
  <1>6. Reg!Stored \subseteq Reg!Stored'
    BY <1>1 DEF Reg!Stored
  <1>7. EffectsOnce' /\ NoSharedContact'
    BY <1>1 DEF TablesInv, EffectsOnce, Reg!EffectsOnce, NoSharedContact, Reg!NoSharedContact,
                Reg!Done, Reg!Count
  <1>8. ReviewJustified'
    BY <1>1, <1>6 DEF TablesInv, ReviewJustified, Reg!ReviewJustified
  <1> QED
    BY <1>2, <1>3, <1>5, <1>7, <1>8 DEF TablesInv

(* A row that is absent stays so, and is not sent. *)
LEMMA OutboxKeepsKnown ==
  ASSUME PInv, OutboxStep
  PROVE  \A s \in Events : /\ status'[s] = "absent" <=> status[s] = "absent"
                           /\ sent'[s] > 0 => status'[s] # "absent"
  <1> USE DEF PInv
  <1>1. CASE \E w \in Workers : SelectBatch(w) \/ Crash(w) \/ FinalWriteRaises(w)
    BY <1>1 DEF SelectBatch, Crash, FinalWriteRaises, rows, KnownInv
  <1>2. CASE Tick
    BY <1>2 DEF Tick, KnownInv
  <1>3. CASE \E w \in Workers : Dispatch(w)
    <2>1. PICK w \in Workers : Dispatch(w)
      BY <1>3
    <2>2. stage[w] # "loop" => claimed[w] \in Events /\ status[claimed[w]] # "absent"
      BY DEF WorkersInv, TypeOK
    <2>3. CASE \E e \in Events : Claim(w, e)
      BY <2>3 DEF Claim, Claimable, StaleClaim, TypeOK, KnownInv
    <2>4. CASE \E e \in Events : Skip(w, e)
      BY <2>4 DEF Skip, rows, KnownInv
    <2>5. CASE Send(w) \/ SendRaises(w)
      <3>1. /\ UNCHANGED status
            /\ \E n \in 0..1 : sent' = [sent EXCEPT ![claimed[w]] = @ + n]
        BY <2>5 DEF Send, SendRaises, rows
      <3>2. \A s \in Events : s # claimed[w] => sent'[s] = sent[s]
        BY <3>1 DEF TypeOK
      <3>3. stage[w] # "loop"
        BY <2>5 DEF Send, SendRaises
      <3> QED
        BY <2>2, <3>1, <3>2, <3>3 DEF KnownInv
    <2>6. CASE MarkPublished(w)
      BY <2>2, <2>6 DEF MarkPublished, TypeOK, KnownInv
    <2>7. CASE RecordFailure(w)
      BY <2>2, <2>7 DEF RecordFailure, FailWithLimit, TypeOK, KnownInv
    <2> QED
      BY <2>1, <2>3, <2>4, <2>5, <2>6, <2>7 DEF Dispatch
  <1> QED
    BY <1>1, <1>2, <1>3 DEF OutboxStep

LEMMA OutboxKeeps ==
  ASSUME PInv, OutboxStep
  PROVE  PTypeOK' /\ KnownInv' /\ OwnerInv' /\ TablesInv'
  <1>1. UNCHANGED tables
        /\ UNCHANGED <<at, on, tries, duplicate, owner, taken, republished, raised, killed>>
    BY DEF OutboxStep, tasks, messages, budget
  <1>2. TablesInv' /\ Reg!Stored' = Reg!Stored
        /\ UNCHANGED <<result, persons, requests, announced, listed>>
    BY <1>1, SameTables DEF PInv
  <1>3. PTypeOK' /\ OwnerInv'
    BY <1>1, <1>2 DEF PInv, PTypeOK, OwnerInv
  <1>4. KnownInv'
    BY <1>1, <1>2, OutboxKeepsKnown DEF PInv, KnownInv
  <1> QED
    BY <1>2, <1>3, <1>4

-----------------------------------------------------------------------------
(* The tasks.  A message is taken: it is about an accepted submission. *)
LEMMA TakeKeeps ==
  ASSUME PInv, NEW t \in Tasks, NEW s \in Events,
         Take(t, s) \/ \E r \in 1..MaxRetries : TakeRetry(t, s, r)
  PROVE  PTypeOK' /\ KnownInv' /\ OwnerInv' /\ TablesInv'
  <1> USE DEF PInv
  <1>1. /\ at' = [at EXCEPT ![t] = "begun"] /\ on' = [on EXCEPT ![t] = s]
        /\ UNCHANGED <<duplicate, owner, raised, killed, status, sent>>
        /\ UNCHANGED tables
    BY DEF Take, TakeRetry, budget, vars, rows
  <1>2. TablesInv' /\ Reg!Stored' = Reg!Stored
        /\ UNCHANGED <<result, persons, requests, announced, listed>>
    BY <1>1, SameTables
  <1>3. /\ tries' \in [Tasks -> 0..MaxRetries]
        /\ taken' \in [Events -> Nat]
        /\ republished' \in [Events -> [1..MaxRetries -> Nat]]
        /\ \A x \in Events : \A r \in 1..MaxRetries : republished'[x][r] > 0 => result[x] # "none"
        /\ result[s] # "none"
    <2>1. CASE Take(t, s)
      <3>1. /\ taken' = [taken EXCEPT ![s] = @ + 1] /\ tries' = [tries EXCEPT ![t] = 0]
            /\ republished' = republished /\ taken[s] < sent[s]
        BY <2>1 DEF Take
      <3>2. taken' \in [Events -> Nat] /\ tries' \in [Tasks -> 0..MaxRetries]
        BY <3>1, TasksAssumption DEF PTypeOK
      <3>3. taken[s] \in Nat /\ sent[s] \in Nat
        BY DEF PTypeOK, TypeOK
      <3>4. sent[s] > 0
        BY <3>1, <3>3
      <3>5. result[s] # "none"
        BY <3>4 DEF KnownInv
      <3>6. \A x \in Events : \A r \in 1..MaxRetries : republished'[x][r] > 0 => result[x] # "none"
        BY <3>1 DEF KnownInv
      <3>7. republished' \in [Events -> [1..MaxRetries -> Nat]]
        BY <3>1 DEF PTypeOK
      <3> QED
        BY <3>2, <3>5, <3>6, <3>7
    <2>2. CASE \E r \in 1..MaxRetries : TakeRetry(t, s, r)
      <3>1. PICK r \in 1..MaxRetries : TakeRetry(t, s, r)
        BY <2>2
      <3>2. /\ republished[s][r] \in Nat /\ republished[s][r] > 0
            /\ republished' = [republished EXCEPT ![s][r] = @ - 1]
            /\ tries' = [tries EXCEPT ![t] = r] /\ taken' = taken
        <4>1. republished[s] \in [1..MaxRetries -> Nat]
          BY DEF PTypeOK
        <4>2. republished[s][r] \in Nat
          BY <4>1
        <4> QED
          BY <3>1, <4>2 DEF TakeRetry
      <3>3. result[s] # "none"
        BY <3>2 DEF KnownInv
      <3>4. \A x \in Events : \A y \in 1..MaxRetries :
              republished'[x][y] = IF x = s /\ y = r THEN republished[s][r] - 1
                                                     ELSE republished[x][y]
        <4>1. \A x \in Events : republished[x] \in [1..MaxRetries -> Nat]
          BY DEF PTypeOK
        <4>2. republished[s][r] - 1 \in Nat
          BY <3>2
        <4> QED
          BY <3>2, <4>1, <4>2 DEF PTypeOK
      <3>5. republished' \in [Events -> [1..MaxRetries -> Nat]]
        BY <3>2 DEF PTypeOK
      <3>6. \A x \in Events : \A y \in 1..MaxRetries : republished'[x][y] > 0 => result[x] # "none"
        BY <3>3, <3>4 DEF KnownInv
      <3>7. tries' \in [Tasks -> 0..MaxRetries] /\ taken' \in [Events -> Nat]
        BY <3>2, TasksAssumption DEF PTypeOK
      <3> QED
        BY <3>3, <3>5, <3>6, <3>7
    <2> QED
      BY <2>1, <2>2
  <1>4. PTypeOK'
    BY <1>1, <1>2, <1>3 DEF PTypeOK
  <1>5. KnownInv'
    BY <1>1, <1>2, <1>3 DEF KnownInv
  <1>6. OwnerInv'
    BY <1>1, <1>2, <1>3 DEF OwnerInv, PTypeOK
  <1> QED
    BY <1>2, <1>4, <1>5, <1>6

(* The task that ends lets the lock go, and nobody else had it. *)
LEMMA FinishKeepsOthers ==
  ASSUME PInv, NEW t \in Tasks, Finish(t)
  PROVE  /\ at'[t] = "idle"
         /\ \A u \in Tasks \ {t} : /\ at'[u] = at[u] /\ on'[u] = on[u]
                                   /\ duplicate'[u] = duplicate[u]
                                   /\ owner = u => owner' = u
         /\ at' \in [Tasks -> {"idle", "begun", "locked", "searched"}]
         /\ on' \in [Tasks -> Events \cup {NoEvent}]
         /\ tries' \in [Tasks -> 0..MaxRetries]
         /\ duplicate' \in [Tasks -> BOOLEAN]
         /\ owner' \in Tasks \cup {NoTask}
  BY TasksAssumption DEF Finish, PInv, PTypeOK

(* A task ends without a change of the tables: done already, raised, killed. *)
LEMMA EndKeeps ==
  ASSUME PInv, NEW t \in Tasks, AlreadyDone(t) \/ Raise(t) \/ Kill(t)
  PROVE  PTypeOK' /\ KnownInv' /\ OwnerInv' /\ TablesInv'
  <1> USE DEF PInv
  <1>1. Finish(t) /\ UNCHANGED tables /\ UNCHANGED <<status, sent, taken>> /\ at[t] # "idle"
    BY DEF AlreadyDone, Raise, Kill, vars, rows, messages
  <1>2. TablesInv' /\ Reg!Stored' = Reg!Stored
        /\ UNCHANGED <<result, persons, requests, announced, listed>>
    BY <1>1, SameTables
  <1>3. on[t] \in Events /\ result[on[t]] # "none"
    BY <1>1 DEF OwnerInv
  <1>4. /\ republished' \in [Events -> [1..MaxRetries -> Nat]]
        /\ \A x \in Events \ {on[t]} : republished'[x] = republished[x]
    <2>1. CASE republished' = republished
      BY <2>1 DEF PTypeOK
    <2>2. CASE tries[t] < MaxRetries
               /\ republished' = [republished EXCEPT ![on[t]][tries[t] + 1] = @ + 1]
      <3> DEFINE r == tries[t] + 1
      <3>1. r \in 1..MaxRetries
        BY <2>2, TasksAssumption DEF PTypeOK
      <3>2. republished[on[t]] \in [1..MaxRetries -> Nat]
        BY <1>3 DEF PTypeOK
      <3> HIDE DEF r
      <3>3. republished[on[t]][r] + 1 \in Nat
        <4>1. republished[on[t]][r] \in Nat
          BY <3>1, <3>2
        <4> QED
          BY <4>1
      <3>4. [republished[on[t]] EXCEPT ![r] = @ + 1] \in [1..MaxRetries -> Nat]
        BY <3>2, <3>3
      <3>5. republished' = [republished EXCEPT ![on[t]] = [republished[on[t]] EXCEPT ![r] = @ + 1]]
        BY <2>2 DEF r
      <3> QED
        BY <1>3, <3>4, <3>5 DEF PTypeOK
    <2> QED
      BY <2>1, <2>2 DEF AlreadyDone, Raise, Kill, messages
  <1>5. raised' \in 0..MaxRaises /\ killed' \in 0..MaxKills
    BY TasksAssumption DEF AlreadyDone, Raise, Kill, PTypeOK, budget
  <1>6. PTypeOK'
    BY <1>1, <1>2, <1>4, <1>5, FinishKeepsOthers DEF PTypeOK
  <1>7. KnownInv'
    BY <1>1, <1>2, <1>3, <1>4 DEF KnownInv
  <1>8. OwnerInv'
    BY <1>1, <1>2, FinishKeepsOthers DEF OwnerInv
  <1> QED
    BY <1>2, <1>6, <1>7, <1>8

(* The lock is taken: it was free, so nobody was past it. *)
LEMMA LockKeeps ==
  ASSUME PInv, NEW t \in Tasks, Lock(t)
  PROVE  PTypeOK' /\ KnownInv' /\ OwnerInv' /\ TablesInv'
  <1> USE DEF PInv
  <1>1. /\ at[t] = "begun" /\ owner = NoTask /\ result[on[t]] \notin Reg!Done
        /\ at' = [at EXCEPT ![t] = "locked"] /\ owner' = t
        /\ UNCHANGED tables
        /\ UNCHANGED <<status, sent, on, tries, duplicate, taken, republished, raised, killed>>
    BY DEF Lock, LocksFree, vars, rows, messages, budget
  <1>2. TablesInv' /\ Reg!Stored' = Reg!Stored
        /\ UNCHANGED <<result, persons, requests, announced, listed>>
    BY <1>1, SameTables
  <1>3. \A u \in Tasks : at[u] \notin {"locked", "searched"}
    BY <1>1, TasksAssumption DEF OwnerInv
  <1>4. result[on[t]] = "received"
    BY <1>1 DEF OwnerInv, PTypeOK
  <1>5. PTypeOK'
    BY <1>1, <1>2 DEF PTypeOK
  <1>6. KnownInv'
    BY <1>1, <1>2 DEF KnownInv
  <1>7. OwnerInv'
    BY <1>1, <1>2, <1>3, <1>4 DEF OwnerInv, PTypeOK
  <1> QED
    BY <1>2, <1>5, <1>6, <1>7

(* The search sees the contacts of this moment. *)
LEMMA SearchKeeps ==
  ASSUME PInv, NEW t \in Tasks, SearchContacts(t)
  PROVE  PTypeOK' /\ KnownInv' /\ OwnerInv' /\ TablesInv'
  <1> USE DEF PInv
  <1> DEFINE found == ContactsOf[on[t]] \cap Reg!Stored # {}
  <1>1. /\ at[t] = "locked"
        /\ duplicate' = [duplicate EXCEPT ![t] = found]
        /\ at' = [at EXCEPT ![t] = "searched"]
        /\ UNCHANGED tables
        /\ UNCHANGED <<status, sent, on, tries, owner, taken, republished, raised, killed>>
    BY DEF SearchContacts, vars, rows, messages, budget
  <1>2. TablesInv' /\ Reg!Stored' = Reg!Stored
        /\ UNCHANGED <<result, persons, requests, announced, listed>>
    BY <1>1, SameTables
  <1>3. found \in BOOLEAN
    OBVIOUS
  <1>4. duplicate' \in [Tasks -> BOOLEAN] /\ duplicate'[t] = found
        /\ \A u \in Tasks \ {t} : duplicate'[u] = duplicate[u]
    <2> HIDE DEF found
    <2> QED
      BY <1>1, <1>3 DEF PTypeOK
  <1>5. PTypeOK'
    BY <1>1, <1>2, <1>4 DEF PTypeOK
  <1>6. KnownInv'
    BY <1>1, <1>2 DEF KnownInv
  <1>7. OwnerInv'
    BY <1>1, <1>2, <1>4 DEF OwnerInv, PTypeOK
  <1> QED
    BY <1>2, <1>5, <1>6, <1>7

-----------------------------------------------------------------------------
(* What a commit writes. *)
LEMMA CommitWrites ==
  ASSUME PInv, NEW t \in Tasks, Commit(t)
  PROVE  /\ on[t] \in Events /\ result[on[t]] = "received" /\ owner = t
         /\ duplicate[t] <=> ContactsOf[on[t]] \cap Reg!Stored # {}
         /\ result'[on[t]] = IF duplicate[t] THEN "review_required" ELSE "processed"
         /\ persons'[on[t]] = persons[on[t]] + Reg!Count(~duplicate[t] /\ on[t] \in Named)
         /\ requests'[on[t]] = requests[on[t]] + Reg!Count(on[t] \in WithMessage)
         /\ announced'[on[t]] = announced[on[t]] + 1
         /\ \A x \in Events \ {on[t]} :
              /\ result'[x] = result[x] /\ persons'[x] = persons[x]
              /\ requests'[x] = requests[x] /\ announced'[x] = announced[x]
         /\ listed' = listed
  BY DEF Commit, Reg!Write, PInv, OwnerInv, PTypeOK

LEMMA CommitKeepsTypes ==
  ASSUME PInv, NEW t \in Tasks, Commit(t)
  PROVE  PTypeOK' /\ KnownInv'
  <1> USE DEF PInv
  <1>1. /\ UNCHANGED <<status, sent, taken, republished, raised, killed>> /\ Finish(t)
        /\ Reg!Write(on[t], duplicate[t])
    BY DEF Commit, vars, rows, messages, budget
  <1>2. on[t] \in Events /\ result[on[t]] = "received"
    BY CommitWrites
  <1>3. \A b \in BOOLEAN : Reg!Count(b) \in Nat
    BY DEF Reg!Count
  <1>4. /\ (~duplicate[t] /\ on[t] \in Named) \in BOOLEAN
        /\ (on[t] \in WithMessage) \in BOOLEAN
    OBVIOUS
  <1>5. /\ Reg!Count(~duplicate[t] /\ on[t] \in Named) \in Nat
        /\ Reg!Count(on[t] \in WithMessage) \in Nat
    BY <1>3, <1>4
  <1>6. persons' \in [Events -> Nat] /\ requests' \in [Events -> Nat]
    <2> DEFINE p == Reg!Count(~duplicate[t] /\ on[t] \in Named)
               q == Reg!Count(on[t] \in WithMessage)
               s == on[t]
    <2>1. /\ persons' = [persons EXCEPT ![s] = persons[s] + p]
          /\ requests' = [requests EXCEPT ![s] = requests[s] + q]
      BY <1>1 DEF Reg!Write
    <2>2. p \in Nat /\ q \in Nat /\ s \in Events
      BY <1>2, <1>5
    <2> HIDE DEF p, q, s
    <2>3. persons \in [Events -> Nat] /\ requests \in [Events -> Nat]
      BY DEF PTypeOK
    <2>4. persons[s] + p \in Nat /\ requests[s] + q \in Nat
      BY <2>2, <2>3
    <2> QED
      BY <2>1, <2>2, <2>3, <2>4
  <1>7. /\ result' \in [Events -> {"none", "received"} \cup Reg!Done]
        /\ announced' \in [Events -> Nat] /\ listed' = listed
    BY <1>1, <1>2 DEF PTypeOK, Reg!Write, Reg!Done
  <1>8. PTypeOK'
    BY <1>1, <1>6, <1>7, FinishKeepsOthers DEF PTypeOK
  <1>9. \A x \in Events : result'[x] = "none" <=> result[x] = "none"
    BY <1>2, CommitWrites
  <1>10. KnownInv'
    BY <1>1, <1>9 DEF KnownInv
  <1> QED
    BY <1>8, <1>10

(* Nobody else is past the lock. *)
LEMMA CommitKeepsOwner ==
  ASSUME PInv, NEW t \in Tasks, Commit(t)
  PROVE  OwnerInv'
  <1> USE DEF PInv
  <1>1. Finish(t)
    BY DEF Commit
  <1>2. \A u \in Tasks \ {t} : at[u] \notin {"locked", "searched"}
    BY CommitWrites DEF OwnerInv
  <1>3. \A x \in Events : result'[x] = "none" <=> result[x] = "none"
    BY CommitWrites
  <1> QED
    BY <1>1, <1>2, <1>3, FinishKeepsOthers DEF OwnerInv

(* The contacts of a new person were not stored; what was stored stays. *)
LEMMA CommitKeepsTables ==
  ASSUME PInv, NEW t \in Tasks, Commit(t)
  PROVE  TablesInv'
  <1> USE DEF PInv
  <1> DEFINE s == on[t]
             p == Reg!Count(~duplicate[t] /\ s \in Named)
             q == Reg!Count(s \in WithMessage)
  <1>1. /\ s \in Events /\ result[s] = "received"
        /\ duplicate[t] <=> ContactsOf[s] \cap Reg!Stored # {}
        /\ result'[s] = IF duplicate[t] THEN "review_required" ELSE "processed"
        /\ persons'[s] = persons[s] + p /\ requests'[s] = requests[s] + q
        /\ announced'[s] = announced[s] + 1
        /\ listed' = listed
    BY CommitWrites
  <1>2. \A x \in Events \ {s} :
          /\ result'[x] = result[x] /\ persons'[x] = persons[x]
          /\ requests'[x] = requests[x] /\ announced'[x] = announced[x]
    BY CommitWrites
  <1>3. persons[s] = 0 /\ requests[s] = 0 /\ announced[s] = 0
    BY <1>1 DEF TablesInv, EffectsOnce, Reg!EffectsOnce, Reg!Done, Reg!Count
  <1>4. EffectsOnce'
    <2>1. /\ announced'[s] = Reg!Count(result'[s] \in Reg!Done)
          /\ requests'[s] = Reg!Count(result'[s] \in Reg!Done /\ s \in WithMessage)
          /\ persons'[s] = Reg!Count(result'[s] = "processed" /\ s \in Named)
      BY <1>1, <1>3 DEF Reg!Done, Reg!Count
    <2>2. \A x \in Events \ {s} :
            /\ announced'[x] = Reg!Count(result'[x] \in Reg!Done)
            /\ requests'[x] = Reg!Count(result'[x] \in Reg!Done /\ x \in WithMessage)
            /\ persons'[x] = Reg!Count(result'[x] = "processed" /\ x \in Named)
      BY <1>2 DEF TablesInv, EffectsOnce, Reg!EffectsOnce
    <2> HIDE DEF s, p, q
    <2> QED
      BY <2>1, <2>2 DEF EffectsOnce, Reg!EffectsOnce, Reg!Count, Reg!Done
  <1>5. persons'[s] > 0 => ContactsOf[s] \cap Reg!Stored = {}
    BY <1>1, <1>3 DEF Reg!Count
  <1>6. \A x \in Events \ {s} : persons'[x] > 0 => ContactsOf[x] \subseteq Reg!Stored
    BY <1>2 DEF Reg!Stored
  <1>7. NoSharedContact'
    <2>1. \A x \in Events \ {s} :
            persons'[x] > 0 /\ persons'[s] > 0 => ContactsOf[x] \cap ContactsOf[s] = {}
      BY <1>5, <1>6
    <2>2. \A x, y \in Events \ {s} :
            x # y /\ persons'[x] > 0 /\ persons'[y] > 0 => ContactsOf[x] \cap ContactsOf[y] = {}
      BY <1>2 DEF TablesInv, NoSharedContact, Reg!NoSharedContact
    <2> HIDE DEF s, p, q
    <2> QED
      BY <2>1, <2>2 DEF NoSharedContact, Reg!NoSharedContact
  <1>8. Reg!Stored \subseteq Reg!Stored'
    <2>1. \A x \in Events : persons[x] > 0 => persons'[x] > 0
      BY <1>2, <1>3
    <2> QED
      BY <1>1, <2>1 DEF Reg!Stored
  <1>9. ReviewJustified'
    <2>1. result'[s] = "review_required" => ContactsOf[s] \cap Reg!Stored # {}
      BY <1>1
    <2>2. \A x \in Events \ {s} :
            result'[x] = "review_required" => ContactsOf[x] \cap Reg!Stored # {}
      BY <1>2 DEF TablesInv, ReviewJustified, Reg!ReviewJustified
    <2> HIDE DEF s, p, q
    <2> QED
      BY <1>8, <2>1, <2>2 DEF ReviewJustified, Reg!ReviewJustified
  <1> QED
    BY <1>4, <1>7, <1>9 DEF TablesInv

-----------------------------------------------------------------------------
LEMMA PInvStep == PInv /\ [PNext]_pvars => PInv'
  <1>1. SUFFICES ASSUME PInv, [PNext]_pvars
                 PROVE  PTypeOK' /\ KnownInv' /\ OwnerInv' /\ TablesInv'
    BY OutboxKeepsTypes DEF PInv
  <1>2. CASE UNCHANGED pvars
    <2>1. /\ UNCHANGED tables /\ UNCHANGED <<status, sent, taken, republished, raised, killed>>
          /\ UNCHANGED <<at, on, tries, duplicate, owner>>
      BY <1>2 DEF pvars, vars, rows, tasks, messages, budget
    <2>2. TablesInv' /\ Reg!Stored' = Reg!Stored
          /\ UNCHANGED <<result, persons, requests, announced, listed>>
      BY <1>1, <2>1, SameTables DEF PInv
    <2> QED
      BY <1>1, <2>1, <2>2 DEF PInv, PTypeOK, KnownInv, OwnerInv
  <1>3. CASE \E s \in Events : Accept(s)
    BY <1>1, <1>3, AcceptKeeps
  <1>4. CASE \E c \in ByHand : RegisterByHand(c)
    BY <1>1, <1>4, RegisterKeeps
  <1>5. CASE OutboxStep
    BY <1>1, <1>5, OutboxKeeps
  <1>6. CASE \E t \in Tasks : Run(t) \/ Raise(t) \/ Kill(t)
    <2>1. PICK t \in Tasks : Run(t) \/ Raise(t) \/ Kill(t)
      BY <1>6
    <2>2. CASE \E s \in Events : Take(t, s) \/ \E r \in 1..MaxRetries : TakeRetry(t, s, r)
      BY <1>1, <2>2, TakeKeeps
    <2>3. CASE AlreadyDone(t) \/ Raise(t) \/ Kill(t)
      BY <1>1, <2>3, EndKeeps
    <2>4. CASE Lock(t)
      BY <1>1, <2>4, LockKeeps
    <2>5. CASE SearchContacts(t)
      BY <1>1, <2>5, SearchKeeps
    <2>6. CASE Commit(t)
      BY <1>1, <2>6, CommitKeepsTypes, CommitKeepsOwner, CommitKeepsTables
    <2> QED
      BY <2>1, <2>2, <2>3, <2>4, <2>5, <2>6 DEF Run
  <1> QED
    BY <1>1, <1>2, <1>3, <1>4, <1>5, <1>6 DEF PNext

LEMMA PipelineInvariant == PSpec => []PInv
  BY PInvInit, PInvStep, PTL DEF PSpec

(* Every variable of the pipeline keeps its type. *)
THEOREM PipelineTypes == PSpec => []PTypeOK
  <1>1. PInv => PTypeOK
    BY DEF PInv
  <1> QED
    BY <1>1, PipelineInvariant, PTL

(* No two persons made from submissions share a contact, whatever tasks    *)
(* overlap, fail, die or are delivered twice: the search locks nothing,    *)
(* but the campaign's row is held from the first query to the commit.      *)
THEOREM ContactsStayApart == PSpec => []NoSharedContact
  <1>1. PInv => NoSharedContact
    BY DEF PInv, TablesInv
  <1> QED
    BY <1>1, PipelineInvariant, PTL

(* A submission's person, request and outcome event are written once and   *)
(* exactly when it is done, however often its message is delivered.        *)
THEOREM EffectsHappenOnce == PSpec => []EffectsOnce
  <1>1. PInv => EffectsOnce
    BY DEF PInv, TablesInv
  <1> QED
    BY <1>1, PipelineInvariant, PTL

(* A submission is sent to review only for a contact that is registered,   *)
(* and never for its own.                                                  *)
THEOREM ReviewsAreJustified == PSpec => []ReviewJustified
  <1>1. PInv => ReviewJustified
    BY DEF PInv, TablesInv
  <1> QED
    BY <1>1, PipelineInvariant, PTL

-----------------------------------------------------------------------------
(* Seen from the tables, a commit processes its submission at once. *)
LEMMA StepRefines == PInv /\ [PNext]_pvars => [Reg!Next]_(Reg!vars)
  <1>1. SUFFICES ASSUME PInv, [PNext]_pvars PROVE Reg!Next \/ UNCHANGED Reg!vars
    OBVIOUS
  <1>2. CASE UNCHANGED tables
    BY <1>2 DEF tables, Reg!vars
  <1>3. CASE \E s \in Events : Accept(s)
    BY <1>3 DEF Accept, Reg!Next
  <1>4. CASE \E c \in ByHand : RegisterByHand(c)
    BY <1>4 DEF RegisterByHand, Reg!Next
  <1>5. CASE \E t \in Tasks : Commit(t)
    <2>1. PICK t \in Tasks : Commit(t)
      BY <1>5
    <2>2. /\ on[t] \in Events /\ result[on[t]] = "received"
          /\ duplicate[t] <=> ContactsOf[on[t]] \cap Reg!Stored # {}
      BY <1>1, <2>1, CommitWrites
    <2>3. duplicate[t] = (ContactsOf[on[t]] \cap Reg!Stored # {})
      BY <1>1, <2>2 DEF PInv, PTypeOK
    <2>4. Reg!Write(on[t], duplicate[t])
      BY <2>1 DEF Commit
    <2>5. Reg!Process(on[t])
      BY <2>2, <2>3, <2>4 DEF Reg!Process
    <2> QED
      BY <2>2, <2>5 DEF Reg!Next
  <1> QED
    BY <1>1, <1>2, <1>3, <1>4, <1>5
    DEF PNext, pvars, OutboxStep, Run, Take, TakeRetry, AlreadyDone, Lock, SearchContacts,
        Raise, Kill

(* The pipeline implements Registry: claims, crashes, lost and repeated    *)
(* messages, retries and overlapping tasks are invisible in the tables,    *)
(* where each submission is processed in one step, at most once.           *)
THEOREM RefinesRegistry == PSpec => ImplementsRegistry
  <1>1. PInit => Reg!Init
    BY DEF PInit
  <1> QED
    BY <1>1, PipelineInvariant, StepRefines, PTL DEF PSpec, ImplementsRegistry, Reg!Spec
=============================================================================
