---------------------------- MODULE OfficeProofs ----------------------------
(***************************************************************************)
(* Proofs about the tasks and about the components around the records: the *)
(* second factor, documents, members, and accounting; and about all areas  *)
(* of the workspace together.                                              *)
(***************************************************************************)
EXTENDS Workspace, ReviewProofs, PurchasingProofs, SequenceTheorems, TLAPS

-----------------------------------------------------------------------------
(* The tasks.  What makes the proof work is the campaign's row: a request   *)
(* that was let in is alone, so what its checks found is still true when    *)
(* it writes, and an edge is added only where the search found no way back. *)

TaskStillAllowed == \A q \in Requests : job[q] # None => TaskAllowed(job[q])

TaskInv == TaskTypeOK /\ Alone /\ TaskStillAllowed /\ NoCycle

(* A dependency that the search allows closes no cycle: among the tasks of *)
(* a cycle that the search from p cannot leave there was one before.       *)
LEMMA EdgeKeepsNoCycle ==
  ASSUME NoCycle, NEW t \in Tasks, NEW p \in Tasks, t \notin Visited(p),
         edges' = edges \cup {<<t, p>>}
  PROVE  NoCycle'
  <1>1. PICK C \in SUBSET Tasks : p \in C /\ Closed(C) /\ t \notin C
    BY DEF Visited
  <1>2. SUFFICES ASSUME NEW S \in SUBSET Tasks, S # {},
                        \A x \in S : \E y \in S : <<x, y>> \in edges'
                 PROVE  FALSE
    BY DEF NoCycle
  <1>3. CASE S \cap C # {}
    <2>1. \A x \in S \cap C : \E y \in S \cap C : <<x, y>> \in edges
      <3>1. SUFFICES ASSUME NEW x \in S \cap C
                     PROVE  \E y \in S \cap C : <<x, y>> \in edges
        OBVIOUS
      <3>2. PICK y \in S : <<x, y>> \in edges'
        BY <1>2
      <3>3. <<x, y>> \in edges
        BY <1>1, <3>1, <3>2
      <3>4. y \in C
        BY <1>1, <3>1, <3>3 DEF Closed
      <3> QED
        BY <3>2, <3>3, <3>4
    <2> QED
      BY <1>3, <2>1 DEF NoCycle
  <1>4. CASE S \cap C = {}
    <2>1. \A x \in S : \E y \in S : <<x, y>> \in edges
      BY <1>1, <1>2, <1>4
    <2> QED
      BY <1>2, <2>1 DEF NoCycle
  <1> QED
    BY <1>3, <1>4

(* Without a dependency there is no cycle, and without a new one none appears. *)
LEMMA SameEdges ==
  ASSUME NoCycle, edges' = edges
  PROVE  NoCycle'
  BY DEF NoCycle

-----------------------------------------------------------------------------
LEMMA TaskInvInit == TaskInit => TaskInv
  BY TaskAssumption
  DEF TaskInit, DeskInit, TaskInv, TaskTypeOK, TaskStates, Alone, TaskStillAllowed, NoCycle

LEMMA TaskEnterKeeps ==
  ASSUME TaskInv, NEW q \in Requests, NEW j \in TaskJobs, TaskEnter(q, j)
  PROVE  TaskInv'
  <1> USE DEF TaskInv, taskRows
  <1>1. /\ \A r \in Requests : job[r] = None
        /\ job' = [job EXCEPT ![q] = j]
        /\ TaskAllowed(j) /\ progress' = progress /\ edges' = edges
    BY DEF TaskEnter, Begin
  <1>2. TaskTypeOK'
    BY <1>1 DEF TaskTypeOK
  <1>3. Alone'
    BY <1>1 DEF Alone, TaskTypeOK
  <1>4. Visited(j.on)' = Visited(j.on)
    BY <1>1 DEF Visited, Closed
  <1>5. \A s \in TaskStates : TaskTarget(j, s)' <=> TaskTarget(j, s)
    BY <1>1 DEF TaskTarget, OpenPredecessors
  <1>6. TaskAllowed(j)'
    BY <1>1, <1>4, <1>5 DEF TaskAllowed
  <1>7. TaskStillAllowed'
    BY <1>1, <1>6 DEF TaskStillAllowed, TaskTypeOK
  <1> QED
    BY <1>1, <1>2, <1>3, <1>7, SameEdges

LEMMA TaskCommitKeeps ==
  ASSUME TaskInv, NEW q \in Requests,
         AddTask(q) \/ AddTaskDependency(q) \/ TaskAction(q) \/ TaskRollback(q)
  PROVE  TaskInv'
  <1> USE DEF TaskInv
  <1>1. End(q)
    BY DEF AddTask, AddTaskDependency, TaskAction, TaskRollback
  <1>2. /\ job' \in [Requests -> TaskJobs \cup {None}]
        /\ \A r \in Requests : job'[r] = None
    BY <1>1, EndLeavesNobody DEF TaskTypeOK
  <1>3. Alone' /\ TaskStillAllowed'
    BY <1>2 DEF Alone, TaskStillAllowed
  <1>4. job[q] \in TaskJobs /\ TaskAllowed(job[q])
    BY <1>1 DEF End, TaskStillAllowed, TaskTypeOK
  <1>5. CASE AddTask(q)
    <2>1. progress' \in [Tasks -> TaskStates] /\ edges' = edges
      BY <1>4, <1>5 DEF AddTask, TaskTypeOK, TaskStates
    <2> QED
      BY <1>2, <1>3, <2>1, SameEdges DEF TaskTypeOK
  <1>6. CASE AddTaskDependency(q)
    <2>1. job[q].action = "depend" /\ job[q].task \in Tasks
      BY <1>4, <1>6 DEF AddTaskDependency, Doing, TaskJobs
    <2>2. job[q].on \in Tasks /\ job[q].task \notin Visited(job[q].on)
      BY <1>4, <2>1 DEF TaskAllowed, TaskJobs, TaskActions
    <2>3. progress' = progress /\ edges' = edges \cup {<<job[q].task, job[q].on>>}
      BY <1>6 DEF AddTaskDependency
    <2>4. TaskTypeOK'
      BY <1>2, <2>1, <2>2, <2>3 DEF TaskTypeOK
    <2>5. NoCycle'
      <3> DEFINE t == job[q].task
                 p == job[q].on
      <3>1. PICK a \in Tasks, b \in Tasks : a = t /\ b = p
        BY <2>1, <2>2
      <3>2. a \notin Visited(b) /\ edges' = edges \cup {<<a, b>>}
        BY <2>2, <2>3, <3>1
      <3> QED
        BY <3>2, EdgeKeepsNoCycle
    <2> QED
      BY <1>3, <2>4, <2>5
  <1>7. CASE TaskAction(q)
    <2>1. progress' \in [Tasks -> TaskStates] /\ edges' = edges
      BY <1>4, <1>7 DEF TaskAction, TaskTypeOK
    <2> QED
      BY <1>2, <1>3, <2>1, SameEdges DEF TaskTypeOK
  <1>8. CASE TaskRollback(q)
    BY <1>2, <1>3, <1>8, SameEdges DEF TaskRollback, TaskTypeOK, taskRows
  <1> QED
    BY <1>5, <1>6, <1>7, <1>8

LEMMA TaskInvStep == TaskInv /\ [TaskNext]_taskVars => TaskInv'
  <1>1. SUFFICES ASSUME TaskInv, [TaskNext]_taskVars PROVE TaskInv'
    OBVIOUS
  <1>2. CASE UNCHANGED taskVars
    BY <1>1, <1>2 DEF TaskInv, taskVars, taskRows, TaskTypeOK, Alone, TaskStillAllowed, NoCycle,
                      TaskAllowed, TaskTarget, OpenPredecessors, Visited, Closed
  <1>3. CASE TaskNext
    BY <1>1, <1>3, TaskEnterKeeps, TaskCommitKeeps DEF TaskNext
  <1> QED
    BY <1>1, <1>2, <1>3

(* What PredecessorsFirst says of one step. *)
StartsInOrder ==
  \A t \in Tasks :
    progress'[t] # progress[t] /\ progress'[t] \in {"in_progress", "completed"}
      => \A p \in Tasks : <<t, p>> \in edges => progress[p] = "completed"

LEMMA TaskStepInOrder == TaskInv /\ [TaskNext]_taskVars => StartsInOrder
  <1>1. SUFFICES ASSUME TaskInv, [TaskNext]_taskVars,
                        NEW t \in Tasks, progress'[t] # progress[t],
                        progress'[t] \in {"in_progress", "completed"},
                        NEW p \in Tasks, <<t, p>> \in edges
                 PROVE  progress[p] = "completed"
    BY DEF StartsInOrder
  <1>2. PICK q \in Requests : AddTask(q) \/ TaskAction(q)
    BY <1>1 DEF TaskNext, TaskEnter, AddTaskDependency, TaskRollback, taskVars, taskRows
  <1>3. job[q] \in TaskJobs /\ TaskAllowed(job[q])
    BY <1>1, <1>2 DEF AddTask, TaskAction, End, TaskInv, TaskStillAllowed, TaskTypeOK
  <1>4. TaskAction(q)
    BY <1>1, <1>2 DEF AddTask, TaskInv, TaskTypeOK
  <1>5. job[q].task = t /\ <<progress[t], job[q].action, progress'[t]>> \in TaskMoves
    BY <1>1, <1>4 DEF TaskAction, TaskInv, TaskTypeOK
  <1>6. job[q].action \in {"start", "complete"}
    BY <1>1, <1>5 DEF TaskMoves
  <1>7. OpenPredecessors(t) = {}
    BY <1>3, <1>5, <1>6 DEF TaskAllowed, TaskTarget, TaskActions
  <1> QED
    BY <1>1, <1>7 DEF OpenPredecessors

-----------------------------------------------------------------------------
(* Every status is one of the workflow's, and dependencies relate tasks of *)
(* the campaign (Task.status, TaskDependency).                             *)
THEOREM TaskTypes == TaskSpec => []TaskTypeOK
  <1>1. TaskInv => TaskTypeOK
    BY DEF TaskInv
  <1> QED
    BY <1>1, TaskInvInit, TaskInvStep, PTL DEF TaskSpec

(* The dependencies never form a cycle, for any number of tasks and of      *)
(* requests (add_task_dependency).                                         *)
THEOREM Acyclic == TaskSpec => []NoCycle
  <1>1. TaskInv => NoCycle
    BY DEF TaskInv
  <1> QED
    BY <1>1, TaskInvInit, TaskInvStep, PTL DEF TaskSpec

(* Nobody starts or completes a task whose predecessors are not completed,  *)
(* whatever the others add and reopen at the time (task_action).           *)
THEOREM InOrder == TaskSpec => PredecessorsFirst
  <1>1. TaskSpec => [][TaskInv /\ StartsInOrder]_taskVars
    BY TaskInvInit, TaskInvStep, TaskStepInOrder, PTL DEF TaskSpec
  <1> QED
    BY <1>1, PTL DEF PredecessorsFirst, StartsInOrder

-----------------------------------------------------------------------------
(* The second factor.  A good code is still unused when it is remembered,  *)
(* although the period may have changed in between.                        *)
Unused(c) == IF c \in 1..MaxPeriod THEN c > last ELSE enabled /\ c \in recovery

FactorAllowed(j) ==
  /\ j.action = "verify" => (j.good => Unused(j.code))
  /\ j.action = "finish" => j.first = ~enabled

FactorStillAllowed == \A q \in Requests : job[q] # None => FactorAllowed(job[q])

(* No later code was accepted than the last one, and no recovery code was  *)
(* before there were any.                                                  *)
UsedInOrder ==
  /\ \A c \in 1..MaxPeriod : c > last => accepted[c] = 0
  /\ ~enabled => \A c \in RecoveryCodes : accepted[c] = 0

FactorInv == FactorTypeOK /\ Alone /\ FactorStillAllowed /\ UsedInOrder /\ CodeOnce

LEMMA FactorInvInit == FactorInit => FactorInv
  <1>1. SUFFICES ASSUME FactorInit PROVE FactorInv
    OBVIOUS
  <1>2. /\ period \in 2..MaxPeriod /\ last \in 0..MaxPeriod
        /\ failures \in 0..(MaxFailures - 1)
    BY <1>1, FactorAssumption DEF FactorInit
  <1>3. FactorTypeOK
    BY <1>1, <1>2 DEF FactorInit, DeskInit, FactorTypeOK
  <1>4. Alone /\ FactorStillAllowed
    BY <1>1 DEF FactorInit, DeskInit, Alone, FactorStillAllowed
  <1>5. UsedInOrder /\ CodeOnce
    BY <1>1 DEF FactorInit, UsedInOrder, CodeOnce, Codes
  <1> QED
    BY <1>3, <1>4, <1>5 DEF FactorInv

LEMMA FactorEnterKeeps ==
  ASSUME FactorInv, NEW q \in Requests,
         (\E c \in Codes : EnterCode(q, c)) \/ ContinuePage(q)
  PROVE  FactorInv'
  <1> USE DEF FactorInv
  <1>1. UNCHANGED factorRows
    BY DEF EnterCode, ContinuePage
  <1>2. PICK j \in FactorJobs : Begin(q, j) /\ FactorAllowed(j)
    <2>1. CASE \E c \in Codes : EnterCode(q, c)
      <3>1. PICK c \in Codes : EnterCode(q, c)
        BY <2>1
      <3>2. Good(c) \in BOOLEAN /\ (Good(c) => Unused(c))
        BY DEF Good, Unused, FactorTypeOK
      <3>3. [action |-> "verify", code |-> c, good |-> Good(c)] \in FactorJobs
        BY <3>2 DEF FactorJobs
      <3> QED
        BY <3>1, <3>2, <3>3 DEF EnterCode, FactorAllowed
    <2>2. CASE ContinuePage(q)
      <3>1. [action |-> "finish", first |-> ~enabled] \in FactorJobs
        BY DEF FactorJobs
      <3> QED
        BY <2>2, <3>1 DEF ContinuePage, FactorAllowed
    <2> QED
      BY <2>1, <2>2
  <1>3. /\ job' \in [Requests -> FactorJobs \cup {None}]
        /\ \A r \in Requests : job'[r] \in {j, None}
        /\ Alone'
    BY <1>2, BeginsAlone DEF FactorTypeOK
  <1>4. FactorAllowed(j)'
    BY <1>1, <1>2 DEF FactorAllowed, Unused, factorRows
  <1>5. FactorStillAllowed'
    BY <1>3, <1>4 DEF FactorStillAllowed
  <1>6. FactorTypeOK' /\ UsedInOrder' /\ CodeOnce'
    BY <1>1, <1>3 DEF FactorTypeOK, UsedInOrder, CodeOnce, factorRows
  <1> QED
    BY <1>3, <1>5, <1>6

LEMMA VerifyKeeps ==
  ASSUME FactorInv, NEW q \in Requests, Verify(q)
  PROVE  FactorInv'
  <1> USE DEF FactorInv
  <1>1. /\ job[q] \in FactorJobs /\ FactorAllowed(job[q])
        /\ job' \in [Requests -> FactorJobs \cup {None}]
        /\ \A r \in Requests : job'[r] = None
        /\ Alone' /\ FactorStillAllowed'
    BY EndLeavesNobody DEF Verify, End, FactorTypeOK, FactorStillAllowed
  <1>2. PICK c \in Codes : c = job[q].code /\ job[q].action = "verify"
    BY <1>1 DEF Verify, Doing, FactorJobs
  <1>3. UNCHANGED <<period, enabled, shown>>
    BY DEF Verify
  <1>4. CASE job[q].good
    <2>1. Unused(c)
      BY <1>1, <1>2, <1>4 DEF FactorAllowed
    <2>2. /\ last' = IF c \in 1..MaxPeriod THEN c ELSE last
          /\ recovery' = recovery \ {c} /\ failures' = 0 /\ frozen' = FALSE
          /\ verified' = verified \cup {q}
          /\ accepted' = [accepted EXCEPT ![c] = @ + 1]
      BY <1>2, <1>4 DEF Verify
    <2>3. accepted[c] = 0 /\ accepted' = [accepted EXCEPT ![c] = 1]
      <3>1. accepted[c] = 0
        BY <2>1 DEF Unused, UsedInOrder, CodeOnce
      <3> QED
        BY <2>2, <3>1 DEF FactorTypeOK
    <2>4. FactorTypeOK'
      <3>1. last' \in 0..MaxPeriod
        BY <2>2, FactorAssumption DEF FactorTypeOK
      <3>2. 0 \in 0..(MaxFailures - 1)
        BY FactorAssumption
      <3>3. accepted' \in [Codes -> Nat]
        BY <2>3 DEF FactorTypeOK
      <3>4. recovery' \subseteq RecoveryCodes /\ verified' \subseteq Requests
        BY <2>2 DEF FactorTypeOK
      <3> QED
        BY <1>1, <1>3, <2>2, <3>1, <3>2, <3>3, <3>4 DEF FactorTypeOK
    <2>5. c # None
      BY <2>1, FactorJobAssumption DEF Unused, FactorTypeOK
    <2>6. UsedInOrder'
      <3>1. CASE c \in 1..MaxPeriod
        BY <1>3, <2>1, <2>2, <2>3, <3>1, FactorAssumption
        DEF UsedInOrder, Unused, FactorTypeOK, Codes
      <3>2. CASE c \notin 1..MaxPeriod
        BY <1>3, <2>1, <2>2, <2>3, <3>2 DEF UsedInOrder, Unused, FactorTypeOK, Codes
      <3> QED
        BY <3>1, <3>2
    <2>7. CodeOnce'
      <3>1. /\ accepted'[c] = 1
            /\ \A d \in Codes : d # c => accepted'[d] = accepted[d]
        BY <2>3 DEF FactorTypeOK
      <3>2. \A d \in Codes : accepted[d] <= 1
        BY DEF CodeOnce
      <3>3. \A d \in Codes : accepted'[d] <= 1
        BY <3>1, <3>2
      <3>4. accepted'[None] = 0
        BY <2>5, <3>1 DEF CodeOnce, Codes
      <3>5. shown' = IF enabled' THEN 1 ELSE 0
        BY <1>3 DEF CodeOnce
      <3>6. recovery = IF enabled THEN {d \in RecoveryCodes : accepted[d] = 0} ELSE {}
        BY DEF CodeOnce
      <3>7. recovery' = IF enabled THEN {d \in RecoveryCodes : accepted'[d] = 0} ELSE {}
        <4>1. RecoveryCodes \subseteq Codes
          BY DEF Codes
        <4>2. \A d \in RecoveryCodes : accepted'[d] = 0 <=> accepted[d] = 0 /\ d # c
          BY <3>1, <4>1
        <4>3. CASE enabled
          <5>1. recovery = {d \in RecoveryCodes : accepted[d] = 0} /\ recovery' = recovery \ {c}
            BY <2>2, <3>6, <4>3
          <5>2. recovery' = {d \in RecoveryCodes : accepted'[d] = 0}
            BY <4>2, <5>1
          <5> QED
            BY <4>3, <5>2
        <4>4. CASE ~enabled
          BY <2>2, <3>6, <4>4
        <4> QED
          BY <4>3, <4>4
      <3> QED
        BY <1>3, <3>3, <3>4, <3>5, <3>7 DEF CodeOnce
    <2> QED
      BY <1>1, <2>4, <2>6, <2>7
  <1>5. CASE ~job[q].good
    <2>1. /\ UNCHANGED <<last, recovery, verified, accepted>>
          /\ failures' = (IF failures + 1 = MaxFailures THEN 0 ELSE failures + 1)
          /\ frozen' \in BOOLEAN
      BY <1>5 DEF Verify
    <2>2. failures' \in 0..(MaxFailures - 1)
      BY <2>1, FactorAssumption DEF FactorTypeOK
    <2> QED
      BY <1>1, <1>3, <2>1, <2>2 DEF FactorTypeOK, UsedInOrder, CodeOnce
  <1> QED
    BY <1>4, <1>5

LEMMA FinishKeeps ==
  ASSUME FactorInv, NEW q \in Requests, FinishPage(q)
  PROVE  FactorInv'
  <1> USE DEF FactorInv
  <1>1. /\ job[q] \in FactorJobs /\ FactorAllowed(job[q])
        /\ job' \in [Requests -> FactorJobs \cup {None}]
        /\ \A r \in Requests : job'[r] = None
        /\ Alone' /\ FactorStillAllowed'
    BY EndLeavesNobody DEF FinishPage, End, FactorTypeOK, FactorStillAllowed
  <1>2. job[q].first = ~enabled
    BY <1>1 DEF FinishPage, Doing, FactorAllowed
  <1>3. /\ enabled' = TRUE /\ verified' = verified \ {q}
        /\ UNCHANGED <<period, last, failures, frozen, accepted>>
        /\ IF enabled THEN UNCHANGED <<recovery, shown>>
           ELSE recovery' = RecoveryCodes /\ shown' = shown + 1
    BY <1>2 DEF FinishPage, FactorTypeOK
  <1>4. CASE enabled
    BY <1>1, <1>3, <1>4 DEF FactorTypeOK, UsedInOrder, CodeOnce
  <1>5. CASE ~enabled
    <2>1. recovery' = {c \in RecoveryCodes : accepted'[c] = 0}
      BY <1>3, <1>5 DEF UsedInOrder
    <2>2. shown' = 1
      BY <1>3, <1>5 DEF CodeOnce
    <2> QED
      BY <1>1, <1>3, <1>5, <2>1, <2>2 DEF FactorTypeOK, UsedInOrder, CodeOnce
  <1> QED
    BY <1>4, <1>5 DEF FactorTypeOK

(* Time passes, or a page is given up. *)
LEMMA ClockKeeps ==
  ASSUME FactorInv, NextPeriod \/ Thaw \/ \E q \in Requests : FactorRollback(q)
  PROVE  FactorInv'
  <1> USE DEF FactorInv
  <1>1. UNCHANGED <<last, enabled, recovery, failures, accepted, shown>>
    BY DEF NextPeriod, Thaw, FactorRollback
  <1>2. UsedInOrder' /\ CodeOnce'
    BY <1>1 DEF UsedInOrder, CodeOnce
  <1>3. CASE NextPeriod
    <2>1. period' \in 2..MaxPeriod
      BY <1>3, FactorAssumption DEF NextPeriod, FactorTypeOK
    <2>2. UNCHANGED <<failures, frozen, verified, job>>
      BY <1>3 DEF NextPeriod
    <2>3. FactorTypeOK' /\ Alone'
      BY <1>1, <2>1, <2>2 DEF FactorTypeOK, Alone
    <2>4. FactorStillAllowed'
      BY <1>1, <2>2 DEF FactorStillAllowed, FactorAllowed, Unused
    <2> QED
      BY <1>2, <2>3, <2>4
  <1>4. CASE Thaw
    <2>1. frozen' = FALSE /\ UNCHANGED <<period, failures, verified, job>>
      BY <1>4 DEF Thaw
    <2>2. FactorTypeOK' /\ Alone'
      BY <1>1, <2>1 DEF FactorTypeOK, Alone
    <2>3. FactorStillAllowed'
      BY <1>1, <2>1 DEF FactorStillAllowed, FactorAllowed, Unused
    <2> QED
      BY <1>2, <2>2, <2>3
  <1>5. CASE \E q \in Requests : FactorRollback(q)
    <2>1. PICK q \in Requests : FactorRollback(q)
      BY <1>5
    <2>2. /\ job' \in [Requests -> FactorJobs \cup {None}]
          /\ \A r \in Requests : job'[r] = None
          /\ Alone' /\ FactorStillAllowed'
      BY <2>1, EndLeavesNobody DEF FactorRollback, FactorTypeOK, FactorStillAllowed
    <2> QED
      BY <1>1, <1>2, <2>1, <2>2 DEF FactorRollback, FactorTypeOK
  <1> QED
    BY <1>3, <1>4, <1>5

LEMMA FactorInvStep == FactorInv /\ [FactorNext]_factorVars => FactorInv'
  <1>1. SUFFICES ASSUME FactorInv, [FactorNext]_factorVars PROVE FactorInv'
    OBVIOUS
  <1>2. CASE UNCHANGED factorVars
    BY <1>1, <1>2 DEF FactorInv, factorVars, factorRows, FactorTypeOK, Alone, FactorStillAllowed,
                      FactorAllowed, Unused, UsedInOrder, CodeOnce
  <1>3. CASE FactorNext
    BY <1>1, <1>3, FactorEnterKeeps, VerifyKeeps, FinishKeeps, ClockKeeps DEF FactorNext
  <1> QED
    BY <1>1, <1>2, <1>3

(* No code is accepted twice and recovery codes are shown once, for any     *)
(* number of requests, periods and codes (verify_second_factor).           *)
THEOREM CodesOnce == FactorSpec => []CodeOnce
  <1>1. FactorInv => CodeOnce
    BY DEF FactorInv
  <1> QED
    BY <1>1, FactorInvInit, FactorInvStep, PTL DEF FactorSpec

-----------------------------------------------------------------------------
(* Documents.  An upload is of a document without a row, and a scan that   *)
(* runs is the only one of a document that is not available.               *)
UploadsAreNew ==
  \A q \in Requests : job[q] # None =>
    /\ doc[job[q].object] = "absent"
    /\ job[q].action = "store" => job[q].object \in file

ScansAlone ==
  \A q \in Requests : rescan[q] # None =>
    /\ doc[rescan[q].object] \in {"quarantined", "rejected"}
    /\ \A r \in Requests :
         rescan[r] # None /\ rescan[r].object = rescan[q].object => r = q

RowsHaveFiles ==
  \A d \in Docs : /\ doc[d] # "absent" => d \in file
                  /\ doc[d] = "available" => scan[d] = "clean"

DocInv == DocTypeOK /\ Alone /\ UploadsAreNew /\ ScansAlone /\ RowsHaveFiles

(* What AvailableForGood says of one step. *)
DocsKept ==
  \A d \in Docs :
    /\ doc[d] = "available" => doc'[d] = "available"
    /\ doc'[d] = "available" => scan'[d] = "clean"
    /\ doc'[d] # "absent" => d \in file'

LEMMA DocInvInit == DocInit => DocInv
  BY DocAssumption DEF DocInit, DeskInit, DocInv, DocTypeOK, Alone, UploadsAreNew, ScansAlone,
                       RowsHaveFiles, Verdicts

LEMMA UploadKeeps ==
  ASSUME DocInv, NEW q \in Requests,
         \/ \E d \in Docs : BeginUpload(q, d)
         \/ StoreFile(q) \/ CommitUpload(q) \/ UploadFails(q) \/ CommitFails(q)
  PROVE  DocInv' /\ DocsKept
  <1> USE DEF DocInv
  <1>1. rescan' = rescan
    BY DEF BeginUpload, StoreFile, CommitUpload, UploadFails, CommitFails
  <1>2. CASE \E d \in Docs : BeginUpload(q, d)
    <2>1. PICK d \in Docs : BeginUpload(q, d)
      BY <1>2
    <2>2. PICK j \in DocJobs : j = [action |-> "upload", object |-> d]
      BY DEF DocJobs
    <2>3. /\ job' \in [Requests -> DocJobs \cup {None}]
          /\ \A r \in Requests : job'[r] \in {j, None}
          /\ Alone'
      BY <2>1, <2>2, BeginsAlone DEF BeginUpload, DocTypeOK
    <2>4. UNCHANGED <<doc, scan, file>> /\ doc[d] = "absent"
      BY <2>1 DEF BeginUpload, docRows
    <2>5. j.object = d /\ j.action = "upload"
      BY <2>2
    <2>6. UploadsAreNew'
      BY <2>3, <2>4, <2>5 DEF UploadsAreNew
    <2> QED
      BY <1>1, <2>3, <2>4, <2>6 DEF DocTypeOK, ScansAlone, RowsHaveFiles, DocsKept
  <1>3. CASE StoreFile(q)
    <2>1. PICK v \in Verdicts :
            job' = [job EXCEPT ![q] = [action |-> "store", object |-> job[q].object, verdict |-> v]]
      BY <1>3 DEF StoreFile
    <2>2. job[q] # None /\ job[q] \in DocJobs /\ job[q].object \in Docs
      BY <1>3 DEF StoreFile, Doing, DocTypeOK, DocJobs
    <2>3. PICK j \in DocJobs :
            j = [action |-> "store", object |-> job[q].object, verdict |-> v]
      BY <2>2 DEF DocJobs
    <2>4. job' = [job EXCEPT ![q] = j] /\ j.object = job[q].object
      BY <2>1, <2>3
    <2>5. file' = file \cup {job[q].object} /\ UNCHANGED <<doc, scan>>
      BY <1>3 DEF StoreFile
    <2>6. DocTypeOK' /\ Alone'
      BY <1>1, <2>2, <2>4, <2>5 DEF DocTypeOK, Alone
    <2>7. UploadsAreNew'
      <3>1. \A r \in Requests : job'[r] # None => r = q /\ job'[r] = j
        BY <2>2, <2>4 DEF Alone, DocTypeOK
      <3> QED
        BY <2>2, <2>4, <2>5, <3>1 DEF UploadsAreNew
    <2> QED
      BY <1>1, <2>5, <2>6, <2>7 DEF ScansAlone, RowsHaveFiles, DocsKept
  <1>4. CASE CommitUpload(q) \/ UploadFails(q) \/ CommitFails(q)
    <2>1. /\ job[q] \in DocJobs
          /\ job' \in [Requests -> DocJobs \cup {None}]
          /\ \A r \in Requests : job'[r] = None
          /\ Alone'
      BY <1>4, EndLeavesNobody DEF CommitUpload, UploadFails, CommitFails, DocTypeOK
    <2>2. UploadsAreNew'
      BY <2>1 DEF UploadsAreNew
    <2>3. PICK d \in Docs : d = job[q].object
      BY <2>1 DEF DocJobs
    <2>4. doc[d] = "absent"
      BY <1>4, <2>3 DEF CommitUpload, UploadFails, CommitFails, End, UploadsAreNew
    <2>5. CASE CommitUpload(q)
      <3>1. PICK v \in Verdicts : v = job[q].verdict
        BY <2>1, <2>5 DEF CommitUpload, Doing, DocJobs
      <3>2. /\ doc' = [doc EXCEPT ![d] = StatusAfter(v)] /\ scan' = [scan EXCEPT ![d] = v]
            /\ file' = file /\ d \in file
        BY <2>3, <2>5, <3>1 DEF CommitUpload, Doing, UploadsAreNew
      <3>3. /\ StatusAfter(v) \in {"available", "rejected", "quarantined"}
            /\ StatusAfter(v) = "available" => v = "clean"
        BY DEF StatusAfter
      <3>4. DocTypeOK'
        BY <1>1, <2>1, <3>2, <3>3 DEF DocTypeOK
      <3>5. ScansAlone'
        BY <1>1, <2>4, <3>2 DEF ScansAlone, DocTypeOK
      <3>6. RowsHaveFiles' /\ DocsKept
        BY <2>4, <3>2, <3>3 DEF RowsHaveFiles, DocsKept, DocTypeOK
      <3> QED
        BY <2>1, <2>2, <3>4, <3>5, <3>6
    <2>6. CASE UploadFails(q) \/ CommitFails(q)
      <3>1. UNCHANGED <<doc, scan>> /\ file' \in {file, file \ {d}}
        BY <2>3, <2>6 DEF UploadFails, CommitFails, docRows
      <3> QED
        BY <1>1, <2>1, <2>2, <2>4, <3>1 DEF DocTypeOK, ScansAlone, RowsHaveFiles, DocsKept
    <2> QED
      BY <1>4, <2>5, <2>6
  <1> QED
    BY <1>2, <1>3, <1>4

LEMMA RescanKeeps ==
  ASSUME DocInv, NEW q \in Requests,
         (\E d \in Docs : BeginRescan(q, d)) \/ CommitRescan(q) \/ RescanFails(q)
  PROVE  DocInv' /\ DocsKept
  <1> USE DEF DocInv
  <1>1. job' = job /\ file' = file
    BY DEF BeginRescan, CommitRescan, RescanFails, docRows
  <1>2. Alone'
    BY <1>1 DEF Alone
  <1>3. CASE \E d \in Docs : BeginRescan(q, d)
    <2>1. PICK d \in Docs, v \in Verdicts :
            /\ Rescannable(d) /\ rescan' = [rescan EXCEPT ![q] = [object |-> d, verdict |-> v]]
            /\ UNCHANGED <<doc, scan>>
      BY <1>3 DEF BeginRescan, docRows
    <2>2. PICK s \in Scans : s = [object |-> d, verdict |-> v]
      BY DEF Scans
    <2>3. /\ rescan' = [rescan EXCEPT ![q] = s] /\ s.object = d
          /\ doc[d] \in {"quarantined", "rejected"}
          /\ \A r \in Requests : rescan[r] # None => rescan[r].object # d
      BY <2>1, <2>2 DEF Rescannable
    <2>4. DocTypeOK' /\ ScansAlone'
      BY <1>1, <2>1, <2>3 DEF DocTypeOK, ScansAlone
    <2> QED
      BY <1>1, <1>2, <2>1, <2>4 DEF UploadsAreNew, RowsHaveFiles, DocsKept
  <1>4. CASE CommitRescan(q)
    <2>1. PICK d \in Docs, v \in Verdicts :
            rescan[q] # None /\ d = rescan[q].object /\ v = rescan[q].verdict
      BY <1>4 DEF CommitRescan, DocTypeOK, Scans
    <2>2. /\ doc' = [doc EXCEPT ![d] = StatusAfter(v)] /\ scan' = [scan EXCEPT ![d] = v]
          /\ rescan' = [rescan EXCEPT ![q] = None]
      BY <1>4, <2>1 DEF CommitRescan
    <2>3. /\ doc[d] \in {"quarantined", "rejected"}
          /\ \A r \in Requests : r # q /\ rescan[r] # None => rescan[r].object # d
      BY <2>1 DEF ScansAlone
    <2>4. /\ StatusAfter(v) \in {"available", "rejected", "quarantined"}
          /\ StatusAfter(v) = "available" => v = "clean"
      BY DEF StatusAfter
    <2>5. DocTypeOK'
      BY <1>1, <2>2, <2>4 DEF DocTypeOK
    <2>6. ScansAlone'
      BY <2>2, <2>3 DEF ScansAlone, DocTypeOK
    <2>7. UploadsAreNew'
      BY <1>1, <2>2, <2>3 DEF UploadsAreNew, DocTypeOK
    <2>8. RowsHaveFiles' /\ DocsKept
      BY <1>1, <2>2, <2>3, <2>4 DEF RowsHaveFiles, DocsKept, DocTypeOK
    <2> QED
      BY <1>2, <2>5, <2>6, <2>7, <2>8
  <1>5. CASE RescanFails(q)
    <2>1. UNCHANGED <<doc, scan>> /\ rescan' = [rescan EXCEPT ![q] = None]
      BY <1>5 DEF RescanFails, docRows
    <2> QED
      BY <1>1, <1>2, <2>1 DEF DocTypeOK, UploadsAreNew, ScansAlone, RowsHaveFiles, DocsKept
  <1> QED
    BY <1>3, <1>4, <1>5

LEMMA DocInvStep == DocInv /\ [DocNext]_docVars => DocInv' /\ DocsKept
  <1>1. SUFFICES ASSUME DocInv, [DocNext]_docVars PROVE DocInv' /\ DocsKept
    OBVIOUS
  <1>2. CASE UNCHANGED docVars
    BY <1>1, <1>2 DEF DocInv, docVars, docRows, DocTypeOK, Alone, UploadsAreNew, ScansAlone,
                      RowsHaveFiles, DocsKept
  <1>3. CASE DocNext
    BY <1>1, <1>3, UploadKeeps, RescanKeeps DEF DocNext
  <1> QED
    BY <1>1, <1>2, <1>3

(* An available document stays so, clean and with its file, for any number  *)
(* of documents, uploads and scans (upload_document, rescan_document).     *)
THEOREM AvailableStays == DocSpec => AvailableForGood
  <1>1. DocSpec => [][DocInv /\ DocsKept]_docVars
    BY DocInvInit, DocInvStep, PTL DEF DocSpec
  <1> QED
    BY <1>1, PTL DEF AvailableForGood, DocsKept

-----------------------------------------------------------------------------
(* Accounting.  Payments and their reconciliations are reversed together,  *)
(* so that what a snapshot read of the one still holds when it reads the   *)
(* other: whoever could have changed them waits for the campaign's row.    *)
AccountStillAllowed == \A q \in Requests : job[q] # None => AccountAllowed(job[q])

ReversedTogether ==
  /\ undoneOf = reversed
  /\ \A q \in Requests :
       job[q] # None => (job[q].action = "snapshot" => seen[q] = reversed)

AccountInv ==
  AccountTypeOK /\ Alone /\ AccountStillAllowed /\ ReversedTogether
    /\ OneApprovedBudget /\ ManifestOfOneMoment

LEMMA AccountInvInit == AccountInit => AccountInv
  <1>1. SUFFICES ASSUME AccountInit PROVE AccountInv
    OBVIOUS
  <1>2. 0 \in 0..MaxLines
    BY AccountingAssumption
  <1>3. AccountTypeOK
    BY <1>1, <1>2 DEF AccountInit, DeskInit, AccountTypeOK, BudgetStates, BatchStates
  <1>4. Alone /\ AccountStillAllowed /\ ReversedTogether
    BY <1>1 DEF AccountInit, DeskInit, Alone, AccountStillAllowed, ReversedTogether
  <1>5. OneApprovedBudget /\ ManifestOfOneMoment
    BY <1>1 DEF AccountInit, OneApprovedBudget, ManifestOfOneMoment
  <1> QED
    BY <1>3, <1>4, <1>5 DEF AccountInv

LEMMA AccountEnterKeeps ==
  ASSUME AccountInv, NEW q \in Requests, NEW j \in AccountJobs, AccountEnter(q, j)
  PROVE  AccountInv'
  <1> USE DEF AccountInv
  <1>1. /\ Begin(q, j) /\ AccountAllowed(j) /\ UNCHANGED accountRows
        /\ seen' = [seen EXCEPT ![q] = IF j.action = "snapshot" THEN reversed ELSE None]
    BY DEF AccountEnter
  <1>2. /\ job' \in [Requests -> AccountJobs \cup {None}]
        /\ \A r \in Requests : job'[r] \in {j, None}
        /\ Alone'
    BY <1>1, BeginsAlone DEF AccountTypeOK
  <1>3. \A r \in Requests : job'[r] # None => r = q /\ job'[r] = j
    BY <1>1, <1>2, AccountJobAssumption DEF Begin, AccountTypeOK
  <1>4. AccountAllowed(j)'
    BY <1>1 DEF AccountAllowed, accountRows
  <1>5. AccountStillAllowed'
    BY <1>2, <1>4 DEF AccountStillAllowed
  <1>6. seen' \in [Requests -> (SUBSET Paid) \cup {None}]
    BY <1>1 DEF AccountTypeOK
  <1>7. AccountTypeOK'
    BY <1>1, <1>2, <1>6 DEF AccountTypeOK, accountRows
  <1>8. ReversedTogether'
    BY <1>1, <1>3 DEF ReversedTogether, AccountTypeOK, accountRows
  <1>9. OneApprovedBudget' /\ ManifestOfOneMoment'
    BY <1>1 DEF OneApprovedBudget, ManifestOfOneMoment, accountRows
  <1> QED
    BY <1>2, <1>5, <1>7, <1>8, <1>9

(* Every transaction that ends leaves nobody let in. *)
LEMMA AccountEnds ==
  ASSUME AccountInv, NEW q \in Requests, End(q)
  PROVE  /\ job[q] \in AccountJobs /\ AccountAllowed(job[q])
         /\ job' \in [Requests -> AccountJobs \cup {None}]
         /\ \A r \in Requests : job'[r] = None
         /\ Alone' /\ AccountStillAllowed'
  BY EndLeavesNobody DEF AccountInv, AccountTypeOK, AccountStillAllowed, End

LEMMA BudgetActionKeeps ==
  ASSUME AccountInv, NEW q \in Requests, BudgetAction(q)
  PROVE  AccountInv'
  <1> USE DEF AccountInv
  <1>1. /\ job[q] \in AccountJobs /\ AccountAllowed(job[q])
        /\ job' \in [Requests -> AccountJobs \cup {None}]
        /\ \A r \in Requests : job'[r] = None
        /\ Alone' /\ AccountStillAllowed'
    BY AccountEnds DEF BudgetAction
  <1>2. UNCHANGED <<batch, manifest, filings, reversed, undoneOf, seen>>
    BY DEF BudgetAction
  <1>3. ReversedTogether' /\ ManifestOfOneMoment'
    BY <1>1, <1>2 DEF ReversedTogether, ManifestOfOneMoment
  <1>4. PICK b \in Budgets : b = job[q].object
    BY <1>1, AccountingAssumption DEF BudgetAction, Doing, AccountJobs
  <1>5. lines[b] \in 0..MaxLines /\ lines[b] \in Nat /\ lines[b] + 1 \in Nat
    BY AccountingAssumption DEF AccountTypeOK
  <1>6. CASE job[q].action \in {"create", "add_line"}
    <2>1. /\ budget' = [budget EXCEPT ![b] = "draft"] /\ passed' = passed
          /\ budget[b] \in {"absent", "draft"}
      BY <1>1, <1>4, <1>6 DEF BudgetAction, AccountAllowed
    <2>2. lines' = lines \/ (lines[b] < MaxLines /\ lines' = [lines EXCEPT ![b] = lines[b] + 1])
      BY <1>1, <1>4, <1>6 DEF BudgetAction, AccountAllowed
    <2>3. lines' \in [Budgets -> 0..MaxLines]
      <3>1. CASE lines' = lines
        BY <3>1 DEF AccountTypeOK
      <3>2. CASE lines[b] < MaxLines /\ lines' = [lines EXCEPT ![b] = lines[b] + 1]
        <4>1. lines[b] + 1 \in 0..MaxLines
          BY <1>5, <3>2, AccountingAssumption
        <4> QED
          BY <3>2, <4>1 DEF AccountTypeOK
      <3> QED
        BY <2>2, <3>1, <3>2
    <2>4. AccountTypeOK'
      BY <1>1, <1>2, <2>1, <2>3 DEF AccountTypeOK, BudgetStates
    <2>5. /\ \A x \in Budgets : x # b => budget'[x] = budget[x] /\ lines'[x] = lines[x]
          /\ budget'[b] = "draft" /\ passed'[b] = 0
      BY <2>1, <2>2 DEF AccountTypeOK, OneApprovedBudget
    <2>6. OneApprovedBudget'
      BY <2>1, <2>5 DEF OneApprovedBudget
    <2> QED
      BY <1>1, <1>3, <2>4, <2>6
  <1>7. CASE job[q].action = "approve"
    <2>1. /\ budget' = ApprovedInstead(b) /\ lines' = lines
          /\ passed' = [passed EXCEPT ![b] = lines[b]]
          /\ budget[b] = "draft" /\ lines[b] > 0
      BY <1>1, <1>4, <1>7 DEF BudgetAction, AccountAllowed
    <2>2. /\ budget'[b] = "approved" /\ passed'[b] = lines[b]
          /\ \A x \in Budgets : x # b =>
               /\ budget'[x] = IF budget[x] = "approved" THEN "superseded" ELSE budget[x]
               /\ passed'[x] = passed[x]
      BY <2>1 DEF ApprovedInstead, AccountTypeOK
    <2>3. budget' \in [Budgets -> BudgetStates]
      BY <2>1 DEF ApprovedInstead, AccountTypeOK, BudgetStates
    <2>4. AccountTypeOK'
      BY <1>1, <1>2, <1>5, <2>1, <2>3 DEF AccountTypeOK
    <2>5. \A x \in Budgets : budget'[x] = "approved" => x = b
      BY <2>2
    <2>6. \A x \in Budgets :
            IF budget'[x] \in {"approved", "superseded"}
            THEN lines'[x] > 0 /\ passed'[x] = lines'[x] ELSE passed'[x] = 0
      BY <2>1, <2>2 DEF OneApprovedBudget
    <2> QED
      BY <1>1, <1>3, <2>4, <2>5, <2>6 DEF OneApprovedBudget
  <1> QED
    BY <1>6, <1>7 DEF BudgetAction, Doing

LEMMA SnapshotKeeps ==
  ASSUME AccountInv, NEW q \in Requests, Snapshot(q)
  PROVE  AccountInv'
  <1> USE DEF AccountInv
  <1>1. /\ job[q] \in AccountJobs /\ AccountAllowed(job[q])
        /\ job' \in [Requests -> AccountJobs \cup {None}]
        /\ \A r \in Requests : job'[r] = None
        /\ Alone' /\ AccountStillAllowed'
    BY AccountEnds DEF Snapshot
  <1>2. job[q].action = "snapshot" /\ job[q] # None
    BY DEF Snapshot, Doing
  <1>3. PICK b \in Batches : b = job[q].object
    BY <1>1, <1>2, AccountingAssumption DEF AccountJobs
  <1>4. /\ batch' = [batch EXCEPT ![b] = "building"]
        /\ manifest' = [manifest EXCEPT ![b] = <<seen[q], undoneOf>>]
        /\ UNCHANGED <<budget, lines, passed, filings, reversed, undoneOf, seen>>
        /\ batch[b] = "absent"
    BY <1>1, <1>2, <1>3 DEF Snapshot, AccountAllowed
  <1>5. seen[q] = reversed /\ undoneOf = reversed /\ reversed \subseteq Paid
    BY <1>2 DEF ReversedTogether, AccountTypeOK
  <1>6. <<seen[q], undoneOf>> \in (SUBSET Paid) \X (SUBSET Paid)
    BY <1>5
  <1>7. AccountTypeOK'
    BY <1>1, <1>4, <1>6 DEF AccountTypeOK, BatchStates
  <1>8. ReversedTogether' /\ OneApprovedBudget'
    BY <1>1, <1>4 DEF ReversedTogether, OneApprovedBudget
  <1>9. ManifestOfOneMoment'
    BY <1>4, <1>5 DEF ManifestOfOneMoment, AccountTypeOK
  <1> QED
    BY <1>1, <1>7, <1>8, <1>9

LEMMA BatchActionKeeps ==
  ASSUME AccountInv,
         (\E q \in Requests : BatchAction(q)) \/ (\E b \in Batches : Export(b))
  PROVE  AccountInv'
  <1> USE DEF AccountInv
  <1>1. UNCHANGED <<budget, lines, passed, manifest, reversed, undoneOf, seen>>
    BY DEF BatchAction, Export
  <1>2. OneApprovedBudget'
    BY <1>1 DEF OneApprovedBudget
  <1>3. CASE \E q \in Requests : BatchAction(q)
    <2>1. PICK q \in Requests : BatchAction(q)
      BY <1>3
    <2>2. /\ job[q] \in AccountJobs /\ AccountAllowed(job[q])
          /\ job' \in [Requests -> AccountJobs \cup {None}]
          /\ \A r \in Requests : job'[r] = None
          /\ Alone' /\ AccountStillAllowed'
      BY <2>1, AccountEnds DEF BatchAction
    <2>3. ReversedTogether'
      BY <1>1, <2>2 DEF ReversedTogether
    <2>4. PICK b \in Batches : b = job[q].object
      BY <2>1, <2>2, AccountingAssumption DEF BatchAction, Doing, AccountJobs
    <2>5. CASE job[q].action = "review"
      <3>1. /\ batch' = [batch EXCEPT ![b] = "reviewed"] /\ filings' = [filings EXCEPT ![b] = @]
            /\ batch[b] = "building"
        BY <2>1, <2>2, <2>4, <2>5 DEF BatchAction, AccountAllowed
      <3>2. filings' = filings
        BY <3>1 DEF AccountTypeOK
      <3> QED
        BY <1>1, <1>2, <2>2, <2>3, <3>1, <3>2 DEF AccountTypeOK, BatchStates, ManifestOfOneMoment
    <2>6. CASE job[q].action = "file"
      <3>1. /\ batch' = [batch EXCEPT ![b] = "delivered"]
            /\ filings' = [filings EXCEPT ![b] = @ + 1]
            /\ batch[b] = "exported"
        BY <2>1, <2>2, <2>4, <2>6 DEF BatchAction, AccountAllowed
      <3>2. filings[b] = 0
        BY <3>1 DEF ManifestOfOneMoment
      <3>3. filings' = [filings EXCEPT ![b] = 1]
        BY <3>1, <3>2
      <3> QED
        BY <1>1, <1>2, <2>2, <2>3, <3>1, <3>3 DEF AccountTypeOK, BatchStates, ManifestOfOneMoment
    <2> QED
      BY <2>1, <2>5, <2>6 DEF BatchAction, Doing
  <1>4. CASE \E b \in Batches : Export(b)
    <2>1. PICK b \in Batches : Export(b)
      BY <1>4
    <2>2. /\ batch[b] = "reviewed" /\ batch' = [batch EXCEPT ![b] = "exported"]
          /\ UNCHANGED <<filings, job>>
          /\ \A q \in Requests : job[q] # None => job[q].object # b
      BY <2>1 DEF Export
    <2>3. Alone' /\ ReversedTogether'
      BY <1>1, <2>2 DEF Alone, ReversedTogether
    <2>4. AccountTypeOK' /\ ManifestOfOneMoment'
      BY <1>1, <2>2 DEF AccountTypeOK, BatchStates, ManifestOfOneMoment
    <2>5. AccountStillAllowed'
      BY <1>1, <2>2 DEF AccountStillAllowed, AccountAllowed, AccountTypeOK, AccountJobs
    <2> QED
      BY <1>2, <2>3, <2>4, <2>5
  <1> QED
    BY <1>3, <1>4

LEMMA AccountInvStep == AccountInv /\ [AccountNext]_accountVars => AccountInv'
  <1>1. SUFFICES ASSUME AccountInv, [AccountNext]_accountVars PROVE AccountInv'
    OBVIOUS
  <1> USE <1>1
  <1>2. CASE UNCHANGED accountVars
    BY <1>2 DEF AccountInv, accountVars, accountRows, AccountTypeOK, Alone, AccountStillAllowed,
                AccountAllowed, ReversedTogether, OneApprovedBudget, ManifestOfOneMoment
  <1>3. ASSUME NEW q \in Requests, ReversePaid(q) \/ AccountRollback(q) PROVE AccountInv'
    <2>1. /\ job[q] \in AccountJobs
          /\ job' \in [Requests -> AccountJobs \cup {None}]
          /\ \A r \in Requests : job'[r] = None
          /\ Alone' /\ AccountStillAllowed'
      BY <1>3, AccountEnds DEF ReversePaid, AccountRollback
    <2>2. UNCHANGED <<budget, lines, passed, batch, manifest, filings, seen>>
      BY <1>3 DEF ReversePaid, AccountRollback, accountRows
    <2>3. undoneOf' = reversed' /\ reversed' \subseteq Paid
      <3>1. CASE ReversePaid(q)
        <4>1. job[q].object \in Paid
          BY <2>1, <3>1 DEF ReversePaid, Doing, AccountJobs
        <4> QED
          BY <3>1, <4>1 DEF ReversePaid, AccountInv, ReversedTogether, AccountTypeOK
      <3>2. CASE AccountRollback(q)
        BY <3>2 DEF AccountRollback, accountRows, AccountInv, ReversedTogether, AccountTypeOK
      <3> QED
        BY <1>3, <3>1, <3>2
    <2> QED
      BY <2>1, <2>2, <2>3 DEF AccountInv, AccountTypeOK, ReversedTogether, OneApprovedBudget,
                              ManifestOfOneMoment
  <1>4. CASE AccountNext
    BY <1>3, <1>4, AccountEnterKeeps, BudgetActionKeeps, SnapshotKeeps, BatchActionKeeps
    DEF AccountNext
  <1> QED
    BY <1>2, <1>4

(* There is one approved budget, with the lines it was approved with, and a *)
(* manifest is of one moment, for any number of budgets, batches, payments  *)
(* and requests (BudgetVersion, AccountingBatch, snapshot_manifest).        *)
THEOREM AccountsStand == AccountSpec => []AccountsAsSigned
  <1>1. AccountInv => AccountsAsSigned
    BY DEF AccountInv, AccountsAsSigned
  <1> QED
    BY <1>1, AccountInvInit, AccountInvStep, PTL DEF AccountSpec

-----------------------------------------------------------------------------
(* Members.  Whoever accepts an invitation holds it alone, nobody has      *)
(* entered with it, and an invitation that is inserted has no row yet.     *)
InvitesAreNew ==
  \A q \in Requests : job[q] # None =>
    /\ job[q].action = "invite" => invitation[job[q].object] = None
    /\ job[q].action = "revoke" => standing[job[q].user] # "absent"

HeldAlone ==
  \A q \in Requests : entering[q] # None =>
    /\ invitation[entering[q]] # None /\ ~invitation[entering[q]].accepted
    /\ \A r \in Requests : entering[r] = entering[q] => r = q

EnteredByInvitation ==
  /\ entries \in [Users -> Seq(Invitations)]
  /\ \A u \in Users : \A n \in 1..Len(entries[u]) : invitation[entries[u][n]] # None

AccessInv ==
  AccessTypeOK /\ Alone /\ InvitesAreNew /\ HeldAlone /\ EnteredByInvitation /\ InvitationOnce

LEMMA AccessInvInit == AccessInit => AccessInv
  <1>1. SUFFICES ASSUME AccessInit PROVE AccessInv
    OBVIOUS
  <1>2. AccessTypeOK
    BY <1>1 DEF AccessInit, DeskInit, AccessTypeOK, Roles
  <1>3. Alone /\ InvitesAreNew /\ HeldAlone
    BY <1>1 DEF AccessInit, DeskInit, Alone, InvitesAreNew, HeldAlone
  <1>4. EnteredByInvitation /\ InvitationOnce
    BY <1>1 DEF AccessInit, EnteredByInvitation, InvitationOnce
  <1> QED
    BY <1>2, <1>3, <1>4 DEF AccessInv

(* Opening a page, taking the lock, reading an invitation, and giving up. *)
LEMMA WaitingKeeps ==
  ASSUME AccessInv, NEW q \in Requests,
         \/ \E j \in AccessJobs : OpenTeam(q, j)
         \/ LockTeam(q) \/ RefuseTeam(q) \/ TeamRollback(q)
         \/ \E i \in Invitations : ReadInvitation(q, i)
         \/ AcceptFails(q)
  PROVE  AccessInv'
  <1> USE DEF AccessInv
  <1>1. UNCHANGED accessRows
    BY DEF OpenTeam, LockTeam, RefuseTeam, TeamRollback, ReadInvitation, AcceptFails
  <1>2. EnteredByInvitation' /\ InvitationOnce'
    BY <1>1 DEF EnteredByInvitation, InvitationOnce, accessRows
  <1>3. CASE (\E j \in AccessJobs : OpenTeam(q, j)) \/ RefuseTeam(q)
    <2>1. waiting' \in [Requests -> AccessJobs \cup {None}] /\ UNCHANGED <<entering, job>>
      BY <1>3 DEF OpenTeam, RefuseTeam, AccessTypeOK
    <2> QED
      BY <1>1, <1>2, <2>1 DEF AccessTypeOK, Alone, InvitesAreNew, HeldAlone, accessRows
  <1>4. CASE LockTeam(q)
    <2>1. PICK j \in AccessJobs : j = waiting[q] /\ TeamAllowed(j) /\ Begin(q, j)
      BY <1>4 DEF LockTeam, AccessTypeOK
    <2>2. /\ job' \in [Requests -> AccessJobs \cup {None}]
          /\ \A r \in Requests : job'[r] \in {j, None}
          /\ Alone'
      BY <2>1, BeginsAlone DEF AccessTypeOK
    <2>3. /\ waiting' \in [Requests -> AccessJobs \cup {None}] /\ entering' = entering
      BY <1>4 DEF LockTeam, AccessTypeOK
    <2>4. InvitesAreNew'
      BY <1>1, <2>1, <2>2 DEF InvitesAreNew, TeamAllowed, accessRows
    <2> QED
      BY <1>1, <1>2, <2>2, <2>3, <2>4 DEF AccessTypeOK, HeldAlone, accessRows
  <1>5. CASE TeamRollback(q)
    <2>1. /\ job' \in [Requests -> AccessJobs \cup {None}]
          /\ \A r \in Requests : job'[r] = None
          /\ Alone'
      BY <1>5, EndLeavesNobody DEF TeamRollback, AccessTypeOK
    <2> QED
      BY <1>1, <1>2, <1>5, <2>1
      DEF TeamRollback, AccessTypeOK, InvitesAreNew, HeldAlone, accessRows
  <1>6. CASE \E i \in Invitations : ReadInvitation(q, i)
    <2>1. PICK i \in Invitations : ReadInvitation(q, i)
      BY <1>6
    <2>2. /\ entering' = [entering EXCEPT ![q] = i] /\ UNCHANGED <<waiting, job>>
          /\ invitation[i] # None /\ ~invitation[i].accepted
          /\ \A r \in Requests : entering[r] # i
      BY <2>1 DEF ReadInvitation, Usable
    <2>3. HeldAlone'
      BY <1>1, <2>2 DEF HeldAlone, AccessTypeOK, accessRows
    <2> QED
      BY <1>1, <1>2, <2>2, <2>3 DEF AccessTypeOK, Alone, InvitesAreNew, accessRows
  <1>7. CASE AcceptFails(q)
    <2>1. entering' = [entering EXCEPT ![q] = None] /\ UNCHANGED <<waiting, job>>
      BY <1>7 DEF AcceptFails
    <2>2. HeldAlone'
      BY <1>1, <2>1 DEF HeldAlone, AccessTypeOK, accessRows
    <2> QED
      BY <1>1, <1>2, <2>1, <2>2 DEF AccessTypeOK, Alone, InvitesAreNew, accessRows
  <1> QED
    BY <1>3, <1>4, <1>5, <1>6, <1>7

LEMMA InviteKeeps ==
  ASSUME AccessInv, NEW q \in Requests, Invite(q)
  PROVE  AccessInv'
  <1> USE DEF AccessInv
  <1>1. /\ job[q] \in AccessJobs
        /\ job' \in [Requests -> AccessJobs \cup {None}]
        /\ \A r \in Requests : job'[r] = None
        /\ Alone'
    BY EndLeavesNobody DEF Invite, AccessTypeOK
  <1>2. PICK i \in Invitations, u \in Users, p \in Roles :
          /\ i = job[q].object /\ u = job[q].user /\ p = job[q].role
    BY <1>1 DEF Invite, Doing, AccessJobs
  <1>3. PICK row \in InvitationRows : row = [user |-> u, role |-> p, accepted |-> FALSE]
    BY DEF InvitationRows
  <1>4. /\ invitation' = [invitation EXCEPT ![i] = row] /\ invitation[i] = None
        /\ UNCHANGED <<standing, role, entries, waiting, entering>>
    BY <1>2, <1>3 DEF Invite, Doing, InvitesAreNew
  <1>5. AccessTypeOK' /\ InvitesAreNew'
    BY <1>1, <1>3, <1>4 DEF AccessTypeOK, InvitesAreNew
  <1>6. \A x \in Invitations : invitation[x] # None => invitation'[x] = invitation[x]
    BY <1>4 DEF AccessTypeOK
  <1>7. HeldAlone'
    BY <1>4, <1>6 DEF HeldAlone, AccessTypeOK
  <1>8. \A v \in Users : \A n \in 1..Len(entries[v]) :
          invitation'[entries[v][n]] = invitation[entries[v][n]]
    <2>1. ASSUME NEW v \in Users, NEW n \in 1..Len(entries[v])
          PROVE  entries[v][n] \in Invitations /\ invitation[entries[v][n]] # None
      <3>1. entries[v] \in Seq(Invitations)
        BY DEF EnteredByInvitation
      <3>2. entries[v][n] \in Invitations
        BY <2>1, <3>1, ElementOfSeq
      <3> QED
        BY <2>1, <3>2 DEF EnteredByInvitation
    <2> QED
      BY <1>6, <2>1
  <1>9. EnteredByInvitation'
    BY <1>4, <1>8 DEF EnteredByInvitation
  <1>10. InvitationOnce'
    <2>1. SUFFICES ASSUME NEW v \in Users
                   PROVE  (InvitationOnce!(v))'
      BY DEF InvitationOnce
    <2>2. entries[v] \in Seq(Invitations) /\ DOMAIN entries[v] = 1..Len(entries[v])
      BY DEF EnteredByInvitation
    <2>3. entries[v] # <<>> => Len(entries[v]) \in 1..Len(entries[v])
      BY <2>2, EmptySeq
    <2> QED
      BY <1>4, <1>8, <2>2, <2>3 DEF InvitationOnce
  <1> QED
    BY <1>1, <1>5, <1>7, <1>9, <1>10

LEMMA RevokeKeeps ==
  ASSUME AccessInv, NEW q \in Requests, Revoke(q)
  PROVE  AccessInv'
  <1> USE DEF AccessInv
  <1>1. /\ job[q] \in AccessJobs
        /\ job' \in [Requests -> AccessJobs \cup {None}]
        /\ \A r \in Requests : job'[r] = None
        /\ Alone'
    BY EndLeavesNobody DEF Revoke, AccessTypeOK
  <1>2. /\ standing' = [standing EXCEPT ![job[q].user] = "revoked"]
        /\ standing[job[q].user] # "absent"
        /\ UNCHANGED <<role, invitation, entries, waiting, entering>>
    BY DEF Revoke, Doing, InvitesAreNew
  <1>3. AccessTypeOK' /\ InvitesAreNew' /\ HeldAlone' /\ EnteredByInvitation'
    BY <1>1, <1>2 DEF AccessTypeOK, InvitesAreNew, HeldAlone, EnteredByInvitation
  <1>4. \A u \in Users : standing'[u] = "absent" => standing[u] = "absent"
    BY <1>2 DEF AccessTypeOK
  <1>5. InvitationOnce'
    BY <1>2, <1>4 DEF InvitationOnce
  <1> QED
    BY <1>1, <1>3, <1>5

LEMMA AcceptKeeps ==
  ASSUME AccessInv, NEW q \in Requests, AcceptInvitation(q)
  PROVE  AccessInv'
  <1> USE DEF AccessInv
  <1>1. PICK i \in Invitations : i = entering[q] /\ i # None
    BY DEF AcceptInvitation, AccessTypeOK
  <1>2. /\ invitation[i] # None /\ ~invitation[i].accepted /\ invitation[i] \in InvitationRows
        /\ \A r \in Requests : entering[r] = i => r = q
    BY <1>1 DEF HeldAlone, AccessTypeOK
  <1>3. PICK u \in Users, p \in Roles : u = invitation[i].user /\ p = invitation[i].role
    BY <1>2 DEF InvitationRows
  <1>4. PICK row \in InvitationRows :
          /\ row = [invitation[i] EXCEPT !.accepted = TRUE]
          /\ row.user = u /\ row.role = p /\ row.accepted
    <2>1. [invitation[i] EXCEPT !.accepted = TRUE] \in InvitationRows
      BY <1>2 DEF InvitationRows
    <2> QED
      BY <1>2, <1>3, <2>1 DEF InvitationRows
  <1>5. /\ standing' = [standing EXCEPT ![u] = "active"] /\ role' = [role EXCEPT ![u] = p]
        /\ invitation' = [invitation EXCEPT ![i] = row]
        /\ entries' = [entries EXCEPT ![u] = Append(entries[u], i)]
        /\ entering' = [entering EXCEPT ![q] = None] /\ UNCHANGED <<waiting, job>>
    <2>1. [invitation EXCEPT ![i].accepted = TRUE] = [invitation EXCEPT ![i] = row]
      BY <1>4
    <2> QED
      BY <1>1, <1>3, <2>1 DEF AcceptInvitation
  <1>6. row # None
    BY AccessAssumption
  <1>7. AccessTypeOK' /\ Alone'
    BY <1>4, <1>5 DEF AccessTypeOK, Alone
  <1>8. \A x \in Invitations : x # i => invitation'[x] = invitation[x]
    BY <1>5 DEF AccessTypeOK
  <1>9. InvitesAreNew'
    <2>1. \A r \in Requests : job[r] # None /\ job[r].action = "invite" => job[r].object # i
      BY <1>2 DEF InvitesAreNew
    <2>2. \A v \in Users : standing[v] # "absent" => standing'[v] # "absent"
      BY <1>5 DEF AccessTypeOK
    <2>3. ASSUME NEW r \in Requests, job'[r] # None
          PROVE  /\ job'[r].action = "invite" => invitation'[job'[r].object] = None
                 /\ job'[r].action = "revoke" => standing'[job'[r].user] # "absent"
      <3>1. job'[r] = job[r] /\ job[r] \in AccessJobs
        BY <1>5, <2>3 DEF AccessTypeOK
      <3>2. job[r].action = "invite" => job[r].object \in Invitations
        BY <3>1 DEF AccessJobs
      <3>3. job[r].action = "revoke" => job[r].user \in Users
        BY <3>1 DEF AccessJobs
      <3> QED
        BY <1>8, <2>1, <2>2, <2>3, <3>1, <3>2, <3>3 DEF InvitesAreNew
    <2> QED
      BY <2>3 DEF InvitesAreNew
  <1>10. HeldAlone'
    BY <1>2, <1>5, <1>8 DEF HeldAlone, AccessTypeOK
  <1>11. \A v \in Users : \A n \in 1..Len(entries[v]) :
           /\ entries[v][n] \in Invitations /\ entries[v][n] # i
           /\ invitation'[entries[v][n]] = invitation[entries[v][n]]
    <2>1. ASSUME NEW v \in Users, NEW n \in 1..Len(entries[v])
          PROVE  entries[v][n] \in Invitations /\ entries[v][n] # i
      <3>1. entries[v] \in Seq(Invitations) /\ DOMAIN entries[v] = 1..Len(entries[v])
        BY DEF EnteredByInvitation
      <3>2. entries[v][n] \in Invitations
        BY <2>1, <3>1, ElementOfSeq
      <3>3. invitation[entries[v][n]].accepted
        BY <2>1, <3>1 DEF InvitationOnce
      <3> QED
        BY <1>2, <3>2, <3>3
    <2> QED
      BY <1>8, <2>1
  <1>12. \A v \in Users : v # u =>
           entries'[v] = entries[v] /\ role'[v] = role[v] /\ standing'[v] = standing[v]
    BY <1>5 DEF EnteredByInvitation, AccessTypeOK
  <1> DEFINE s == entries[u]
             t == entries'[u]
  <1>13. /\ s \in Seq(Invitations) /\ t = Append(s, i)
         /\ role'[u] = p /\ standing'[u] = "active"
    BY <1>5 DEF EnteredByInvitation, AccessTypeOK
  <1>14. /\ t \in Seq(Invitations) /\ Len(t) = Len(s) + 1 /\ t # <<>>
         /\ \A n \in 1..Len(s) : t[n] = s[n]
         /\ t[Len(s) + 1] = i
    BY <1>13, AppendProperties
  <1>15. /\ Len(s) \in Nat /\ DOMAIN t = 1..(Len(s) + 1)
         /\ DOMAIN s = 1..Len(s)
         /\ \A n \in 1..(Len(s) + 1) : n \in 1..Len(s) \/ n = Len(s) + 1
    BY <1>13, <1>14
  <1>16. \A n \in 1..Len(s) : /\ t[n] # i /\ t[n] = s[n]
                              /\ invitation'[t[n]] = invitation[s[n]]
    BY <1>11, <1>14
  <1>17. invitation'[i] = row
    BY <1>5 DEF AccessTypeOK
  <1>18. EnteredByInvitation'
    <2>1. entries' \in [Users -> Seq(Invitations)]
      BY <1>5, <1>13, <1>14 DEF EnteredByInvitation
    <2>2. ASSUME NEW v \in Users, NEW n \in 1..Len(entries'[v])
          PROVE  invitation'[entries'[v][n]] # None
      <3>1. CASE v = u
        <4>1. n \in 1..Len(s) \/ n = Len(s) + 1
          BY <1>14, <1>15, <2>2, <3>1
        <4>2. CASE n \in 1..Len(s)
          BY <1>16, <3>1, <4>2 DEF EnteredByInvitation
        <4>3. CASE n = Len(s) + 1
          BY <1>6, <1>14, <1>17, <3>1, <4>3
        <4> QED
          BY <4>1, <4>2, <4>3
      <3>2. CASE v # u
        <4>1. entries'[v] = entries[v] /\ n \in 1..Len(entries[v])
          BY <1>12, <2>2, <3>2
        <4>2. /\ invitation[entries[v][n]] # None
              /\ invitation'[entries[v][n]] = invitation[entries[v][n]]
          BY <1>11, <4>1 DEF EnteredByInvitation
        <4> QED
          BY <4>1, <4>2
      <3> QED
        BY <3>1, <3>2
    <2> QED
      BY <2>1, <2>2 DEF EnteredByInvitation
  <1>19. InvitationOnce'
    <2>1. ASSUME NEW m \in DOMAIN t, NEW n \in DOMAIN t, t[m] = t[n] PROVE m = n
      <3>1. \A x, y \in 1..Len(s) : s[x] = s[y] => x = y
        BY <1>15 DEF InvitationOnce
      <3> QED
        BY <1>14, <1>15, <1>16, <2>1, <3>1
    <2>2. ASSUME NEW n \in DOMAIN t
          PROVE  invitation'[t[n]].user = u /\ invitation'[t[n]].accepted
      <3>1. \A x \in 1..Len(s) : invitation[s[x]].user = u /\ invitation[s[x]].accepted
        BY <1>15 DEF InvitationOnce
      <3>2. CASE n \in 1..Len(s)
        BY <1>16, <3>1, <3>2
      <3>3. CASE n = Len(s) + 1
        <4>1. invitation'[t[n]] = row
          BY <1>14, <1>17, <3>3
        <4> QED
          BY <1>4, <4>1
      <3> QED
        BY <1>15, <2>2, <3>2, <3>3
    <2>3. role'[u] = invitation'[t[Len(t)]].role
      BY <1>4, <1>13, <1>14, <1>17
    <2>4. (InvitationOnce!(u))'
      BY <1>13, <1>14, <2>1, <2>2, <2>3
    <2>5. ASSUME NEW v \in Users, v # u PROVE (InvitationOnce!(v))'
      <3>1. entries[v] \in Seq(Invitations) /\ DOMAIN entries[v] = 1..Len(entries[v])
        BY DEF EnteredByInvitation
      <3>2. entries[v] # <<>> => Len(entries[v]) \in 1..Len(entries[v])
        BY <3>1, EmptySeq
      <3> QED
        BY <1>11, <1>12, <2>5, <3>1, <3>2 DEF InvitationOnce
    <2> QED
      BY <2>4, <2>5 DEF InvitationOnce
  <1> QED
    BY <1>7, <1>9, <1>10, <1>18, <1>19

LEMMA AccessInvStep == AccessInv /\ [AccessNext]_accessVars => AccessInv'
  <1>1. SUFFICES ASSUME AccessInv, [AccessNext]_accessVars PROVE AccessInv'
    OBVIOUS
  <1>2. CASE UNCHANGED accessVars
    BY <1>1, <1>2 DEF AccessInv, accessVars, accessRows, AccessTypeOK, Alone, InvitesAreNew,
                      HeldAlone, EnteredByInvitation, InvitationOnce
  <1>3. CASE AccessNext
    BY <1>1, <1>3, WaitingKeeps, InviteKeeps, RevokeKeeps, AcceptKeeps DEF AccessNext
  <1> QED
    BY <1>1, <1>2, <1>3

(* Every entry has an invitation of its own, for any number of users,       *)
(* invitations and requests (team, accept_invitation).                      *)
THEOREM EntriesAreInvited == AccessSpec => []InvitationOnce
  <1>1. AccessInv => InvitationOnce
    BY DEF AccessInv
  <1> QED
    BY <1>1, AccessInvInit, AccessInvStep, PTL DEF AccessSpec

-----------------------------------------------------------------------------
(* All areas together.  In its own area each invariant is kept as above;   *)
(* elsewhere its rows are left alone.                                      *)
AreaInv ==
  /\ area \in Areas
  /\ area = "tasks" => TaskInv
  /\ area = "purchases" => PurchaseInv
  /\ area = "contents" => ContentInv
  /\ area \in {"bookings", "shifts"} => BookedAsApproved
  /\ area = "field" => FieldAsApproved
  /\ area = "accounts" => AccountInv
  /\ area = "factor" => FactorInv
  /\ area = "documents" => DocInv
  /\ area = "access" => AccessInv

(* What people would complain about, in whatever area it is. *)
Orderly ==
  /\ NoCycle /\ ReceiptsWithinOrder /\ OneObligationPerOrder
  /\ ApprovedUnchanged /\ NoDoubleUse /\ StaffAvailable
  /\ AccountsAsSigned /\ CodeOnce /\ InvitationOnce

(* Nothing is booked, on the way, on duty or stored but by those who do that. *)
Unbooked ==
  /\ \A b \in AssetBookings : custody[b] = "absent"
  /\ \A x \in Trips \cup Shifts : review[x] = "absent"

OthersIdle ==
  /\ area \notin {"bookings", "shifts"} => Unbooked
  /\ area = "contents" => \A q \in Requests : job[q] # None => job[q].object \in Plain
  /\ area # "field" => \A a \in Assignments : duty[a] = "absent"
  /\ area # "documents" => \A d \in Docs : doc[d] = "absent"
  /\ area \notin {"contents", "bookings", "shifts", "field"} => ReviewedRows

WorkspaceInv == AreaInv /\ Orderly /\ OthersIdle

(* Who is on no duty is not on two. *)
LEMMA NobodyOnDuty == (\A a \in Assignments : duty[a] = "absent") => StaffAvailable
  BY DEF StaffAvailable, LiveAssignments, Live

LEMMA WorkspaceInvInit == Init => WorkspaceInv
  <1>1. SUFFICES ASSUME Init PROVE WorkspaceInv
    OBVIOUS
  <1>2. ReviewInit /\ ContentInit
    BY <1>1 DEF Init, BookingInit, ContentInit
  <1>3. /\ TaskInv /\ PurchaseInv /\ ContentInv /\ BookingInv /\ FieldInv
        /\ AccountInv /\ FactorInv /\ DocInv /\ AccessInv
        /\ ReviewedRows /\ ApprovedUnchanged
    BY <1>1, <1>2, TaskInvInit, PurchaseInvInit, ContentInvInit, BookingInvInit, FieldInvInit,
       AccountInvInit, FactorInvInit, DocInvInit, AccessInvInit, ApprovedAtFirst DEF Init
  <1>4. AreaInv
    BY <1>1, <1>3 DEF AreaInv, Init, BookedAsApproved, FieldAsApproved
  <1>5. Orderly
    BY <1>3 DEF Orderly, TaskInv, PurchaseInv, BookingInv, FieldInv, AccountInv, AccountsAsSigned,
                FactorInv, AccessInv
  <1>6. OthersIdle
    <2>1. Unbooked
      BY <1>1, BookingAssumption DEF Init, BookingInit, ContentInit, ReviewInit, Unbooked
    <2>2. \A a \in Assignments : duty[a] = "absent"
      BY <1>1 DEF Init, FieldInit
    <2>3. \A d \in Docs : doc[d] = "absent"
      BY <1>1 DEF Init, DocInit
    <2>4. \A q \in Requests : job[q] = None
      BY <1>2 DEF ContentInit, DeskInit
    <2> QED
      BY <1>3, <2>1, <2>2, <2>3, <2>4 DEF OthersIdle
  <1> QED
    BY <1>4, <1>5, <1>6 DEF WorkspaceInv

(* A step of one area leaves what concerns the others as it was. *)
LEMMA OthersKept ==
  ASSUME WorkspaceInv, NEW a, In(a), Elsewhere(a)
  PROVE  /\ a # "tasks" => NoCycle'
         /\ a # "purchases" => ReceiptsWithinOrder' /\ OneObligationPerOrder'
         /\ a \notin {"contents", "bookings", "shifts", "field"} =>
              ReviewedRows' /\ ApprovedUnchanged' /\ Unbooked'
         /\ a # "field" => (\A x \in Assignments : duty'[x] = "absent") /\ StaffAvailable'
         /\ a # "accounts" => AccountsAsSigned'
         /\ a # "factor" => CodeOnce'
         /\ a # "documents" => \A d \in Docs : doc'[d] = "absent"
         /\ a # "access" => InvitationOnce'
  <1>1. a # "tasks" => NoCycle'
    BY SameEdges DEF WorkspaceInv, Orderly, Elsewhere, taskRows
  <1>2. a # "purchases" => ReceiptsWithinOrder' /\ OneObligationPerOrder'
    <2>1. SUFFICES ASSUME a # "purchases" PROVE ReceiptsWithinOrder' /\ OneObligationPerOrder'
      OBVIOUS
    <2>2. /\ UNCHANGED <<itemOf, ordered, order, orderFor, received, stocked>>
          /\ UNCHANGED <<requested, price, owed>>
      BY <2>1 DEF Elsewhere, purchaseRows
    <2>3. OneObligationPerOrder'
      BY <2>2 DEF WorkspaceInv, Orderly, OneObligationPerOrder
    <2> QED
      BY <2>2, <2>3, SameReceipts DEF WorkspaceInv, Orderly
  <1>3. a \notin {"contents", "bookings", "shifts", "field"} =>
          ReviewedRows' /\ ApprovedUnchanged' /\ Unbooked'
    <2>1. SUFFICES ASSUME a \notin {"contents", "bookings", "shifts", "field"}
                   PROVE  ReviewedRows' /\ ApprovedUnchanged' /\ Unbooked'
      OBVIOUS
    <2>2. UNCHANGED reviewRows /\ UNCHANGED <<custody, booking>>
      BY <2>1 DEF Elsewhere
    <2>3. ReviewedRows /\ ApprovedUnchanged /\ Unbooked
      BY <2>1 DEF WorkspaceInv, Orderly, OthersIdle, In
    <2>4. Unbooked'
      BY <2>2, <2>3 DEF Unbooked, reviewRows
    <2> QED
      BY <2>2, <2>3, <2>4, SameApproved
  <1>4. a # "field" => (\A x \in Assignments : duty'[x] = "absent") /\ StaffAvailable'
    BY NobodyOnDuty
    DEF WorkspaceInv, OthersIdle, Elsewhere, In, StaffAvailable, LiveAssignments, Live
  <1>5. a # "accounts" => AccountsAsSigned'
    BY DEF WorkspaceInv, Orderly, Elsewhere, accountRows, AccountsAsSigned, OneApprovedBudget,
           ManifestOfOneMoment
  <1>6. a # "factor" => CodeOnce'
    BY DEF WorkspaceInv, Orderly, Elsewhere, factorRows, CodeOnce
  <1>7. a # "documents" => \A d \in Docs : doc'[d] = "absent"
    BY DEF WorkspaceInv, OthersIdle, Elsewhere, docRows, In
  <1>8. a # "access" => InvitationOnce'
    BY DEF WorkspaceInv, Orderly, Elsewhere, accessRows, InvitationOnce
  <1> QED
    BY <1>1, <1>2, <1>3, <1>4, <1>5, <1>6, <1>7, <1>8

(* A step in an area, or one that changes nothing. *)
Steps(a) ==
  /\ In(a) /\ Elsewhere(a)
  /\ a = "tasks" => [TaskNext]_taskVars
  /\ a = "purchases" => [PurchaseNext]_purchaseVars
  /\ a = "contents" => [ContentNext]_reviewVars /\ (About(Plain) \/ UNCHANGED job)
  /\ a \in {"bookings", "shifts"} => [BookingNext]_bookingVars
  /\ a = "field" => [FieldNext]_fieldVars
  /\ a = "accounts" => [AccountNext]_accountVars
  /\ a = "factor" => [FactorNext]_factorVars
  /\ a = "documents" => [DocNext]_docVars
  /\ a = "access" => [AccessNext]_accessVars

LEMMA EveryStepHasAnArea == area \in Areas /\ [Next]_vars => \E a \in Areas : Steps(a)
  <1>1. SUFFICES ASSUME area \in Areas, [Next]_vars PROVE \E a \in Areas : Steps(a)
    OBVIOUS
  <1>2. CASE UNCHANGED vars
    <2>1. In(area) /\ Elsewhere(area)
      BY <1>2 DEF vars, In, Elsewhere
    <2>2. /\ UNCHANGED taskVars /\ UNCHANGED purchaseVars /\ UNCHANGED reviewVars
          /\ UNCHANGED bookingVars /\ UNCHANGED fieldVars /\ UNCHANGED accountVars
          /\ UNCHANGED factorVars /\ UNCHANGED docVars /\ UNCHANGED accessVars
          /\ UNCHANGED job
      BY <1>2 DEF vars, taskVars, purchaseVars, reviewVars, bookingVars, bookingRows, fieldVars,
                  fieldRows, accountVars, factorVars, docVars, accessVars
    <2> QED
      BY <1>1, <2>1, <2>2 DEF Steps
  <1>3. CASE Next
    BY <1>3 DEF Next, Steps, Areas
  <1> QED
    BY <1>1, <1>2, <1>3

(* In its own area, each invariant is kept. *)
LEMMA AreaKept ==
  ASSUME WorkspaceInv, NEW a \in Areas, Steps(a)
  PROVE  AreaInv'
  <1>1. area = a /\ area' = a /\ AreaInv
    BY DEF Steps, In, WorkspaceInv
  <1>2. a = "tasks" => TaskInv'
    BY <1>1, TaskInvStep DEF Steps, AreaInv
  <1>3. a = "purchases" => PurchaseInv'
    BY <1>1, PurchaseInvStep DEF Steps, AreaInv
  <1>4. a = "contents" => ContentInv'
    BY <1>1, ContentInvStep DEF Steps, AreaInv
  <1>5. a \in {"bookings", "shifts"} => BookedAsApproved'
    BY <1>1, BookedStep DEF Steps, AreaInv
  <1>6. a = "field" => FieldAsApproved'
    BY <1>1, FieldApprovedStep DEF Steps, AreaInv
  <1>7. a = "accounts" => AccountInv'
    BY <1>1, AccountInvStep DEF Steps, AreaInv
  <1>8. a = "factor" => FactorInv'
    BY <1>1, FactorInvStep DEF Steps, AreaInv
  <1>9. a = "documents" => DocInv'
    BY <1>1, DocInvStep DEF Steps, AreaInv
  <1>10. a = "access" => AccessInv'
    BY <1>1, AccessInvStep DEF Steps, AreaInv
  <1> QED
    BY <1>1, <1>2, <1>3, <1>4, <1>5, <1>6, <1>7, <1>8, <1>9, <1>10 DEF AreaInv

(* The records of the contents and of the field work are nobody's trips or  *)
(* shifts.                                                                 *)
LEMMA UnbookedKept ==
  ASSUME WorkspaceInv, NEW a \in {"contents", "field"}, Steps(a)
  PROVE  Unbooked'
  <1>1. /\ area = a /\ Unbooked /\ UNCHANGED custody
        /\ Trips \cup Shifts \subseteq Reviewables
    BY BookingAssumption DEF Steps, In, Elsewhere, WorkspaceInv, OthersIdle
  <1>2. /\ review \in [Reviewables -> ReviewStates]
        /\ a = "field" => FieldTypeOK
    BY <1>1 DEF WorkspaceInv, AreaInv, ContentInv, ContentTypeOK, FieldAsApproved, FieldInv,
                FieldTypeOK
  <1>3. ASSUME NEW q \in Requests, SaveFields(q) \/ ReviewAction(q) \/ RegisterPublication(q),
               job[q].object \notin Trips \cup Shifts
        PROVE  \A x \in Trips \cup Shifts : review'[x] = "absent"
    BY <1>1, <1>2, <1>3 DEF SaveFields, ReviewAction, RegisterPublication, Unbooked
  <1>4. CASE a = "contents"
    <2>1. CASE UNCHANGED review
      BY <1>1, <2>1 DEF Unbooked
    <2>2. ASSUME NEW q \in Requests, ContentCommit(q)
          PROVE  Unbooked'
      <3>1. job[q].object \in Plain
        BY <1>1, <1>4, <2>2 DEF ContentCommit, End, WorkspaceInv, OthersIdle
      <3>2. job[q].object \notin Trips \cup Shifts
        BY <3>1 DEF Plain
      <3> QED
        BY <1>1, <1>3, <2>2, <3>2 DEF ContentCommit, Unbooked
    <2> QED
      BY <1>4, <2>1, <2>2 DEF Steps, ContentNext, ContentEnter, ContentRollback, reviewVars,
                              reviewRows
  <1>5. CASE a = "field"
    <2>1. CASE UNCHANGED review
      BY <1>1, <2>1 DEF Unbooked
    <2>2. ASSUME NEW q \in Requests, ReviewActivity(q)
          PROVE  Unbooked'
      <3>1. job[q] \in FieldJobs
        BY <1>2, <1>5, <2>2 DEF ReviewActivity, End, FieldTypeOK
      <3>2. job[q].action \in ReviewActions \cup {"create", "edit"}
        BY <2>2 DEF ReviewActivity, SaveFields, ReviewAction, Doing
      <3>3. job[q].object \in Activities
        BY <3>1, <3>2, ActivityJobTypes
      <3>4. job[q].object \notin Trips \cup Shifts
        BY <3>3, KindsApart
      <3> QED
        BY <1>1, <1>3, <2>2, <3>4 DEF ReviewActivity, Unbooked
    <2> QED
      BY <1>5, <2>1, <2>2 DEF Steps, FieldNext, FieldEnter, WorkerAction, SaveAssignment,
                              AssignmentAction, FieldRollback, fieldVars, fieldRows, reviewRows
  <1> QED
    BY <1>4, <1>5

LEMMA OrderlyKept ==
  ASSUME WorkspaceInv, NEW a \in Areas, Steps(a), AreaInv'
  PROVE  Orderly' /\ OthersIdle'
  <1>1. In(a) /\ Elsewhere(a) /\ area' = a
    BY DEF Steps, In
  <1>2. NoCycle'
    BY <1>1, OthersKept DEF AreaInv, TaskInv
  <1>3. ReceiptsWithinOrder' /\ OneObligationPerOrder'
    BY <1>1, OthersKept DEF AreaInv, PurchaseInv
  <1>4. ApprovedUnchanged'
    BY <1>1, OthersKept DEF AreaInv, ContentInv, BookedAsApproved, FieldAsApproved
  <1>5. a \notin {"bookings", "shifts"} => Unbooked'
    BY <1>1, OthersKept, UnbookedKept
  <1>6. NoDoubleUse'
    <2>1. CASE a \in {"bookings", "shifts"}
      BY <1>1, <2>1 DEF AreaInv, BookedAsApproved, BookingInv
    <2>2. CASE a \notin {"bookings", "shifts"}
      <3>1. Unbooked'
        BY <1>5, <2>2
      <3> QED
        BY <3>1 DEF Unbooked, NoDoubleUse, HeldBookings, RunningTrips, RunningShifts, Held, Running
    <2> QED
      BY <2>1, <2>2
  <1>7. StaffAvailable'
    BY <1>1, OthersKept DEF AreaInv, FieldAsApproved, FieldInv
  <1>8. AccountsAsSigned'
    BY <1>1, OthersKept DEF AreaInv, AccountInv, AccountsAsSigned
  <1>9. CodeOnce'
    BY <1>1, OthersKept DEF AreaInv, FactorInv
  <1>10. InvitationOnce'
    BY <1>1, OthersKept DEF AreaInv, AccessInv
  <1>11. a = "contents" => \A q \in Requests : job'[q] # None => job'[q].object \in Plain
    BY DEF Steps, About, In, WorkspaceInv, OthersIdle
  <1>12. OthersIdle'
    BY <1>1, <1>5, <1>11, OthersKept DEF OthersIdle
  <1> QED
    BY <1>2, <1>3, <1>4, <1>6, <1>7, <1>8, <1>9, <1>10, <1>12 DEF Orderly

(* Tasks start in order, and documents stay. *)
LEMMA StepsInOrder ==
  ASSUME WorkspaceInv, NEW a \in Areas, Steps(a)
  PROVE  StartsInOrder /\ DocsKept
  <1>1. In(a) /\ Elsewhere(a) /\ area = a /\ AreaInv
    BY DEF Steps, In, WorkspaceInv
  <1>2. a = "tasks" => StartsInOrder
    BY <1>1, TaskStepInOrder DEF Steps, AreaInv
  <1>3. a = "documents" => DocsKept
    BY <1>1, DocInvStep DEF Steps, AreaInv
  <1>4. a # "tasks" => StartsInOrder
    BY <1>1 DEF Elsewhere, taskRows, StartsInOrder
  <1>5. a # "documents" => DocsKept
    BY <1>1, OthersKept DEF WorkspaceInv, OthersIdle, DocsKept
  <1> QED
    BY <1>2, <1>3, <1>4, <1>5

LEMMA WorkspaceStep ==
  WorkspaceInv /\ [Next]_vars => WorkspaceInv' /\ StartsInOrder /\ DocsKept
  <1>1. SUFFICES ASSUME WorkspaceInv, [Next]_vars
                 PROVE  WorkspaceInv' /\ StartsInOrder /\ DocsKept
    OBVIOUS
  <1>2. PICK a \in Areas : Steps(a)
    BY <1>1, EveryStepHasAnArea DEF WorkspaceInv, AreaInv
  <1>3. AreaInv'
    BY <1>1, <1>2, AreaKept
  <1> QED
    BY <1>1, <1>2, <1>3, OrderlyKept, StepsInOrder DEF WorkspaceInv

(* Every area's rows have their types, for any number of records of every   *)
(* area and of requests.                                                   *)
THEOREM WorkspaceTypes == Spec => []DeskTypesOK
  <1>1. WorkspaceInv => DeskTypesOK
    BY DEF WorkspaceInv, AreaInv, DeskTypesOK, TaskInv, PurchaseInv, ContentInv, BookedAsApproved,
           BookingInv, FieldAsApproved, FieldInv, AccountInv, FactorInv, DocInv, AccessInv
  <1> QED
    BY <1>1, WorkspaceInvInit, WorkspaceStep, PTL DEF Spec

(* The areas together keep what each of them keeps alone: what the workspace *)
(* promises of its records holds in whatever area people are at work.       *)
THEOREM WorkspaceOrderly ==
  Spec => /\ []NoCycle /\ []ReceiptsWithinOrder /\ []OneObligationPerOrder
          /\ []ApprovedUnchanged /\ []NoDoubleUse /\ []StaffAvailable
          /\ []AccountsAsSigned /\ []CodeOnce /\ []InvitationOnce
          /\ PredecessorsFirst /\ AvailableForGood
  <1>1. WorkspaceInv => /\ NoCycle /\ ReceiptsWithinOrder /\ OneObligationPerOrder
                        /\ ApprovedUnchanged /\ NoDoubleUse /\ StaffAvailable
                        /\ AccountsAsSigned /\ CodeOnce /\ InvitationOnce
    BY DEF WorkspaceInv, Orderly
  <1>2. [WorkspaceInv /\ StartsInOrder /\ DocsKept]_vars => [StartsInOrder]_taskVars
    BY DEF vars, taskVars
  <1>3. [WorkspaceInv /\ StartsInOrder /\ DocsKept]_vars => [DocsKept]_docVars
    BY DEF vars, docVars
  <1>4. Spec => []WorkspaceInv /\ [][WorkspaceInv /\ StartsInOrder /\ DocsKept]_vars
    BY WorkspaceInvInit, WorkspaceStep, PTL DEF Spec
  <1>5. Spec => PredecessorsFirst /\ AvailableForGood
    BY <1>2, <1>3, <1>4, PTL DEF PredecessorsFirst, StartsInOrder, AvailableForGood, DocsKept
  <1> QED
    BY <1>1, <1>4, <1>5, PTL

(* What the checks of a request found, when it was let in, is still so      *)
(* whenever it writes: it could be decided again and would be decided the   *)
(* same.  Not so for the members: a manager's permission is read before the *)
(* lock (team).                                                             *)
NothingStale ==
  \A q \in Requests : job[q] # None =>
    /\ area = "tasks" => TaskAllowed(job[q])
    /\ area = "purchases" => PurchaseAllowed(job[q])
    /\ area = "contents" => ContentAllowed(job[q])
    /\ area \in {"bookings", "shifts"} => BookingAllowed(job[q])
    /\ area = "field" => FieldAllowed(job[q])
    /\ area = "accounts" => AccountAllowed(job[q])
    /\ area = "factor" => FactorAllowed(job[q])
    /\ area = "documents" => doc[job[q].object] = "absent"

(* No request of the workspace acts on what is no longer so (the campaign's *)
(* row that module_edit and execute_action lock before they read).          *)
THEOREM WorkspaceDecidesNow == Spec => []NothingStale
  <1>1. WorkspaceInv => NothingStale
    BY DEF WorkspaceInv, AreaInv, NothingStale, TaskInv, TaskStillAllowed, PurchaseInv,
           StillAllowed, ContentInv, ContentStillAllowed, BookedAsApproved, BookingInv,
           BookingStillAllowed, FieldAsApproved, FieldInv, FieldStillAllowed, AccountInv,
           AccountStillAllowed, FactorInv, FactorStillAllowed, DocInv, UploadsAreNew
  <1> QED
    BY <1>1, WorkspaceInvInit, WorkspaceStep, PTL DEF Spec
=============================================================================
