------------------------------ MODULE TaskGraph -----------------------------
(***************************************************************************)
(* The tasks of a campaign and the dependencies between them: the workflow *)
(* of task_action and add_task_dependency.  Evidence, completion criteria  *)
(* and the assignee are among the reasons a request is refused for.        *)
(***************************************************************************)
EXTENDS Desk

CONSTANT Tasks

VARIABLES
  progress, \* Task.status, "absent" before the insert
  edges     \* the rows of TaskDependency, as <<task, depends_on>>

taskRows == <<progress, edges>>
taskVars == <<taskRows, job>>

TaskMoves == {
  <<"open", "start", "in_progress">>, <<"blocked", "start", "in_progress">>,
  <<"in_progress", "block", "blocked">>, <<"in_progress", "review", "in_review">>,
  <<"in_review", "complete", "completed">>,
  <<"completed", "reopen", "open">>, <<"in_review", "reopen", "open">>,
  <<"open", "cancel", "cancelled">>, <<"in_progress", "cancel", "cancelled">>,
  <<"blocked", "cancel", "cancelled">>, <<"in_review", "cancel", "cancelled">> }

TaskActions == {"start", "block", "review", "complete", "reopen", "cancel"}
TaskStates ==
  {"absent", "open", "in_progress", "blocked", "in_review", "completed", "cancelled"}

TaskJobs ==
  [action : TaskActions \cup {"create"}, task : Tasks, on : {None}]
    \cup [action : {"depend"}, task : Tasks, on : Tasks]

ASSUME TaskAssumption == None \notin TaskJobs /\ None \notin Tasks

TaskInit ==
  /\ progress = [t \in Tasks |-> "absent"]
  /\ edges = {}
  /\ DeskInit

-----------------------------------------------------------------------------
(* The sets of tasks that the search never leaves. *)
Closed(C) == \A e \in edges : e[1] \in C => e[2] \in C

(* What the search from p over the dependencies visits: all that p waits   *)
(* for, p included; that is, what every closed set around p contains.      *)
Visited(p) == {x \in Tasks : \A C \in SUBSET Tasks : p \in C /\ Closed(C) => x \in C}

OpenUnlessCancelled(t) ==
  {p \in Tasks : <<t, p>> \in edges /\ progress[p] \notin {"completed", "cancelled"}}

OpenPredecessors(t) == {p \in Tasks : <<t, p>> \in edges /\ progress[p] # "completed"}

TaskTarget(j, s) ==
  /\ <<progress[j.task], j.action, s>> \in TaskMoves
  /\ j.action \in {"start", "complete"} => OpenPredecessors(j.task) = {}

(* The checks of the services, in one reading. *)
TaskAllowed(j) ==
  /\ j.action = "create" => progress[j.task] = "absent"
  /\ j.action = "depend" => /\ progress[j.task] # "absent" /\ progress[j.on] # "absent"
                            /\ j.task \notin Visited(j.on)
  /\ j.action \in TaskActions => \E s \in TaskStates : TaskTarget(j, s)

TaskEnter(q, j) ==
  /\ Begin(q, j) /\ TaskAllowed(j)
  /\ UNCHANGED taskRows

AddTask(q) ==
  /\ Doing(q, {"create"})
  /\ progress' = [progress EXCEPT ![job[q].task] = "open"]
  /\ End(q) /\ UNCHANGED edges

(* The pair is unique: adding it again changes nothing. *)
AddTaskDependency(q) ==
  /\ Doing(q, {"depend"})
  /\ edges' = edges \cup {<<job[q].task, job[q].on>>}
  /\ End(q) /\ UNCHANGED progress

TaskAction(q) ==
  /\ Doing(q, TaskActions)
  /\ \E s \in TaskStates :
       /\ <<progress[job[q].task], job[q].action, s>> \in TaskMoves
       /\ progress' = [progress EXCEPT ![job[q].task] = s]
  /\ End(q) /\ UNCHANGED edges

TaskRollback(q) == End(q) /\ UNCHANGED taskRows

TaskNext ==
  \E q \in Requests :
    \/ \E j \in TaskJobs : TaskEnter(q, j)
    \/ AddTask(q) \/ AddTaskDependency(q) \/ TaskAction(q) \/ TaskRollback(q)

TaskSpec == TaskInit /\ [][TaskNext]_taskVars

-----------------------------------------------------------------------------
TaskTypeOK ==
  /\ progress \in [Tasks -> TaskStates]
  /\ edges \subseteq Tasks \X Tasks
  /\ job \in [Requests -> TaskJobs \cup {None}]

(* No task waits, directly or through others, for itself: there is no set  *)
(* of tasks in which each one depends on another of them.  A cycle would   *)
(* leave its tasks unable to start for ever, and no test adds two opposite *)
(* dependencies at once.                                                   *)
NoCycle ==
  \A S \in SUBSET Tasks :
    S # {} => \E t \in S : \A p \in S : <<t, p>> \notin edges

(* A task starts, or is completed, only while all that it depends on is    *)
(* completed, although predecessors are added and reopened by others.      *)
PredecessorsFirst ==
  [][\A t \in Tasks :
       progress'[t] # progress[t] /\ progress'[t] \in {"in_progress", "completed"}
         => \A p \in Tasks : <<t, p>> \in edges => progress[p] = "completed"]_taskVars
=============================================================================
