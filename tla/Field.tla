-------------------------------- MODULE Field -------------------------------
(***************************************************************************)
(* Field work: workers who are trained, paused and resumed, activities     *)
(* (reviewable records with a period), and the assignments of workers to   *)
(* activities, up to the presence that is registered.  The check-in window *)
(* around the start of an activity is a reason for a refusal.              *)
(***************************************************************************)
EXTENDS Review

CONSTANTS
  Activities,    \* reviewable records
  Workers, Assignments,
  ActivityForms  \* what an activity's form may hold: [training, from, to]

VARIABLES
  staff,   \* FieldWorker.status, "absent" before the insert
  trained, \* the workers whose training_status is completed
  duty,    \* FieldAssignment.status, "absent" before the insert
  place    \* its activity and worker, None before

fieldRows == <<reviewRows, staff, trained, duty, place>>
fieldVars == <<fieldRows, job>>

DutyStates == {"absent", "scheduled", "confirmed", "checked_in", "completed", "cancelled"}
DutyMoves == {<<"scheduled", "confirm", "confirmed">>, <<"confirmed", "checkin", "checked_in">>,
              <<"checked_in", "finish", "completed">>, <<"scheduled", "unassign", "cancelled">>,
              <<"confirmed", "unassign", "cancelled">>}
Live == {"scheduled", "confirmed", "checked_in"}
Open == {"approved", "active"}

Places == [activity : Activities, worker : Workers]

FieldJobs ==
  ReviewJobs(Activities, ActivityForms)
    \cup [action : {"hire", "train", "pause", "resume"}, object : Workers]
    \cup [action : {"assign", "reassign"}, object : Assignments, to : Places]
    \cup [action : {"confirm", "checkin", "finish", "unassign"}, object : Assignments]

ASSUME FieldAssumption ==
  /\ Activities \subseteq Reviewables \ Contents
  /\ None \notin FieldJobs \cup Places \cup ActivityForms
  /\ \A f \in ActivityForms : f.from \in Nat /\ f.to \in Nat /\ f.from < f.to

FieldInit ==
  /\ ContentInit
  /\ staff   = [w \in Workers |-> "absent"]
  /\ trained = {}
  /\ duty    = [a \in Assignments |-> "absent"]
  /\ place   = [a \in Assignments |-> None]

-----------------------------------------------------------------------------
LiveAssignments == {a \in Assignments : duty[a] \in Live}
StaffOf(x) == {a \in Assignments : duty[a] # "absent" /\ place[a].activity = x}
DutiesOf(w) == {a \in LiveAssignments : place[a].worker = w}

AtTheSameTime(x, y) == fields[x].from < fields[y].to /\ fields[x].to > fields[y].from

(* The checks of an assignment's form (validate_booking, clean and the      *)
(* unique constraint, which counts cancelled assignments too).             *)
AssignmentFits(a, p) ==
  /\ review[p.activity] \in Open
  /\ staff[p.worker] = "active"
  /\ p.worker \in trained \/ fields[p.activity].training
  /\ \A b \in DutiesOf(p.worker) \ {a} : ~AtTheSameTime(place[b].activity, p.activity)
  /\ \A b \in Assignments \ {a} : duty[b] # "absent" => place[b] # p

(* An activity is completed when its assignments are, and is not cancelled *)
(* while somebody is present.                                              *)
ActivityMayEnd(j) ==
  /\ j.action = "complete" => \A a \in StaffOf(j.object) : duty[a] \in {"completed", "cancelled"}
  /\ j.action = "cancel" => \A a \in StaffOf(j.object) : duty[a] # "checked_in"

FieldAllowed(j) ==
  /\ j.action = "hire" => staff[j.object] = "absent"
  /\ j.action = "train" => staff[j.object] # "absent" /\ j.object \notin trained
  /\ j.action = "pause" => staff[j.object] = "active" /\ DutiesOf(j.object) = {}
  /\ j.action = "resume" => staff[j.object] = "paused"
  /\ j.action = "assign" => duty[j.object] = "absent" /\ AssignmentFits(j.object, j.to)
  /\ j.action = "reassign" => duty[j.object] = "scheduled" /\ AssignmentFits(j.object, j.to)
  /\ j.action \in {"confirm", "checkin", "finish", "unassign"} =>
       \E s \in DutyStates : <<duty[j.object], j.action, s>> \in DutyMoves
  /\ j.action \in {"confirm", "checkin"} =>
       /\ staff[place[j.object].worker] = "active"
       /\ review[place[j.object].activity] \in Open
  /\ ReviewAllowed(j) /\ ActivityMayEnd(j)

FieldEnter(q, j) == Begin(q, j) /\ FieldAllowed(j) /\ UNCHANGED fieldRows

WorkerAction(q) ==
  LET w == job[q].object
  IN  /\ Doing(q, {"hire", "train", "pause", "resume"})
      /\ staff' = IF job[q].action = "train" THEN staff
                  ELSE [staff EXCEPT ![w] = IF job[q].action = "pause" THEN "paused" ELSE "active"]
      /\ trained' = IF job[q].action = "train" THEN trained \cup {w} ELSE trained
      /\ End(q) /\ UNCHANGED <<reviewRows, duty, place>>

SaveAssignment(q) ==
  /\ Doing(q, {"assign", "reassign"})
  /\ duty' = [duty EXCEPT ![job[q].object] = "scheduled"]
  /\ place' = [place EXCEPT ![job[q].object] = job[q].to]
  /\ End(q) /\ UNCHANGED <<reviewRows, staff, trained>>

AssignmentAction(q) ==
  /\ Doing(q, {"confirm", "checkin", "finish", "unassign"})
  /\ \E s \in DutyStates : /\ <<duty[job[q].object], job[q].action, s>> \in DutyMoves
                           /\ duty' = [duty EXCEPT ![job[q].object] = s]
  /\ End(q) /\ UNCHANGED <<reviewRows, staff, trained, place>>

ReviewKeepingStaff(q) ==
  /\ SaveFields(q) \/ ReviewAction(q)
  /\ End(q) /\ UNCHANGED <<staff, trained, duty, place>>

(* Cancelling an activity cancels the assignments nobody has begun. *)
ReviewActivity(q) ==
  /\ SaveFields(q) \/ ReviewAction(q)
  /\ duty' = [a \in Assignments |->
       IF /\ job[q].action = "cancel" /\ a \in StaffOf(job[q].object)
          /\ duty[a] \in {"scheduled", "confirmed"}
       THEN "cancelled" ELSE duty[a]]
  /\ End(q) /\ UNCHANGED <<staff, trained, place>>

FieldRollback(q) == End(q) /\ UNCHANGED fieldRows

FieldNext ==
  \E q \in Requests :
    \/ \E j \in FieldJobs : FieldEnter(q, j)
    \/ WorkerAction(q) \/ SaveAssignment(q) \/ AssignmentAction(q)
    \/ ReviewActivity(q) \/ FieldRollback(q)

FieldSpec == FieldInit /\ [][FieldNext]_fieldVars

-----------------------------------------------------------------------------
FieldTypeOK ==
  /\ review \in [Reviewables -> ReviewStates]
  /\ fields \in [Reviewables -> ActivityForms \cup {None}]
  /\ staff \in [Workers -> {"absent", "active", "paused"}]
  /\ trained \subseteq Workers
  /\ duty \in [Assignments -> DutyStates]
  /\ place \in [Assignments -> Places \cup {None}]
  /\ job \in [Requests -> FieldJobs \cup {None}]

(* Whoever is expected somewhere can be there: a live assignment is of an   *)
(* active, trained worker to an activity that is neither finished nor       *)
(* cancelled, and no two of a worker are at the same time.                  *)
StaffAvailable ==
  /\ \A a \in LiveAssignments :
       /\ staff[place[a].worker] = "active"
       /\ review[place[a].activity] \in Open
       /\ place[a].worker \in trained \/ fields[place[a].activity].training
  /\ \A a, b \in LiveAssignments :
       a # b /\ place[a].worker = place[b].worker
         => /\ place[a].activity # place[b].activity
            /\ ~AtTheSameTime(place[a].activity, place[b].activity)
=============================================================================
