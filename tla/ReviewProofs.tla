---------------------------- MODULE ReviewProofs ----------------------------
(***************************************************************************)
(* Proofs about Review, Bookings and Field.  In each of them a request     *)
(* that was let in is alone (Alone), so what its checks found is still so  *)
(* when it writes (the ...StillAllowed), and the property itself is then   *)
(* kept by every write.                                                    *)
(***************************************************************************)
EXTENDS Bookings, Field, FiniteSetTheorems, TLAPS

ContentStillAllowed == \A q \in Requests : job[q] # None => ContentAllowed(job[q])

ContentInv == ContentTypeOK /\ Alone /\ ContentStillAllowed /\ ApprovedUnchanged

-----------------------------------------------------------------------------
(* A transaction that ends leaves nobody let in, whatever the jobs are. *)
LEMMA EndLeavesNobody ==
  ASSUME NEW Jobs, Alone, job \in [Requests -> Jobs \cup {None}], NEW q \in Requests, End(q)
  PROVE  /\ job[q] \in Jobs
         /\ job' \in [Requests -> Jobs \cup {None}]
         /\ \A r \in Requests : job'[r] = None
         /\ Alone'
  BY DEF Alone, End

(* One that begins is the only one. *)
LEMMA BeginsAlone ==
  ASSUME NEW Jobs, job \in [Requests -> Jobs \cup {None}],
         NEW q \in Requests, NEW j \in Jobs, Begin(q, j)
  PROVE  /\ job' \in [Requests -> Jobs \cup {None}]
         /\ \A r \in Requests : job'[r] \in {j, None}
         /\ Alone'
  BY DEF Alone, Begin

-----------------------------------------------------------------------------
(* Contents and the plain reviewable records. *)
LEMMA ContentInvInit == ContentInit => ContentInv
  BY ReviewAssumption
  DEF ContentInit, ReviewInit, DeskInit, ContentInv, ContentTypeOK, ReviewStates, Alone,
      ContentStillAllowed, ApprovedUnchanged

LEMMA ContentEnterKeeps ==
  ASSUME ContentInv, NEW q \in Requests, NEW j \in ContentJobs, ContentEnter(q, j)
  PROVE  ContentInv'
  <1> USE DEF ContentInv, reviewRows
  <1>1. /\ job' \in [Requests -> ContentJobs \cup {None}]
        /\ \A r \in Requests : job'[r] \in {j, None}
        /\ Alone'
    BY BeginsAlone DEF ContentEnter, ContentTypeOK
  <1>2. ContentAllowed(j) /\ UNCHANGED <<review, fields, decisions, published>>
    BY DEF ContentEnter
  <1>3. ContentAllowed(j)'
    BY <1>2 DEF ContentAllowed, ReviewAllowed, InDraft
  <1>4. ContentStillAllowed'
    BY <1>1, <1>3 DEF ContentStillAllowed
  <1>5. ContentTypeOK' /\ ApprovedUnchanged'
    BY <1>1, <1>2 DEF ContentTypeOK, ApprovedUnchanged
  <1> QED
    BY <1>1, <1>4, <1>5

(* What the two lemmas below need to know of the rows. *)
ReviewedRows ==
  /\ review \in [Reviewables -> ReviewStates]
  /\ fields = [x \in Reviewables |-> fields[x]]
  /\ decisions = [x \in Reviewables |-> decisions[x]]

(* What is edited is a draft, or does not exist yet. *)
LEMMA SaveKeepsApproved ==
  ASSUME ReviewedRows, ApprovedUnchanged, NEW q \in Requests, SaveFields(q),
         ReviewAllowed(job[q]), job[q].object \in Reviewables
  PROVE  ReviewedRows' /\ ApprovedUnchanged'
  <1> DEFINE x == job[q].object
  <1>1. /\ review[x] \in {"absent", "draft"}
        /\ review' = [review EXCEPT ![x] = IF job[q].action = "create" THEN "draft" ELSE @]
        /\ fields' = [fields EXCEPT ![x] = job[q].fields]
        /\ decisions' = decisions /\ published' = published
    BY DEF SaveFields, Doing, ReviewAllowed, InDraft
  <1>2. review'[x] \in {"absent", "draft"}
    BY <1>1 DEF ReviewedRows
  <1>3. /\ \A y \in Reviewables \ {x} : review'[y] = review[y] /\ fields'[y] = fields[y]
        /\ ReviewedRows'
    BY <1>1 DEF ReviewedRows, ReviewStates
  <1> QED
    BY <1>1, <1>2, <1>3 DEF ApprovedUnchanged

(* An approval decides about what the record is then, and is the first. *)
LEMMA ActionKeepsApproved ==
  ASSUME ReviewedRows, ApprovedUnchanged, NEW q \in Requests, ReviewAction(q),
         job[q].object \in Reviewables,
         job[q].action = "complete" => job[q].object \notin Contents \ published
  PROVE  ReviewedRows' /\ ApprovedUnchanged'
  <1> USE DEF ReviewedRows
  <1>1. PICK x \in Reviewables : x = job[q].object
    OBVIOUS
  <1>2. PICK s \in ReviewStates : /\ <<review[x], job[q].action, s>> \in ReviewMoves
                                  /\ review' = [review EXCEPT ![x] = s]
    BY <1>1 DEF ReviewAction
  <1>3. fields' = fields /\ published' = published
    BY DEF ReviewAction
  <1>4. review[x] \notin {"absent", "completed"} /\ s \notin {"absent"}
    BY <1>2 DEF ReviewMoves
  <1>5. CASE job[q].action = "approve"
    <2>1. review[x] = "in_review" /\ s = "approved"
      BY <1>2, <1>5 DEF ReviewMoves
    <2>2. decisions[x] = {}
      BY <2>1 DEF ApprovedUnchanged
    <2>3. Cardinality({}) = 0
      BY FS_EmptySet
    <2>4. decisions' = [decisions EXCEPT ![x] = {<<0, fields[x]>>}]
      BY <1>1, <1>5, <2>2, <2>3 DEF ReviewAction
    <2> QED
      BY <1>2, <1>3, <2>1, <2>4 DEF ApprovedUnchanged, ReviewStates
  <1>6. CASE job[q].action # "approve"
    <2>1. decisions' = decisions
      BY <1>6 DEF ReviewAction
    <2>2. /\ s \in {"active", "completed"} => review[x] \in {"approved", "active"}
          /\ s \in {"draft", "in_review"} => review[x] \in {"draft", "in_review"}
          /\ s # "approved"
          /\ s = "completed" => job[q].action = "complete"
      BY <1>2, <1>6 DEF ReviewMoves
    <2>3. x \notin published
      BY <1>4 DEF ApprovedUnchanged
    <2>4. s = "completed" => x \notin Contents
      BY <1>1, <2>2, <2>3
    <2>5. /\ s \in {"approved", "active", "completed"} => decisions[x] = {<<0, fields[x]>>}
          /\ s \in {"absent", "draft", "in_review"} => decisions[x] = {}
      BY <1>4, <2>2 DEF ApprovedUnchanged
    <2>6. ApprovedUnchanged'
      BY <1>2, <1>3, <2>1, <2>3, <2>4, <2>5 DEF ApprovedUnchanged
    <2> QED
      BY <1>2, <1>3, <2>1, <2>6
  <1> QED
    BY <1>5, <1>6

(* For contents and plain records, with the types of what is written. *)
LEMMA ContentRowsKept ==
  ASSUME ContentInv, NEW q \in Requests, SaveFields(q) \/ ReviewAction(q),
         ContentAllowed(job[q]), job[q] \in ContentJobs
  PROVE  /\ review' \in [Reviewables -> ReviewStates]
         /\ fields' \in [Reviewables -> Versions \cup {None}]
         /\ decisions' \in [Reviewables -> SUBSET (Nat \X (Versions \cup {None}))]
         /\ ApprovedUnchanged'
  <1>1. ReviewedRows /\ ApprovedUnchanged
    BY DEF ContentInv, ContentTypeOK, ReviewedRows
  <1>2. /\ job[q].object \in Reviewables
        /\ job[q].action \in {"create", "edit"} => job[q].fields \in Versions
        /\ job[q].action # "publication"
    BY DEF SaveFields, ReviewAction, Doing, ContentJobs, ReviewJobs, ReviewActions
  <1>3. /\ ReviewAllowed(job[q])
        /\ job[q].action = "complete" => job[q].object \notin Contents \ published
    BY <1>2 DEF ContentAllowed
  <1>4. ReviewedRows' /\ ApprovedUnchanged'
    BY <1>1, <1>2, <1>3, SaveKeepsApproved, ActionKeepsApproved
  <1>5. fields' \in [Reviewables -> Versions \cup {None}]
    BY <1>2 DEF SaveFields, ReviewAction, Doing, ContentInv, ContentTypeOK
  <1>6. decisions' \in [Reviewables -> SUBSET (Nat \X (Versions \cup {None}))]
    <2>1. CASE SaveFields(q) \/ job[q].action # "approve"
      BY <2>1 DEF SaveFields, ReviewAction, ContentInv, ContentTypeOK
    <2>2. CASE ReviewAction(q) /\ job[q].action = "approve"
      <3>1. review[job[q].object] = "in_review"
        BY <2>2 DEF ReviewAction, ReviewMoves
      <3>2. Cardinality(decisions[job[q].object]) = 0
        BY <1>1, <1>2, <3>1, FS_EmptySet DEF ApprovedUnchanged
      <3>3. decisions' = [decisions EXCEPT ![job[q].object] = @ \cup {<<0, fields[job[q].object]>>}]
        BY <2>2, <3>2 DEF ReviewAction
      <3> QED
        BY <1>2, <3>3 DEF ContentInv, ContentTypeOK
    <2> QED
      BY <2>1, <2>2
  <1> QED
    BY <1>4, <1>5, <1>6 DEF ReviewedRows

LEMMA ContentCommitKeeps ==
  ASSUME ContentInv, NEW q \in Requests, ContentCommit(q) \/ ContentRollback(q)
  PROVE  ContentInv'
  <1> USE DEF ContentInv
  <1>1. End(q)
    BY DEF ContentCommit, ContentRollback
  <1>2. /\ job[q] \in ContentJobs
        /\ job' \in [Requests -> ContentJobs \cup {None}]
        /\ \A r \in Requests : job'[r] = None
    BY <1>1, EndLeavesNobody DEF ContentTypeOK
  <1>3. Alone' /\ ContentStillAllowed'
    BY <1>2 DEF Alone, ContentStillAllowed
  <1>4. ContentAllowed(job[q])
    BY <1>1 DEF End, ContentStillAllowed
  <1>5. CASE SaveFields(q)
    BY <1>2, <1>3, <1>4, <1>5, ContentRowsKept DEF SaveFields, ContentTypeOK
  <1>6. CASE ReviewAction(q)
    BY <1>2, <1>3, <1>4, <1>6, ContentRowsKept DEF ReviewAction, ContentTypeOK
  <1>7. CASE RegisterPublication(q)
    <2>1. PICK x \in Contents : x = job[q].object
      BY <1>2, <1>7 DEF RegisterPublication, Doing, ContentJobs, ReviewJobs, ReviewActions
    <2>2. review[x] \in {"approved", "active"}
      BY <1>4, <1>7, <2>1 DEF RegisterPublication, Doing, ContentAllowed
    <2>3. /\ review' = [review EXCEPT ![x] = "completed"] /\ published' = published \cup {x}
          /\ fields' = fields /\ decisions' = decisions
      BY <1>7, <2>1 DEF RegisterPublication
    <2>4. ContentTypeOK' /\ ApprovedUnchanged'
      BY <1>2, <2>1, <2>2, <2>3, ReviewAssumption
      DEF ContentTypeOK, ApprovedUnchanged, ReviewStates
    <2> QED
      BY <1>3, <2>4
  <1>8. CASE ContentRollback(q)
    BY <1>2, <1>3, <1>8 DEF ContentRollback, reviewRows, ContentTypeOK, ApprovedUnchanged
  <1> QED
    BY <1>5, <1>6, <1>7, <1>8 DEF ContentCommit

LEMMA ContentInvStep == ContentInv /\ [ContentNext]_reviewVars => ContentInv'
  <1>1. SUFFICES ASSUME ContentInv, [ContentNext]_reviewVars PROVE ContentInv'
    OBVIOUS
  <1>2. CASE UNCHANGED reviewVars
    BY <1>1, <1>2 DEF ContentInv, reviewVars, reviewRows, ContentTypeOK, Alone,
       ContentStillAllowed, ApprovedUnchanged, ContentAllowed, ReviewAllowed, InDraft
  <1>3. CASE ContentNext
    BY <1>1, <1>3, ContentEnterKeeps, ContentCommitKeeps DEF ContentNext
  <1> QED
    BY <1>1, <1>2, <1>3

(* What is carried out, completed or published is what was approved, for    *)
(* any number of records and requests (review_action, publication).        *)
THEOREM ApprovalStands == ContentSpec => []ApprovedUnchanged
  <1>1. ContentInv => ApprovedUnchanged
    BY DEF ContentInv
  <1> QED
    BY <1>1, ContentInvInit, ContentInvStep, PTL DEF ContentSpec

-----------------------------------------------------------------------------
(* Bookings, trips and shifts. *)
BookingStillAllowed == \A q \in Requests : job[q] # None => BookingAllowed(job[q])

(* What exists has the columns of its own form. *)
Filled ==
  /\ \A b \in AssetBookings : custody[b] # "absent" => booking[b] \in BookingForms
  /\ \A t \in Trips : review[t] # "absent" => fields[t] \in TripForms
  /\ \A s \in Shifts : review[s] # "absent" => fields[s] \in ShiftForms

BookingInv == BookingTypeOK /\ Alone /\ BookingStillAllowed /\ Filled /\ NoDoubleUse

LEMMA OverlapSymmetric ==
  ASSUME NEW f \in BookingForms \cup TripForms \cup ShiftForms,
         NEW g \in BookingForms \cup TripForms \cup ShiftForms
  PROVE  Overlap(f, g) <=> Overlap(g, f)
  BY BookingAssumption DEF Overlap

(* Fewer uses, with the columns they had, are still apart. *)
LEMMA FewerUses ==
  ASSUME NoDoubleUse,
         HeldBookings' \subseteq HeldBookings,
         RunningTrips' \subseteq RunningTrips, RunningShifts' \subseteq RunningShifts,
         \A b \in HeldBookings' : booking'[b] = booking[b],
         \A x \in RunningTrips' \cup RunningShifts' : fields'[x] = fields[x]
  PROVE  NoDoubleUse'
  BY DEF NoDoubleUse, Overlap

LEMMA BookingInvInit == BookingInit => BookingInv
  <1>1. SUFFICES ASSUME BookingInit PROVE BookingInv
    OBVIOUS
  <1>2. BookingTypeOK /\ Alone /\ BookingStillAllowed /\ Filled
    BY <1>1, BookingAssumption
    DEF BookingInit, ContentInit, ReviewInit, DeskInit, BookingTypeOK, ReviewStates,
        CustodyStates, Alone, BookingStillAllowed, Filled
  <1>3. HeldBookings = {} /\ RunningTrips = {} /\ RunningShifts = {}
    BY <1>1, BookingAssumption
    DEF BookingInit, ContentInit, ReviewInit, HeldBookings, RunningTrips, RunningShifts,
        Held, Running
  <1> QED
    BY <1>2, <1>3 DEF BookingInv, NoDoubleUse

LEMMA BookingEnterKeeps ==
  ASSUME BookingInv, NEW q \in Requests, NEW j \in BookingJobs, BookingEnter(q, j)
  PROVE  BookingInv'
  <1> USE DEF BookingInv
  <1>1. /\ job' \in [Requests -> BookingJobs \cup {None}]
        /\ \A r \in Requests : job'[r] \in {j, None}
        /\ Alone'
    BY BeginsAlone DEF BookingEnter, BookingTypeOK
  <1>2. BookingAllowed(j) /\ UNCHANGED <<review, fields, custody, booking>>
    BY DEF BookingEnter, bookingRows, reviewRows
  <1>3. BookingAllowed(j)'
    BY <1>2 DEF BookingAllowed, ReviewAllowed, InDraft, BookingFree, TripFree, ShiftFree, Overlap,
                HeldBookings, RunningTrips, RunningShifts
  <1>4. BookingStillAllowed'
    BY <1>1, <1>3 DEF BookingStillAllowed
  <1>5. BookingTypeOK' /\ Filled'
    BY <1>1, <1>2 DEF BookingTypeOK, Filled
  <1>6. NoDoubleUse'
    BY <1>2, FewerUses DEF HeldBookings, RunningTrips, RunningShifts
  <1> QED
    BY <1>1, <1>4, <1>5, <1>6

(* A booking that is saved is apart from all that is held and runs. *)
LEMMA SaveBookingKeeps ==
  ASSUME BookingInv, NEW q \in Requests, SaveBooking(q), BookingAllowed(job[q]),
         job[q] \in BookingJobs
  PROVE  /\ custody' \in [AssetBookings -> CustodyStates]
         /\ booking' \in [AssetBookings -> BookingForms \cup {None}]
         /\ Filled' /\ NoDoubleUse'
  <1> USE DEF BookingInv, BookingTypeOK
  <1>1. PICK b \in AssetBookings, f \in BookingForms : b = job[q].object /\ f = job[q].fields
    BY DEF SaveBooking, Doing, BookingJobs, ReviewJobs, ReviewActions
  <1>2. /\ custody' = [custody EXCEPT ![b] = "reserved"]
        /\ booking' = [booking EXCEPT ![b] = f]
        /\ review' = review /\ fields' = fields
    BY <1>1 DEF SaveBooking, reviewRows
  <1>3. BookingFree(b, f)
    BY <1>1 DEF SaveBooking, Doing, BookingAllowed
  <1>4. HeldBookings' \subseteq HeldBookings \cup {b}
    BY <1>2 DEF HeldBookings
  <1>5. RunningTrips' = RunningTrips /\ RunningShifts' = RunningShifts
    BY <1>2 DEF RunningTrips, RunningShifts
  <1>6. \A c \in HeldBookings \ {b} : booking'[c] = booking[c] /\ booking[c] \in BookingForms
    BY <1>2 DEF HeldBookings, Held, Filled
  <1>7. \A t \in RunningTrips : fields[t] \in TripForms
    BY DEF RunningTrips, Running, Filled
  <1>8. booking'[b] = f
    BY <1>1, <1>2
  <1>9. \A c \in HeldBookings \ {b} :
          booking[c].asset = f.asset => ~Overlap(booking[c], f) /\ ~Overlap(f, booking[c])
    BY <1>3, <1>6, OverlapSymmetric DEF BookingFree
  <1>10. \A t \in RunningTrips : fields[t].vehicle = f.asset => ~Overlap(f, fields[t])
    BY <1>3, <1>7, OverlapSymmetric DEF BookingFree
  <1>11. \A c, d \in HeldBookings' :
           c # d /\ booking'[c].asset = booking'[d].asset => ~Overlap(booking'[c], booking'[d])
    BY <1>4, <1>6, <1>8, <1>9 DEF NoDoubleUse
  <1>12. \A c \in HeldBookings', t \in RunningTrips :
           booking'[c].asset = fields[t].vehicle => ~Overlap(booking'[c], fields[t])
    BY <1>4, <1>6, <1>8, <1>10 DEF NoDoubleUse
  <1>13. NoDoubleUse'
    BY <1>2, <1>5, <1>11, <1>12 DEF NoDoubleUse, Overlap
  <1> QED
    BY <1>1, <1>2, <1>13 DEF Filled, CustodyStates

LEMMA BookingActionKeeps ==
  ASSUME BookingInv, NEW q \in Requests, BookingAction(q), job[q] \in BookingJobs
  PROVE  /\ custody' \in [AssetBookings -> CustodyStates]
         /\ Filled' /\ NoDoubleUse'
  <1> USE DEF BookingInv, BookingTypeOK
  <1>1. PICK b \in AssetBookings : b = job[q].object
    BY DEF BookingAction, Doing, BookingJobs, ReviewJobs, ReviewActions
  <1>2. PICK s \in CustodyStates : /\ <<custody[b], job[q].action, s>> \in CustodyMoves
                                   /\ custody' = [custody EXCEPT ![b] = s]
    BY <1>1 DEF BookingAction
  <1>3. custody[b] \in Held
    BY <1>2 DEF CustodyMoves, Held
  <1>4. UNCHANGED <<booking, review, fields>>
    BY DEF BookingAction, reviewRows
  <1>5. Filled'
    BY <1>2, <1>3, <1>4 DEF Filled, Held
  <1>6. HeldBookings' \subseteq HeldBookings
    BY <1>2, <1>3 DEF HeldBookings
  <1>7. RunningTrips' = RunningTrips /\ RunningShifts' = RunningShifts
    BY <1>4 DEF RunningTrips, RunningShifts
  <1>8. NoDoubleUse'
    BY <1>4, <1>6, <1>7, FewerUses
  <1> QED
    BY <1>2, <1>5, <1>8

(* What a request about a reviewable record is about. *)
LEMMA ReviewJobTypes ==
  ASSUME NEW j \in BookingJobs, j.action \in ReviewActions \cup {"create", "edit"}
  PROVE  /\ j.object \in Events \cup Trips \cup Shifts
         /\ j.action \in {"create", "edit"} =>
              /\ j.fields \in TripForms \cup ShiftForms \cup {None}
              /\ j.object \in Trips => j.fields \in TripForms
              /\ j.object \in Shifts => j.fields \in ShiftForms
  BY BookingAssumption DEF BookingJobs, ReviewJobs, ReviewActions

(* Forms change drafts, and a draft uses nothing. *)
LEMMA SaveTripKeeps ==
  ASSUME BookingInv, NEW q \in Requests, ReviewBooked(q), SaveFields(q),
         BookingAllowed(job[q]), job[q] \in BookingJobs
  PROVE  /\ review' \in [Reviewables -> ReviewStates]
         /\ fields' \in [Reviewables -> TripForms \cup ShiftForms \cup {None}]
         /\ custody' = custody
         /\ Filled' /\ NoDoubleUse'
  <1> USE DEF BookingInv, BookingTypeOK
  <1>1. job[q].action \in {"create", "edit"}
    BY DEF SaveFields, Doing
  <1>2. PICK x \in Events \cup Trips \cup Shifts : x = job[q].object
    BY <1>1, ReviewJobTypes
  <1>3. /\ review' = [review EXCEPT ![x] = IF job[q].action = "create" THEN "draft" ELSE @]
        /\ fields' = [fields EXCEPT ![x] = job[q].fields]
    BY <1>2 DEF SaveFields
  <1>4. review[x] \in {"absent", "draft"} /\ review'[x] = "draft"
    BY <1>1, <1>2, <1>3, BookingAssumption DEF BookingAllowed, ReviewAllowed, InDraft
  <1>5. custody' = custody /\ booking' = booking
    <2>1. \A b \in AssetBookings : custody'[b] = custody[b]
      BY <1>1 DEF ReviewBooked
    <2>2. custody' = [b \in AssetBookings |-> custody'[b]] /\ booking' = booking
      BY DEF ReviewBooked
    <2> QED
      BY <2>1, <2>2
  <1>6. RunningTrips' \subseteq RunningTrips \ {x} /\ RunningShifts' \subseteq RunningShifts \ {x}
    BY <1>3, <1>4, BookingAssumption DEF RunningTrips, RunningShifts, Running
  <1>7. NoDoubleUse'
    <2>1. \A y \in RunningTrips' \cup RunningShifts' : fields'[y] = fields[y]
      BY <1>3, <1>6
    <2>2. HeldBookings' = HeldBookings
      BY <1>5 DEF HeldBookings
    <2> QED
      BY <1>5, <1>6, <2>1, <2>2, FewerUses
  <1>8. Filled'
    BY <1>1, <1>2, <1>3, <1>5, ReviewJobTypes, BookingAssumption DEF Filled
  <1> QED
    BY <1>1, <1>2, <1>3, <1>5, <1>7, <1>8, ReviewJobTypes, BookingAssumption DEF ReviewStates

(* A trip or a shift comes into use when nothing else uses the same. *)
LEMMA ReviewBookedKeeps ==
  ASSUME BookingInv, NEW q \in Requests, ReviewBooked(q), ReviewAction(q),
         BookingAllowed(job[q]), job[q] \in BookingJobs
  PROVE  /\ review' \in [Reviewables -> ReviewStates]
         /\ fields' = fields
         /\ custody' \in [AssetBookings -> CustodyStates]
         /\ Filled' /\ NoDoubleUse'
  <1> USE DEF BookingInv, BookingTypeOK
  <1>1. job[q].action \in ReviewActions
    BY DEF ReviewAction, Doing
  <1>2. PICK x \in Events \cup Trips \cup Shifts : x = job[q].object
    BY <1>1, ReviewJobTypes
  <1>3. PICK s \in ReviewStates : /\ <<review[x], job[q].action, s>> \in ReviewMoves
                                  /\ review' = [review EXCEPT ![x] = s]
    BY <1>2 DEF ReviewAction
  <1>4. fields' = fields /\ booking' = booking
    BY DEF ReviewAction, ReviewBooked
  <1>5. \A b \in AssetBookings :
          custody'[b] = custody[b] \/ (custody[b] = "reserved" /\ custody'[b] = "cancelled")
    BY DEF ReviewBooked
  <1>6. custody' \in [AssetBookings -> CustodyStates]
    <2>1. custody' = [b \in AssetBookings |-> custody'[b]]
      BY DEF ReviewBooked
    <2> QED
      BY <1>5, <2>1 DEF CustodyStates
  <1>7. HeldBookings' \subseteq HeldBookings
    BY <1>5 DEF HeldBookings, Held
  <1>8. review[x] # "absent"
    BY <1>3 DEF ReviewMoves
  <1>9. Filled'
    BY <1>3, <1>4, <1>5, <1>8, BookingAssumption DEF Filled
  <1>10. CASE s \notin Running
    <2>1. RunningTrips' \subseteq RunningTrips /\ RunningShifts' \subseteq RunningShifts
      BY <1>3, <1>10, BookingAssumption DEF RunningTrips, RunningShifts
    <2> QED
      BY <1>3, <1>4, <1>6, <1>7, <1>9, <2>1, FewerUses DEF HeldBookings
  <1>11. CASE s \in Running
    <2>1. job[q].action \in {"approve", "start"}
      BY <1>3, <1>11 DEF ReviewMoves, Running
    <2>2. (x \in Trips => TripFree(x)) /\ (x \in Shifts => ShiftFree(x))
      BY <1>2, <2>1 DEF BookingAllowed
    <2>3. /\ RunningTrips' \subseteq RunningTrips \cup ({x} \cap Trips)
          /\ RunningShifts' \subseteq RunningShifts \cup ({x} \cap Shifts)
      BY <1>3, BookingAssumption DEF RunningTrips, RunningShifts
    <2>4. /\ \A t \in RunningTrips : fields[t] \in TripForms
          /\ \A t \in RunningShifts : fields[t] \in ShiftForms
          /\ x \in Trips => fields[x] \in TripForms
          /\ x \in Shifts => fields[x] \in ShiftForms
          /\ \A b \in HeldBookings : booking[b] \in BookingForms
      BY <1>8, BookingAssumption
      DEF RunningTrips, RunningShifts, Running, Filled, HeldBookings, Held
    <2>5. x \in Trips =>
            \A u \in RunningTrips \ {x} :
              fields[u].vehicle = fields[x].vehicle \/ fields[u].driver = fields[x].driver
                => ~Overlap(fields[u], fields[x]) /\ ~Overlap(fields[x], fields[u])
      BY <2>2, <2>4, OverlapSymmetric DEF TripFree
    <2>6. x \in Trips =>
            \A b \in HeldBookings :
              booking[b].asset = fields[x].vehicle => ~Overlap(booking[b], fields[x])
      BY <2>2 DEF TripFree
    <2>7. x \in Shifts =>
            \A u \in RunningShifts \ {x} :
              fields[u].responsible = fields[x].responsible /\ fields[x].responsible # None
                => ~Overlap(fields[u], fields[x]) /\ ~Overlap(fields[x], fields[u])
      BY <2>2, <2>4, OverlapSymmetric DEF ShiftFree
    <2>8. \A b \in HeldBookings, t \in RunningTrips' :
            booking[b].asset = fields[t].vehicle => ~Overlap(booking[b], fields[t])
      BY <2>3, <2>6 DEF NoDoubleUse
    <2>9. \A t, u \in RunningTrips' :
            t # u /\ (fields[t].vehicle = fields[u].vehicle \/ fields[t].driver = fields[u].driver)
              => ~Overlap(fields[t], fields[u])
      BY <2>3, <2>5 DEF NoDoubleUse
    <2>10. \A t, u \in RunningShifts' :
             t # u /\ fields[t].responsible = fields[u].responsible /\ fields[t].responsible # None
               => ~Overlap(fields[t], fields[u])
      BY <2>3, <2>7 DEF NoDoubleUse
    <2>11. NoDoubleUse'
      BY <1>4, <1>7, <2>8, <2>9, <2>10 DEF NoDoubleUse, Overlap
    <2> QED
      BY <1>3, <1>4, <1>6, <1>9, <2>11
  <1> QED
    BY <1>10, <1>11

LEMMA BookingCommitKeeps ==
  ASSUME BookingInv, NEW q \in Requests,
         SaveBooking(q) \/ BookingAction(q) \/ ReviewBooked(q) \/ BookingRollback(q)
  PROVE  BookingInv'
  <1> USE DEF BookingInv
  <1>1. End(q)
    BY DEF SaveBooking, BookingAction, ReviewBooked, BookingRollback
  <1>2. /\ job[q] \in BookingJobs
        /\ job' \in [Requests -> BookingJobs \cup {None}]
        /\ \A r \in Requests : job'[r] = None
    BY <1>1, EndLeavesNobody DEF BookingTypeOK
  <1>3. Alone' /\ BookingStillAllowed'
    BY <1>2 DEF Alone, BookingStillAllowed
  <1>4. BookingAllowed(job[q])
    BY <1>1 DEF End, BookingStillAllowed
  <1>5. CASE SaveBooking(q)
    <2>1. review' = review /\ fields' = fields
      BY <1>5 DEF SaveBooking, reviewRows
    <2> QED
      BY <1>2, <1>3, <1>4, <1>5, <2>1, SaveBookingKeeps DEF BookingTypeOK
  <1>6. CASE BookingAction(q)
    <2>1. review' = review /\ fields' = fields /\ booking' = booking
      BY <1>6 DEF BookingAction, reviewRows
    <2> QED
      BY <1>2, <1>3, <1>6, <2>1, BookingActionKeeps DEF BookingTypeOK
  <1>7. CASE ReviewBooked(q)
    <2>1. booking' = booking
      BY <1>7 DEF ReviewBooked
    <2>2. CASE SaveFields(q)
      BY <1>2, <1>3, <1>4, <1>7, <2>1, <2>2, SaveTripKeeps DEF BookingTypeOK
    <2>3. CASE ReviewAction(q)
      BY <1>2, <1>3, <1>4, <1>7, <2>1, <2>3, ReviewBookedKeeps DEF BookingTypeOK
    <2> QED
      BY <1>7, <2>2, <2>3 DEF ReviewBooked
  <1>8. CASE BookingRollback(q)
    <2>1. UNCHANGED <<review, fields, custody, booking>>
      BY <1>8 DEF BookingRollback, bookingRows, reviewRows
    <2>2. NoDoubleUse'
      BY <2>1, FewerUses DEF HeldBookings, RunningTrips, RunningShifts
    <2> QED
      BY <1>2, <1>3, <2>1, <2>2 DEF BookingTypeOK, Filled
  <1> QED
    BY <1>5, <1>6, <1>7, <1>8

LEMMA BookingInvStep == BookingInv /\ [BookingNext]_bookingVars => BookingInv'
  <1>1. SUFFICES ASSUME BookingInv, [BookingNext]_bookingVars PROVE BookingInv'
    OBVIOUS
  <1>2. CASE UNCHANGED bookingVars
    <2>1. UNCHANGED <<review, fields, custody, booking, job>>
      BY <1>2 DEF bookingVars, bookingRows, reviewRows
    <2>2. NoDoubleUse'
      BY <1>1, <2>1, FewerUses DEF BookingInv, HeldBookings, RunningTrips, RunningShifts
    <2>3. BookingStillAllowed'
      BY <1>1, <2>1
      DEF BookingInv, BookingStillAllowed, BookingAllowed, ReviewAllowed, InDraft, BookingFree,
          TripFree, ShiftFree, Overlap, HeldBookings, RunningTrips, RunningShifts
    <2> QED
      BY <1>1, <2>1, <2>2, <2>3 DEF BookingInv, BookingTypeOK, Alone, Filled
  <1>3. CASE BookingNext
    BY <1>1, <1>3, BookingEnterKeeps, BookingCommitKeeps DEF BookingNext
  <1> QED
    BY <1>1, <1>2, <1>3

(* Nothing and nobody is used twice at a time, for any number of assets,    *)
(* bookings, trips, shifts and requests and for any periods                *)
(* (validate_booking under the campaign's row).                            *)
THEOREM UsesApart == BookingSpec => []NoDoubleUse
  <1>1. BookingInv => NoDoubleUse
    BY DEF BookingInv
  <1> QED
    BY <1>1, BookingInvInit, BookingInvStep, PTL DEF BookingSpec

(* Events, trips and shifts are what was approved, too. *)
BookedAsApproved == BookingInv /\ ReviewedRows /\ ApprovedUnchanged

LEMMA ApprovedAtFirst == ReviewInit => ReviewedRows /\ ApprovedUnchanged
  BY DEF ReviewInit, ReviewedRows, ReviewStates, ApprovedUnchanged

LEMMA SameApproved ==
  ASSUME ReviewedRows, ApprovedUnchanged, UNCHANGED reviewRows
  PROVE  ReviewedRows' /\ ApprovedUnchanged'
  BY DEF ReviewedRows, ApprovedUnchanged, reviewRows

LEMMA BookedStep == BookedAsApproved /\ [BookingNext]_bookingVars => BookedAsApproved'
  <1>1. SUFFICES ASSUME BookedAsApproved, [BookingNext]_bookingVars
                 PROVE  ReviewedRows' /\ ApprovedUnchanged'
    BY BookingInvStep DEF BookedAsApproved
  <1>2. ASSUME NEW q \in Requests, ReviewBooked(q)
        PROVE  ReviewedRows' /\ ApprovedUnchanged'
    <2>1. job[q] \in BookingJobs /\ BookingAllowed(job[q])
      BY <1>1, <1>2 DEF BookedAsApproved, BookingInv, BookingTypeOK, BookingStillAllowed,
                        ReviewBooked, End
    <2>2. job[q].action \in ReviewActions \cup {"create", "edit"}
      BY <1>2 DEF ReviewBooked, SaveFields, ReviewAction, Doing
    <2>3. job[q].object \in Reviewables \ Contents
      BY <2>1, <2>2, ReviewJobTypes, BookingAssumption
    <2>4. ReviewAllowed(job[q])
      BY <2>1 DEF BookingAllowed
    <2> QED
      BY <1>1, <1>2, <2>3, <2>4, SaveKeepsApproved, ActionKeepsApproved
      DEF ReviewBooked, BookedAsApproved
  <1>3. ASSUME \/ \E q \in Requests : \/ \E j \in BookingJobs : BookingEnter(q, j)
                                      \/ SaveBooking(q) \/ BookingAction(q) \/ BookingRollback(q)
               \/ UNCHANGED bookingVars
        PROVE  ReviewedRows' /\ ApprovedUnchanged'
    <2>1. UNCHANGED reviewRows
      BY <1>3 DEF BookingEnter, SaveBooking, BookingAction, BookingRollback, bookingVars, bookingRows
    <2> QED
      BY <1>1, <2>1, SameApproved DEF BookedAsApproved
  <1> QED
    BY <1>1, <1>2, <1>3 DEF BookingNext

(* An event, trip or shift that is carried out is the one that was          *)
(* approved, for any number of them and of requests.                       *)
THEOREM BookedApprovalStands == BookingSpec => []ApprovedUnchanged
  <1>1. BookingInit => BookedAsApproved
    BY BookingInvInit, ApprovedAtFirst DEF BookedAsApproved, BookingInit, ContentInit
  <1>2. BookedAsApproved => ApprovedUnchanged
    BY DEF BookedAsApproved
  <1> QED
    BY <1>1, <1>2, BookedStep, PTL DEF BookingSpec

-----------------------------------------------------------------------------
(* Field work. *)
FieldStillAllowed == \A q \in Requests : job[q] # None => FieldAllowed(job[q])

(* An assignment that exists has its place, an activity its fields. *)
Posted ==
  /\ \A a \in Assignments : duty[a] # "absent" => place[a] \in Places
  /\ \A x \in Activities : review[x] # "absent" => fields[x] \in ActivityForms

FieldInv == FieldTypeOK /\ Alone /\ FieldStillAllowed /\ Posted /\ StaffAvailable

(* Fewer assignments, if what they rest on is as it was, can be kept. *)
LEMMA FewerDuties ==
  ASSUME StaffAvailable,
         LiveAssignments' \subseteq LiveAssignments, place' = place,
         \A a \in LiveAssignments' : /\ staff'[place[a].worker] = "active"
                                    /\ review'[place[a].activity] \in Open
                                    /\ fields'[place[a].activity] = fields[place[a].activity],
         trained \subseteq trained'
  PROVE  StaffAvailable'
  BY DEF StaffAvailable, AtTheSameTime

LEMMA FieldInvInit == FieldInit => FieldInv
  <1>1. SUFFICES ASSUME FieldInit PROVE FieldInv
    OBVIOUS
  <1>2. FieldTypeOK /\ Alone /\ FieldStillAllowed /\ Posted
    BY <1>1, FieldAssumption
    DEF FieldInit, ContentInit, ReviewInit, DeskInit, FieldTypeOK, ReviewStates, DutyStates,
        Alone, FieldStillAllowed, Posted
  <1>3. LiveAssignments = {}
    BY <1>1 DEF FieldInit, LiveAssignments, Live
  <1> QED
    BY <1>2, <1>3 DEF FieldInv, StaffAvailable

LEMMA FieldEnterKeeps ==
  ASSUME FieldInv, NEW q \in Requests, NEW j \in FieldJobs, FieldEnter(q, j)
  PROVE  FieldInv'
  <1> USE DEF FieldInv
  <1>1. /\ job' \in [Requests -> FieldJobs \cup {None}]
        /\ \A r \in Requests : job'[r] \in {j, None}
        /\ Alone'
    BY BeginsAlone DEF FieldEnter, FieldTypeOK
  <1>2. FieldAllowed(j) /\ UNCHANGED <<review, fields, staff, trained, duty, place>>
    BY DEF FieldEnter, fieldRows, reviewRows
  <1>3. FieldAllowed(j)'
    BY <1>2 DEF FieldAllowed, ReviewAllowed, InDraft, AssignmentFits, ActivityMayEnd, StaffOf,
                DutiesOf, LiveAssignments, AtTheSameTime
  <1>4. FieldStillAllowed'
    BY <1>1, <1>3 DEF FieldStillAllowed
  <1>5. FieldTypeOK' /\ Posted' /\ StaffAvailable'
    BY <1>1, <1>2 DEF FieldTypeOK, Posted, StaffAvailable, LiveAssignments, AtTheSameTime
  <1> QED
    BY <1>1, <1>4, <1>5

LEMMA WorkerKeeps ==
  ASSUME FieldInv, NEW q \in Requests, WorkerAction(q), FieldAllowed(job[q]),
         job[q] \in FieldJobs
  PROVE  FieldTypeOK' /\ Posted' /\ StaffAvailable'
  <1> USE DEF FieldInv
  <1>1. job' \in [Requests -> FieldJobs \cup {None}]
    BY DEF WorkerAction, End, FieldTypeOK
  <1>2. job[q].action \in {"hire", "train", "pause", "resume"}
    BY DEF WorkerAction, Doing
  <1>3. PICK w \in Workers : w = job[q].object
    BY <1>2 DEF FieldJobs, ReviewJobs, ReviewActions
  <1>4. /\ staff' \in [Workers -> {"absent", "active", "paused"}]
        /\ \A v \in Workers : staff[v] = "active" => staff'[v] = "active" \/ DutiesOf(v) = {}
    <2>1. CASE job[q].action \in {"hire", "resume"}
      BY <1>3, <2>1 DEF WorkerAction, FieldTypeOK
    <2>2. CASE job[q].action = "pause"
      BY <1>3, <2>2 DEF WorkerAction, FieldTypeOK, FieldAllowed
    <2>3. CASE job[q].action = "train"
      BY <1>3, <2>3 DEF WorkerAction, FieldTypeOK
    <2> QED
      BY <1>2, <2>1, <2>2, <2>3
  <1>5. trained' \subseteq Workers /\ trained \subseteq trained'
    BY <1>3 DEF WorkerAction, FieldTypeOK
  <1>6. UNCHANGED <<review, fields, duty, place>>
    BY DEF WorkerAction, reviewRows
  <1>7. LiveAssignments' = LiveAssignments
    BY <1>6 DEF LiveAssignments
  <1>8. \A a \in LiveAssignments : place[a] \in Places
    BY DEF LiveAssignments, Live, Posted
  <1>9. \A a \in LiveAssignments : staff'[place[a].worker] = "active"
    BY <1>4, <1>8 DEF StaffAvailable, DutiesOf, Places
  <1>10. StaffAvailable'
    BY <1>5, <1>6, <1>7, <1>9, FewerDuties DEF StaffAvailable
  <1> QED
    BY <1>1, <1>4, <1>5, <1>6, <1>10 DEF FieldTypeOK, Posted

LEMMA AtTheSameTimeSymmetric ==
  ASSUME NEW x, NEW y, fields[x] \in ActivityForms, fields[y] \in ActivityForms
  PROVE  AtTheSameTime(x, y) <=> AtTheSameTime(y, x)
  BY FieldAssumption DEF AtTheSameTime

LEMMA SaveAssignmentKeeps ==
  ASSUME FieldInv, NEW q \in Requests, SaveAssignment(q), FieldAllowed(job[q]),
         job[q] \in FieldJobs
  PROVE  FieldTypeOK' /\ Posted' /\ StaffAvailable'
  <1> USE DEF FieldInv
  <1>1. job' \in [Requests -> FieldJobs \cup {None}]
    BY DEF SaveAssignment, End, FieldTypeOK
  <1>2. PICK a \in Assignments, p \in Places : a = job[q].object /\ p = job[q].to
    BY DEF SaveAssignment, Doing, FieldJobs, ReviewJobs, ReviewActions
  <1>3. /\ duty' = [duty EXCEPT ![a] = "scheduled"] /\ place' = [place EXCEPT ![a] = p]
        /\ UNCHANGED <<review, fields, staff, trained>>
    BY <1>2 DEF SaveAssignment, reviewRows
  <1>4. AssignmentFits(a, p)
    BY <1>2 DEF SaveAssignment, Doing, FieldAllowed
  <1>5. FieldTypeOK' /\ Posted'
    BY <1>1, <1>2, <1>3 DEF FieldTypeOK, Posted, DutyStates
  <1>6. LiveAssignments' \subseteq LiveAssignments \cup {a}
    BY <1>3 DEF LiveAssignments
  <1>7. /\ \A b \in LiveAssignments \ {a} : place'[b] = place[b]
        /\ place'[a] = p
    BY <1>3 DEF LiveAssignments, FieldTypeOK
  <1>8. \A b \in LiveAssignments : place[b] \in Places /\ duty[b] # "absent"
    BY DEF LiveAssignments, Live, Posted
  <1>9. \A b \in LiveAssignments' :
          /\ staff[place'[b].worker] = "active"
          /\ review[place'[b].activity] \in Open
          /\ place'[b].worker \in trained \/ fields[place'[b].activity].training
    BY <1>4, <1>6, <1>7 DEF StaffAvailable, AssignmentFits
  <1>10. ASSUME NEW b \in LiveAssignments \ {a}, place[b].worker = p.worker
         PROVE  /\ place[b].activity # p.activity
                /\ ~AtTheSameTime(place[b].activity, p.activity)
                /\ ~AtTheSameTime(p.activity, place[b].activity)
    <2>1. ~AtTheSameTime(place[b].activity, p.activity)
      BY <1>4, <1>10 DEF AssignmentFits, DutiesOf
    <2>2. place[b] # p
      BY <1>4, <1>8, <1>10 DEF AssignmentFits, LiveAssignments
    <2>3. place[b].activity # p.activity
      BY <1>8, <1>10, <2>2 DEF Places
    <2>4. fields[place[b].activity] \in ActivityForms /\ fields[p.activity] \in ActivityForms
      BY <1>4, <1>8 DEF StaffAvailable, AssignmentFits, Posted, Places, Open
    <2>5. ~AtTheSameTime(p.activity, place[b].activity)
      BY <2>1, <2>4, AtTheSameTimeSymmetric
    <2> QED
      BY <2>1, <2>3, <2>5
  <1>11. \A b, c \in LiveAssignments' :
           b # c /\ place'[b].worker = place'[c].worker
             => /\ place'[b].activity # place'[c].activity
                /\ ~AtTheSameTime(place'[b].activity, place'[c].activity)
    BY <1>6, <1>7, <1>10 DEF StaffAvailable
  <1>12. StaffAvailable'
    BY <1>3, <1>9, <1>11 DEF StaffAvailable, AtTheSameTime
  <1> QED
    BY <1>5, <1>12

LEMMA AssignmentActionKeeps ==
  ASSUME FieldInv, NEW q \in Requests, AssignmentAction(q), job[q] \in FieldJobs
  PROVE  FieldTypeOK' /\ Posted' /\ StaffAvailable'
  <1> USE DEF FieldInv
  <1>1. job' \in [Requests -> FieldJobs \cup {None}]
    BY DEF AssignmentAction, End, FieldTypeOK
  <1>2. PICK a \in Assignments : a = job[q].object
    BY DEF AssignmentAction, Doing, FieldJobs, ReviewJobs, ReviewActions
  <1>3. PICK s \in DutyStates : /\ <<duty[a], job[q].action, s>> \in DutyMoves
                                /\ duty' = [duty EXCEPT ![a] = s]
    BY <1>2 DEF AssignmentAction
  <1>4. duty[a] \in Live
    BY <1>3 DEF DutyMoves, Live
  <1>5. UNCHANGED <<review, fields, staff, trained, place>>
    BY DEF AssignmentAction, reviewRows
  <1>6. LiveAssignments' \subseteq LiveAssignments
    BY <1>3, <1>4 DEF LiveAssignments
  <1>7. StaffAvailable'
    BY <1>5, <1>6, FewerDuties DEF StaffAvailable
  <1> QED
    BY <1>1, <1>3, <1>4, <1>5, <1>7 DEF FieldTypeOK, Posted, Live

(* What a request about an activity is about. *)
LEMMA ActivityJobTypes ==
  ASSUME NEW j \in FieldJobs, j.action \in ReviewActions \cup {"create", "edit"}
  PROVE  /\ j.object \in Activities
         /\ j.action \in {"create", "edit"} => j.fields \in ActivityForms
  BY DEF FieldJobs, ReviewJobs, ReviewActions

(* An activity changes, or leaves approval, only without live assignments. *)
LEMMA ReviewActivityKeeps ==
  ASSUME FieldInv, NEW q \in Requests, ReviewActivity(q), FieldAllowed(job[q]),
         job[q] \in FieldJobs
  PROVE  FieldTypeOK' /\ Posted' /\ StaffAvailable'
  <1> USE DEF FieldInv
  <1>1. job' \in [Requests -> FieldJobs \cup {None}]
    BY DEF ReviewActivity, End, FieldTypeOK
  <1>2. job[q].action \in ReviewActions \cup {"create", "edit"}
    BY DEF ReviewActivity, SaveFields, ReviewAction, Doing
  <1>3. PICK x \in Activities : x = job[q].object
    BY <1>2, ActivityJobTypes
  <1>4. /\ UNCHANGED <<staff, trained, place>>
        /\ duty' = [a \in Assignments |-> duty'[a]]
        /\ \A a \in Assignments :
             duty'[a] = duty[a] \/ (duty[a] \in {"scheduled", "confirmed"} /\ duty'[a] = "cancelled")
    BY DEF ReviewActivity
  <1>5. duty' \in [Assignments -> DutyStates] /\ LiveAssignments' \subseteq LiveAssignments
    BY <1>4 DEF FieldTypeOK, DutyStates, LiveAssignments, Live
  <1>6. \A a \in LiveAssignments : place[a] \in Places /\ duty[a] # "absent"
    BY DEF LiveAssignments, Live, Posted
  <1>7. CASE SaveFields(q)
    <2>1. job[q].action \in {"create", "edit"}
      BY <1>7 DEF SaveFields, Doing
    <2>2. /\ review' = [review EXCEPT ![x] = IF job[q].action = "create" THEN "draft" ELSE @]
          /\ fields' = [fields EXCEPT ![x] = job[q].fields]
          /\ job[q].fields \in ActivityForms
      BY <1>3, <1>7, <2>1, ActivityJobTypes DEF SaveFields
    <2>3. review[x] \in {"absent", "draft"}
      BY <1>3, <2>1 DEF FieldAllowed, ReviewAllowed, InDraft
    <2>4. \A a \in LiveAssignments : place[a].activity # x
      BY <2>3 DEF StaffAvailable, Open
    <2>5. StaffAvailable'
      BY <1>4, <1>5, <2>2, <2>4, FewerDuties, FieldAssumption DEF StaffAvailable, FieldTypeOK
    <2> QED
      BY <1>1, <1>3, <1>4, <1>5, <2>2, <2>5, FieldAssumption DEF FieldTypeOK, Posted, ReviewStates
  <1>8. CASE ReviewAction(q)
    <2>1. PICK s \in ReviewStates : /\ <<review[x], job[q].action, s>> \in ReviewMoves
                                    /\ review' = [review EXCEPT ![x] = s]
      BY <1>3, <1>8 DEF ReviewAction
    <2>2. fields' = fields
      BY <1>8 DEF ReviewAction
    <2>3. s \in Open \/ job[q].action \in {"complete", "cancel"} \/ review[x] \notin Open
      BY <2>1 DEF ReviewMoves, Open
    <2>4. s \in Open \/ \A a \in LiveAssignments' : place[a].activity # x
      <3>1. CASE job[q].action = "complete"
        BY <1>3, <1>5, <1>6, <3>1
        DEF FieldAllowed, ActivityMayEnd, StaffOf, LiveAssignments, Live
      <3>2. CASE job[q].action = "cancel"
        <4>1. SUFFICES ASSUME NEW a \in LiveAssignments', place[a].activity = x PROVE FALSE
          OBVIOUS
        <4>2. a \in StaffOf(x) /\ a \in LiveAssignments
          BY <1>5, <1>6, <4>1 DEF StaffOf, LiveAssignments
        <4>3. duty[a] \in {"scheduled", "confirmed"}
          BY <1>3, <3>2, <4>2 DEF FieldAllowed, ActivityMayEnd, LiveAssignments, Live
        <4>4. duty'[a] = "cancelled"
          BY <1>3, <3>2, <4>2, <4>3 DEF ReviewActivity, LiveAssignments
        <4> QED
          BY <4>1, <4>4 DEF LiveAssignments, Live
      <3>3. CASE review[x] \notin Open
        BY <1>5, <3>3 DEF StaffAvailable
      <3> QED
        BY <2>3, <3>1, <3>2, <3>3
    <2>5. StaffAvailable'
      <3>1. \A a \in LiveAssignments' : review'[place[a].activity] \in Open
        BY <1>5, <2>1, <2>4, FieldAssumption DEF StaffAvailable, FieldTypeOK
      <3> QED
        BY <1>4, <1>5, <2>2, <3>1, FewerDuties DEF StaffAvailable
    <2>6. review[x] # "absent"
      BY <2>1 DEF ReviewMoves
    <2>7. Posted'
      <3>1. \A a \in Assignments : duty'[a] # "absent" => place[a] \in Places
        BY <1>4 DEF Posted
      <3>2. \A y \in Activities : review'[y] # "absent" => fields[y] \in ActivityForms
        BY <2>1, <2>6, FieldAssumption DEF FieldTypeOK, Posted
      <3> QED
        BY <1>4, <2>2, <3>1, <3>2 DEF Posted
    <2> QED
      BY <1>1, <1>4, <1>5, <2>1, <2>2, <2>5, <2>7 DEF FieldTypeOK
  <1> QED
    BY <1>7, <1>8 DEF ReviewActivity

LEMMA FieldCommitKeeps ==
  ASSUME FieldInv, NEW q \in Requests,
         WorkerAction(q) \/ SaveAssignment(q) \/ AssignmentAction(q) \/ ReviewActivity(q)
           \/ FieldRollback(q)
  PROVE  FieldInv'
  <1> USE DEF FieldInv
  <1>1. End(q)
    BY DEF WorkerAction, SaveAssignment, AssignmentAction, ReviewActivity, FieldRollback
  <1>2. /\ job[q] \in FieldJobs
        /\ job' \in [Requests -> FieldJobs \cup {None}]
        /\ \A r \in Requests : job'[r] = None
    BY <1>1, EndLeavesNobody DEF FieldTypeOK
  <1>3. Alone' /\ FieldStillAllowed'
    BY <1>2 DEF Alone, FieldStillAllowed
  <1>4. FieldAllowed(job[q])
    BY <1>1 DEF End, FieldStillAllowed
  <1>5. CASE FieldRollback(q)
    <2>1. UNCHANGED <<review, fields, staff, trained, duty, place>>
      BY <1>5 DEF FieldRollback, fieldRows, reviewRows
    <2> QED
      BY <1>2, <1>3, <2>1
      DEF FieldTypeOK, Posted, StaffAvailable, LiveAssignments, AtTheSameTime
  <1> QED
    BY <1>2, <1>3, <1>4, <1>5, WorkerKeeps, SaveAssignmentKeeps, AssignmentActionKeeps,
       ReviewActivityKeeps

LEMMA FieldInvStep == FieldInv /\ [FieldNext]_fieldVars => FieldInv'
  <1>1. SUFFICES ASSUME FieldInv, [FieldNext]_fieldVars PROVE FieldInv'
    OBVIOUS
  <1>2. CASE UNCHANGED fieldVars
    <2>1. UNCHANGED <<review, fields, staff, trained, duty, place, job>>
      BY <1>2 DEF fieldVars, fieldRows, reviewRows
    <2>2. FieldStillAllowed'
      BY <1>1, <2>1
      DEF FieldInv, FieldStillAllowed, FieldAllowed, ReviewAllowed, InDraft, AssignmentFits,
          ActivityMayEnd, StaffOf, DutiesOf, LiveAssignments, AtTheSameTime
    <2> QED
      BY <1>1, <2>1, <2>2
      DEF FieldInv, FieldTypeOK, Alone, Posted, StaffAvailable, LiveAssignments, AtTheSameTime
  <1>3. CASE FieldNext
    BY <1>1, <1>3, FieldEnterKeeps, FieldCommitKeeps DEF FieldNext
  <1> QED
    BY <1>1, <1>2, <1>3

(* Whoever is assigned can be there, for any number of workers, activities  *)
(* and assignments, whatever others pause, cancel and reassign meanwhile.   *)
THEOREM StaffCanCome == FieldSpec => []StaffAvailable
  <1>1. FieldInv => StaffAvailable
    BY DEF FieldInv
  <1> QED
    BY <1>1, FieldInvInit, FieldInvStep, PTL DEF FieldSpec

(* And the activities. *)
FieldAsApproved == FieldInv /\ ReviewedRows /\ ApprovedUnchanged

LEMMA FieldApprovedStep == FieldAsApproved /\ [FieldNext]_fieldVars => FieldAsApproved'
  <1>1. SUFFICES ASSUME FieldAsApproved, [FieldNext]_fieldVars
                 PROVE  ReviewedRows' /\ ApprovedUnchanged'
    BY FieldInvStep DEF FieldAsApproved
  <1>2. ASSUME NEW q \in Requests, ReviewActivity(q)
        PROVE  ReviewedRows' /\ ApprovedUnchanged'
    <2>1. job[q] \in FieldJobs /\ FieldAllowed(job[q])
      BY <1>1, <1>2 DEF FieldAsApproved, FieldInv, FieldTypeOK, FieldStillAllowed,
                        ReviewActivity, End
    <2>2. job[q].action \in ReviewActions \cup {"create", "edit"}
      BY <1>2 DEF ReviewActivity, SaveFields, ReviewAction, Doing
    <2>3. job[q].object \in Reviewables \ Contents
      BY <2>1, <2>2, ActivityJobTypes, FieldAssumption
    <2>4. ReviewAllowed(job[q])
      BY <2>1 DEF FieldAllowed
    <2> QED
      BY <1>1, <1>2, <2>3, <2>4, SaveKeepsApproved, ActionKeepsApproved
      DEF ReviewActivity, FieldAsApproved
  <1>3. ASSUME \/ \E q \in Requests : \/ \E j \in FieldJobs : FieldEnter(q, j)
                                      \/ WorkerAction(q) \/ SaveAssignment(q)
                                      \/ AssignmentAction(q) \/ FieldRollback(q)
               \/ UNCHANGED fieldVars
        PROVE  ReviewedRows' /\ ApprovedUnchanged'
    <2>1. UNCHANGED reviewRows
      BY <1>3 DEF FieldEnter, WorkerAction, SaveAssignment, AssignmentAction, FieldRollback,
                  fieldVars, fieldRows
    <2> QED
      BY <1>1, <2>1, SameApproved DEF FieldAsApproved
  <1> QED
    BY <1>1, <1>2, <1>3 DEF FieldNext

(* An activity that is carried out is the one that was approved. *)
THEOREM FieldApprovalStands == FieldSpec => []ApprovedUnchanged
  <1>1. FieldInit => FieldAsApproved
    BY FieldInvInit, ApprovedAtFirst DEF FieldAsApproved, FieldInit, ContentInit
  <1>2. FieldAsApproved => ApprovedUnchanged
    BY DEF FieldAsApproved
  <1> QED
    BY <1>1, <1>2, FieldApprovedStep, PTL DEF FieldSpec
=============================================================================
