------------------------------ MODULE Bookings ------------------------------
(***************************************************************************)
(* Who uses what and when: bookings of assets with their custody, trips    *)
(* with a vehicle and a driver, shifts with a responsible person, and the  *)
(* events that bookings are made for.  A vehicle is an asset: a booking    *)
(* and a trip compete for it.  No constraint of the database keeps two     *)
(* uses apart, only the queries of validate_booking.  A period is given by *)
(* the instants it starts and ends.  The condition of an asset, when its   *)
(* papers expire and who is the custodian are reasons for a refusal.       *)
(***************************************************************************)
EXTENDS Review

CONSTANTS
  Events, Trips, Shifts,  \* reviewable records
  AssetBookings,
  BookingForms,  \* what a booking's form may hold: [asset, event, from, to]
  TripForms,     \* [vehicle, driver, from, to]
  ShiftForms     \* [responsible, from, to]

VARIABLES
  custody,  \* AssetBooking.status, "absent" before the insert
  booking   \* the other columns of a booking, None before

bookingRows == <<reviewRows, custody, booking>>
bookingVars == <<bookingRows, job>>

CustodyStates == {"absent", "reserved", "accepted", "returned", "cancelled"}
CustodyMoves == {<<"reserved", "accept", "accepted">>, <<"accepted", "return", "returned">>,
                 <<"reserved", "unbook", "cancelled">>}
Held == {"reserved", "accepted"}
Running == {"approved", "active"}

BookingJobs ==
  ReviewJobs(Events, {None}) \cup ReviewJobs(Trips, TripForms) \cup ReviewJobs(Shifts, ShiftForms)
    \cup [action : {"book", "rebook"}, object : AssetBookings, fields : BookingForms]
    \cup [action : {"accept", "return", "unbook"}, object : AssetBookings]

ASSUME BookingAssumption ==
  /\ Events \cup Trips \cup Shifts \subseteq Reviewables
  /\ Events \cap Trips = {} /\ Events \cap Shifts = {} /\ Trips \cap Shifts = {}
  /\ AssetBookings \cap Reviewables = {} /\ Contents \cap (Events \cup Trips \cup Shifts) = {}
  /\ None \notin BookingJobs \cup BookingForms \cup TripForms \cup ShiftForms
  /\ \A f \in BookingForms \cup TripForms \cup ShiftForms :
       f.from \in Nat /\ f.to \in Nat /\ f.from < f.to

BookingInit ==
  /\ ContentInit
  /\ custody = [b \in AssetBookings |-> "absent"]
  /\ booking = [b \in AssetBookings |-> None]

-----------------------------------------------------------------------------
(* One ends when the other starts: that is no overlap. *)
Overlap(f, g) == f.from < g.to /\ f.to > g.from

HeldBookings == {b \in AssetBookings : custody[b] \in Held}
RunningTrips == {t \in Trips : review[t] \in Running}
RunningShifts == {s \in Shifts : review[s] \in Running}

BookingFree(b, f) ==
  /\ \A c \in HeldBookings \ {b} : booking[c].asset = f.asset => ~Overlap(booking[c], f)
  /\ \A t \in RunningTrips : fields[t].vehicle = f.asset => ~Overlap(fields[t], f)

TripFree(t) ==
  LET f == fields[t]
  IN  /\ \A u \in RunningTrips \ {t} :
           fields[u].vehicle = f.vehicle \/ fields[u].driver = f.driver => ~Overlap(fields[u], f)
      /\ \A b \in HeldBookings : booking[b].asset = f.vehicle => ~Overlap(booking[b], f)

ShiftFree(s) ==
  LET f == fields[s]
  IN  f.responsible # None =>
        \A u \in RunningShifts \ {s} :
          fields[u].responsible = f.responsible => ~Overlap(fields[u], f)

(* A trip or shift is validated when it is approved and again when it starts. *)
BookingAllowed(j) ==
  /\ j.action = "book" => custody[j.object] = "absent" /\ BookingFree(j.object, j.fields)
  /\ j.action = "rebook" => custody[j.object] = "reserved" /\ BookingFree(j.object, j.fields)
  /\ j.action \in {"accept", "return", "unbook"} =>
       \E s \in CustodyStates : <<custody[j.object], j.action, s>> \in CustodyMoves
  /\ ReviewAllowed(j)
  /\ j.action \in {"approve", "start"} =>
       /\ j.object \in Trips => TripFree(j.object)
       /\ j.object \in Shifts => ShiftFree(j.object)

BookingEnter(q, j) == Begin(q, j) /\ BookingAllowed(j) /\ UNCHANGED bookingRows

SaveBooking(q) ==
  /\ Doing(q, {"book", "rebook"})
  /\ custody' = [custody EXCEPT ![job[q].object] = "reserved"]
  /\ booking' = [booking EXCEPT ![job[q].object] = job[q].fields]
  /\ End(q) /\ UNCHANGED reviewRows

BookingAction(q) ==
  /\ Doing(q, {"accept", "return", "unbook"})
  /\ \E s \in CustodyStates :
       /\ <<custody[job[q].object], job[q].action, s>> \in CustodyMoves
       /\ custody' = [custody EXCEPT ![job[q].object] = s]
  /\ End(q) /\ UNCHANGED <<reviewRows, booking>>

(* Cancelling an event gives up what is only reserved for it. *)
ReviewBooked(q) ==
  /\ SaveFields(q) \/ ReviewAction(q)
  /\ custody' = [b \in AssetBookings |->
       IF /\ job[q].action = "cancel" /\ job[q].object \in Events
          /\ custody[b] = "reserved" /\ booking[b].event = job[q].object
       THEN "cancelled" ELSE custody[b]]
  /\ End(q) /\ UNCHANGED booking

BookingRollback(q) == End(q) /\ UNCHANGED bookingRows

BookingNext ==
  \E q \in Requests :
    \/ \E j \in BookingJobs : BookingEnter(q, j)
    \/ SaveBooking(q) \/ BookingAction(q) \/ ReviewBooked(q) \/ BookingRollback(q)

BookingSpec == BookingInit /\ [][BookingNext]_bookingVars

-----------------------------------------------------------------------------
BookingTypeOK ==
  /\ review \in [Reviewables -> ReviewStates]
  /\ fields \in [Reviewables -> TripForms \cup ShiftForms \cup {None}]
  /\ custody \in [AssetBookings -> CustodyStates]
  /\ booking \in [AssetBookings -> BookingForms \cup {None}]
  /\ job \in [Requests -> BookingJobs \cup {None}]

(* Nothing and nobody is in two places at once: no asset in two bookings,   *)
(* or in a booking and a trip, no vehicle or driver in two trips, and no    *)
(* responsible person in two shifts, at the same time, in whatever order    *)
(* they are booked, edited, approved, started and cancelled.                *)
NoDoubleUse ==
  /\ \A b, c \in HeldBookings :
       b # c /\ booking[b].asset = booking[c].asset => ~Overlap(booking[b], booking[c])
  /\ \A b \in HeldBookings, t \in RunningTrips :
       booking[b].asset = fields[t].vehicle => ~Overlap(booking[b], fields[t])
  /\ \A t, u \in RunningTrips :
       t # u /\ (fields[t].vehicle = fields[u].vehicle \/ fields[t].driver = fields[u].driver)
         => ~Overlap(fields[t], fields[u])
  /\ \A s, u \in RunningShifts :
       s # u /\ fields[s].responsible = fields[u].responsible /\ fields[s].responsible # None
         => ~Overlap(fields[s], fields[u])
=============================================================================
