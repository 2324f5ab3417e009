------------------------------ MODULE Workspace ------------------------------
(***************************************************************************)
(* The areas of the workspace, side by side: a behaviour stays in the area *)
(* it starts in.  Nothing is lost by it: no action of one area reads or    *)
(* writes a row of another, and who holds the campaign's row keeps         *)
(* everybody else waiting.  The areas that keep reviewable records each    *)
(* have their own: plain records and contents, events and trips with the   *)
(* bookings, shifts, and the activities of the field work.                 *)
(***************************************************************************)
EXTENDS TaskGraph, Purchasing, Bookings, Field, Accounting, SecondFactor, Documents, Access

VARIABLE area

(* The reviewable records of different kinds are in different tables. *)
ASSUME KindsApart == Activities \cap (Events \cup Trips \cup Shifts) = {}

Plain == Reviewables \ (Events \cup Trips \cup Shifts \cup Activities)

Areas == {"tasks", "purchases", "contents", "bookings", "shifts", "field",
          "accounts", "factor", "documents", "access"}

vars == <<taskRows, purchaseRows, reviewRows, custody, booking, staff, trained, duty, place,
          accountRows, seen, factorRows, docRows, rescan, accessRows, waiting, entering, job, area>>

Init ==
  /\ area \in Areas
  /\ TaskInit /\ PurchaseInit /\ BookingInit /\ FieldInit
  /\ AccountInit /\ FactorInit /\ DocInit /\ AccessInit

(* The area a step is in, and what it leaves alone. *)
In(a) == area = a /\ area' = area

Elsewhere(a) ==
  /\ a # "tasks" => UNCHANGED taskRows
  /\ a # "purchases" => UNCHANGED purchaseRows
  /\ a \notin {"contents", "bookings", "shifts", "field"} => UNCHANGED reviewRows
  /\ a \notin {"bookings", "shifts"} => UNCHANGED <<custody, booking>>
  /\ a # "field" => UNCHANGED <<staff, trained, duty, place>>
  /\ a # "accounts" => UNCHANGED <<accountRows, seen>>
  /\ a # "factor" => UNCHANGED factorRows
  /\ a # "documents" => UNCHANGED <<docRows, rescan>>
  /\ a # "access" => UNCHANGED <<accessRows, waiting, entering>>

(* What the requests of an area are about. *)
About(records) ==
  \A q \in Requests : job'[q] # None => job'[q].object \in records

Next ==
  \/ In("tasks")     /\ TaskNext     /\ Elsewhere("tasks")
  \/ In("purchases") /\ PurchaseNext /\ Elsewhere("purchases")
  \/ In("contents")  /\ ContentNext  /\ Elsewhere("contents")  /\ About(Plain)
  \/ In("bookings")  /\ BookingNext  /\ Elsewhere("bookings")
                     /\ About(Events \cup Trips \cup AssetBookings)
  \/ In("shifts")    /\ BookingNext  /\ Elsewhere("shifts")    /\ About(Shifts)
  \/ In("field")     /\ FieldNext    /\ Elsewhere("field")
  \/ In("accounts")  /\ AccountNext  /\ Elsewhere("accounts")
  \/ In("factor")    /\ FactorNext   /\ Elsewhere("factor")
  \/ In("documents") /\ DocNext      /\ Elsewhere("documents")
  \/ In("access")    /\ AccessNext   /\ Elsewhere("access")

Spec == Init /\ [][Next]_vars

-----------------------------------------------------------------------------
(* Every area's variables have their types. *)
DeskTypesOK ==
  /\ area \in Areas
  /\ area = "tasks" => TaskTypeOK
  /\ area = "purchases" => PurchaseTypeOK
  /\ area = "contents" => ContentTypeOK
  /\ area \in {"bookings", "shifts"} => BookingTypeOK
  /\ area = "field" => FieldTypeOK
  /\ area = "accounts" => AccountTypeOK
  /\ area = "factor" => FactorTypeOK
  /\ area = "documents" => DocTypeOK
  /\ area = "access" => AccessTypeOK
=============================================================================
