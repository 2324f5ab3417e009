------------------------------- MODULE MCDesk -------------------------------
(***************************************************************************)
(* The workspace's areas, each with a few records.  The ids of different   *)
(* areas share their model values, so that one set of permutations is a    *)
(* symmetry of all of them.                                                *)
(***************************************************************************)
EXTENDS Workspace, TLC

CONSTANTS m1, m2, n1, n2, o1, o2, \* ids, of rows of different tables in different areas
          event, shift1, shift2, content, proposal, car, van, driver, keeper

(* The trips are m1 and m2, the activities o1 and o2. *)
TrialReviewables == {m1, m2, o1, o2, event, shift1, shift2, content, proposal}

(* The bookings and the trips compete for the car, the trips for the driver. *)
TrialBookings == { [asset |-> car, event |-> event, from |-> 1, to |-> 2] }

TrialTrips ==
  { [vehicle |-> car, driver |-> driver, from |-> 1, to |-> 3],
    [vehicle |-> van, driver |-> driver, from |-> 2, to |-> 4] }

TrialShifts ==
  { [responsible |-> keeper, from |-> 1, to |-> 2], [responsible |-> keeper, from |-> 1, to |-> 3],
    [responsible |-> None, from |-> 1, to |-> 3] }

(* A training activity, and a longer one for the trained. *)
TrialActivities == { [training |-> FALSE, from |-> 1, to |-> 2],
                     [training |-> TRUE, from |-> 1, to |-> 3] }

Sym == Permutations({m1, m2}) \cup Permutations({n1, n2}) \cup Permutations({o1, o2})
         \cup Permutations(Requests)
=============================================================================
