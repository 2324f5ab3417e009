------------------------------- MODULE Ledger -------------------------------
(***************************************************************************)
(* What the stock of a campaign promises, as if there were neither balance *)
(* columns nor requests: every movement, reservation, release and          *)
(* consumption happens in one indivisible step, is decided on the sums of  *)
(* the rows at that moment, and happens at most once for its command or    *)
(* reservation.  There is nothing to be kept in step with the rows, and    *)
(* nothing to be read too early.                                           *)
(***************************************************************************)
EXTENDS Integers, FiniteSets

CONSTANTS Balances, Reservations, Commands, Amounts, MaxQuantity  \* as in Stock

VARIABLES
  archived,  \* whether the campaign is archived
  booked,    \* the sum of a balance's movements
  moves,     \* how many movements each command has made
  exits,     \* how many exits each reservation has made
  rstatus, place, quantity, \* the reservations' rows
  made       \* how many reservations each command has made

Promises == <<rstatus, place, quantity, made>>
vars == <<archived, booked, moves, exits, Promises>>

(* The units of a balance that are promised to somebody. *)
Promised(b) ==
  {u \in Reservations \X (1..MaxQuantity) :
     rstatus[u[1]] = "active" /\ place[u[1]] = b /\ u[2] <= quantity[u[1]]}

Free(b) == booked[b] - Cardinality(Promised(b))

(* Where a reservation is, before there is one, means nothing. *)
Init ==
  /\ archived = FALSE
  /\ booked   = [b \in Balances |-> 0]
  /\ moves    = [c \in Commands |-> 0]
  /\ exits    = [r \in Reservations |-> 0]
  /\ rstatus  = [r \in Reservations |-> "absent"]
  /\ quantity = [r \in Reservations |-> 0]
  /\ made     = [c \in Commands |-> 0]

-----------------------------------------------------------------------------
(* What goes in fits the column; what goes out is promised to nobody. *)
Move(c, b, n) ==
  /\ ~archived /\ moves[c] = 0
  /\ booked[b] + n <= MaxQuantity /\ 0 <= Free(b) + n
  /\ booked' = [booked EXCEPT ![b] = @ + n]
  /\ moves' = [moves EXCEPT ![c] = @ + 1]
  /\ UNCHANGED <<archived, exits, Promises>>

(* Only what is free is promised.  Nobody asks whether the campaign is      *)
(* archived by then.                                                        *)
Reserve(c, r, b, n) ==
  /\ made[c] = 0 /\ rstatus[r] = "absent"
  /\ n <= Free(b)
  /\ rstatus' = [rstatus EXCEPT ![r] = "active"]
  /\ place' = [place EXCEPT ![r] = b]
  /\ quantity' = [quantity EXCEPT ![r] = n]
  /\ made' = [made EXCEPT ![c] = @ + 1]
  /\ UNCHANGED <<archived, booked, moves, exits>>

Release(r) ==
  /\ rstatus[r] = "active"
  /\ rstatus' = [rstatus EXCEPT ![r] = "released"]
  /\ UNCHANGED <<archived, booked, moves, exits, place, quantity, made>>

(* What was promised is taken: it leaves the stock, once. *)
Consume(r) ==
  /\ ~archived /\ rstatus[r] = "active" /\ exits[r] = 0
  /\ rstatus' = [rstatus EXCEPT ![r] = "consumed"]
  /\ booked' = [booked EXCEPT ![place[r]] = @ - quantity[r]]
  /\ exits' = [exits EXCEPT ![r] = @ + 1]
  /\ UNCHANGED <<archived, moves, place, quantity, made>>

Archive ==
  /\ ~archived
  /\ \A r \in Reservations : rstatus[r] # "active"
  /\ archived' = TRUE
  /\ UNCHANGED <<booked, moves, exits, Promises>>

Next ==
  \/ \E c \in Commands, b \in Balances, n \in Amounts :
       Move(c, b, n) \/ Move(c, b, -n) \/ \E r \in Reservations : Reserve(c, r, b, n)
  \/ \E r \in Reservations : Release(r) \/ Consume(r)
  \/ Archive

Spec == Init /\ [][Next]_vars
=============================================================================
