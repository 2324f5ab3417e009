------------------------------- MODULE Stock --------------------------------
(***************************************************************************)
(* The stock of one campaign: movements (apps/operations), reservations    *)
(* (apps/workspace) and the balance both of them update, reached through   *)
(* the three web requests that change it: the movement page, the creation  *)
(* of a reservation, and its release or consumption.                       *)
(*                                                                         *)
(* Each request loads the campaign when it arrives and decides with that   *)
(* copy whether the campaign may be written to.  Then it opens one         *)
(* transaction: it locks the campaign row, reads the balance row, and      *)
(* writes back values computed from what it read.  The locks on item,      *)
(* warehouse and balance are taken later, always in this order and always  *)
(* under the campaign's, so owner stands for all of them.  Requests come   *)
(* from several people and the same command may be posted again, while the *)
(* first post runs or long after it.                                       *)
(*                                                                         *)
(* A balance is a pair of an item and a warehouse.  Quantities are counted *)
(* in units of the last decimal place.                                     *)
(***************************************************************************)
EXTENDS Integers, FiniteSets

CONSTANTS
  Balances,      \* pairs of an item and a warehouse
  Reservations,  \* ids of StockReservation
  Commands,      \* command_id values, one for each page that was rendered
  Requests,      \* requests that may be in progress at once
  None,          \* no reservation, no balance, no job, no owner
  Amounts,       \* the quantities people ask for
  MaxQuantity    \* 18 digits, four of them decimals: what a balance can hold

ASSUME NoneFresh == None \notin Balances \cup Requests
ASSUME AmountsPositive == Amounts \subseteq Nat \ {0}
ASSUME CapacityNatural == MaxQuantity \in Nat

VARIABLES
  archived,    \* whether Campaign.phase is "archived"
  physical,    \* StockBalance.physical_quantity
  reserved,    \* StockBalance.reserved_quantity
  booked,      \* the sum of signed_quantity over the balance's movements
  moves,       \* how many manual movements name each command as origin
  exits,       \* how many movements name each reservation as origin
  rstatus,     \* StockReservation.status, or "absent" before the insert
  place,       \* its balance
  quantity,    \* its quantity
  expired,     \* whether expires_at has passed
  made,        \* how many reservations each command has created
  recorded,    \* the IdempotencyRecord rows
  at, job,     \* where each request is, and what it asks for
  seen,        \* the balance row as it read it
  owner        \* the request that holds the campaign's row lock

balances     == <<physical, reserved>>
movements    == <<booked, moves, exits>>
reservations == <<rstatus, place, quantity, expired, made>>
requests     == <<at, job, seen, owner>>
vars == <<archived, balances, movements, reservations, recorded, requests>>

Settlements == [route : {"release", "consume"}, cmd : Commands, target : Reservations]
Orders == [route : {"entry", "exit", "reserve"}, cmd : Commands,
           balance : Balances, amount : Amounts]
Jobs == Settlements \cup Orders

Moving == {"entry", "exit"}
Settling == {"release", "consume"}

(* The scope of an IdempotencyRecord: the route and the command. *)
Key(j) == IF j.route \in Settling THEN <<j.route, j.cmd, j.target>>
                                  ELSE <<j.route, j.cmd, None>>

BalanceOf(j) == IF j.route \in Settling THEN place[j.target] ELSE j.balance

Unread == [physical |-> 0, reserved |-> 0]

Init ==
  /\ archived = FALSE
  /\ physical = [b \in Balances |-> 0]
  /\ reserved = [b \in Balances |-> 0]
  /\ booked   = [b \in Balances |-> 0]
  /\ moves    = [c \in Commands |-> 0]
  /\ exits    = [r \in Reservations |-> 0]
  /\ rstatus  = [r \in Reservations |-> "absent"]
  /\ place    = [r \in Reservations |-> None]
  /\ quantity = [r \in Reservations |-> 0]
  /\ expired  = [r \in Reservations |-> FALSE]
  /\ made     = [c \in Commands |-> 0]
  /\ recorded = {}
  /\ at       = [q \in Requests |-> "idle"]
  /\ job      = [q \in Requests |-> None]
  /\ seen     = [q \in Requests |-> Unread]
  /\ owner    = None

-----------------------------------------------------------------------------
(* The view loads the campaign and lets the request in. *)
Arrive(q, j) ==
  /\ at[q] = "idle" /\ ~archived
  /\ j.route \in Settling => rstatus[j.target] # "absent"
  /\ at' = [at EXCEPT ![q] = "arrived"]
  /\ job' = [job EXCEPT ![q] = j]
  /\ UNCHANGED <<archived, balances, movements, reservations, recorded, seen, owner>>

LockShared(q) ==
  /\ at[q] = "arrived"
  /\ at' = [at EXCEPT ![q] = "locked"]
  /\ owner' = q
  /\ UNCHANGED <<archived, balances, movements, reservations, recorded, job, seen>>

Lock(q) ==
  /\ at[q] = "arrived" /\ owner = None
  /\ at' = [at EXCEPT ![q] = "locked"]
  /\ owner' = q
  /\ UNCHANGED <<archived, balances, movements, reservations, recorded, job, seen>>

Finish(q) ==
  /\ at' = [at EXCEPT ![q] = "idle"]
  /\ job' = [job EXCEPT ![q] = None]
  /\ seen' = [seen EXCEPT ![q] = Unread]
  /\ owner' = IF owner = q THEN None ELSE owner

KnownByRecordOnly(j) == Key(j) \in recorded

(* What tells a command that was carried out before: the movement page looks *)
(* for a movement with this origin, the other pages for their record.        *)
Known(j) ==
  IF j.route \in Moving THEN moves[j.cmd] > 0 ELSE Key(j) \in recorded

Repeated(q) ==
  /\ at[q] = "locked" /\ Known(job[q])
  /\ Finish(q)
  /\ UNCHANGED <<archived, balances, movements, reservations, recorded>>

AdmittedTwice(j) ==
  /\ j.route \in Moving \cup {"consume"} => ~archived
  /\ j.route \in Settling => rstatus[j.target] # "absent"

AdmittedByOldPhase(j) ==
  /\ j.route \in Settling => rstatus[j.target] = "active"
  /\ j.route = "consume" => ~expired[j.target]

(* A movement reloads the campaign with its item; the others trust the copy *)
(* they arrived with.                                                       *)
Admitted(j) ==
  /\ j.route \in Moving \cup {"consume"} => ~archived
  /\ j.route \in Settling => rstatus[j.target] = "active"
  /\ j.route = "consume" => ~expired[j.target]

Read(q) ==
  /\ at[q] = "locked" /\ ~Known(job[q])
  /\ Admitted(job[q])
  /\ seen' = [seen EXCEPT ![q] = [physical |-> physical[BalanceOf(job[q])],
                                  reserved |-> reserved[BalanceOf(job[q])]]]
  /\ at' = [at EXCEPT ![q] = "read"]
  /\ UNCHANGED <<archived, balances, movements, reservations, recorded, job, owner>>

-----------------------------------------------------------------------------
StoreUnvalidated(b, newPhysical, newReserved) ==
  /\ physical' = [physical EXCEPT ![b] = newPhysical]
  /\ reserved' = [reserved EXCEPT ![b] = newReserved]

(* The new balance is validated as a whole before it is saved: both columns *)
(* within their digits, and the reserved part within the physical one.      *)
Store(b, newPhysical, newReserved) ==
  /\ 0 <= newReserved /\ newReserved <= newPhysical /\ newPhysical <= MaxQuantity
  /\ physical' = [physical EXCEPT ![b] = newPhysical]
  /\ reserved' = [reserved EXCEPT ![b] = newReserved]

Available(q) == seen[q].physical - seen[q].reserved

Signed(j) == IF j.route = "entry" THEN j.amount ELSE -j.amount

CommitMovement(q) ==
  LET j == job[q]
  IN  /\ at[q] = "read" /\ j.route \in Moving
      /\ j.route = "exit" => Available(q) >= j.amount
      /\ Store(j.balance, seen[q].physical + Signed(j), seen[q].reserved)
      /\ booked' = [booked EXCEPT ![j.balance] = @ + Signed(j)]
      /\ moves' = [moves EXCEPT ![j.cmd] = @ + 1]
      /\ Finish(q)
      /\ UNCHANGED <<archived, exits, reservations, recorded>>

CommitReservation(q, r) ==
  LET j == job[q]
  IN  /\ at[q] = "read" /\ j.route = "reserve"
      /\ rstatus[r] = "absent"
      /\ Available(q) >= j.amount
      /\ Store(j.balance, seen[q].physical, seen[q].reserved + j.amount)
      /\ rstatus' = [rstatus EXCEPT ![r] = "active"]
      /\ place' = [place EXCEPT ![r] = j.balance]
      /\ quantity' = [quantity EXCEPT ![r] = j.amount]
      /\ made' = [made EXCEPT ![j.cmd] = @ + 1]
      /\ recorded' = recorded \cup {Key(j)}
      /\ Finish(q)
      /\ UNCHANGED <<archived, movements, expired>>

CommitRelease(q) ==
  LET r == job[q].target
  IN  /\ at[q] = "read" /\ job[q].route = "release"
      /\ Store(place[r], seen[q].physical, seen[q].reserved - quantity[r])
      /\ rstatus' = [rstatus EXCEPT ![r] = "released"]
      /\ recorded' = recorded \cup {Key(job[q])}
      /\ Finish(q)
      /\ UNCHANGED <<archived, movements, place, quantity, expired, made>>

(* The reserved part first, then an ordinary exit of the same quantity. *)
CommitConsume(q) ==
  LET r == job[q].target
      left == seen[q].reserved - quantity[r]
  IN  /\ at[q] = "read" /\ job[q].route = "consume"
      /\ seen[q].physical - left >= quantity[r]
      /\ Store(place[r], seen[q].physical - quantity[r], left)
      /\ booked' = [booked EXCEPT ![place[r]] = @ - quantity[r]]
      /\ exits' = [exits EXCEPT ![r] = @ + 1]
      /\ rstatus' = [rstatus EXCEPT ![r] = "consumed"]
      /\ recorded' = recorded \cup {Key(job[q])}
      /\ Finish(q)
      /\ UNCHANGED <<archived, moves, place, quantity, expired, made>>

(* Anything else ends the transaction without effect: a validation error, a *)
(* permission withdrawn, a stale row version, a broken connection.          *)
Refuse(q) ==
  /\ at[q] # "idle"
  /\ Finish(q)
  /\ UNCHANGED <<archived, balances, movements, reservations, recorded>>

(* The last change of phase: it locks the campaign too, reads it again, and *)
(* refuses while a reservation is active.                                   *)
Archive ==
  /\ ~archived /\ owner = None
  /\ \A r \in Reservations : rstatus[r] # "active"
  /\ archived' = TRUE
  /\ UNCHANGED <<balances, movements, reservations, recorded, requests>>

Expire(r) ==
  /\ rstatus[r] = "active" /\ ~expired[r]
  /\ expired' = [expired EXCEPT ![r] = TRUE]
  /\ UNCHANGED <<archived, balances, movements, rstatus, place, quantity, made,
                 recorded, requests>>

-----------------------------------------------------------------------------
Handle(q) ==
  \/ \E j \in Jobs : Arrive(q, j)
  \/ Lock(q) \/ Repeated(q) \/ Read(q) \/ Refuse(q)
  \/ CommitMovement(q)
  \/ \E r \in Reservations : CommitReservation(q, r)
  \/ CommitRelease(q) \/ CommitConsume(q)

Next ==
  \/ \E q \in Requests : Handle(q)
  \/ \E r \in Reservations : Expire(r)
  \/ Archive

Spec == Init /\ [][Next]_vars

-----------------------------------------------------------------------------
(* Every variable has its type. *)
TypeOK ==
  /\ archived \in BOOLEAN
  /\ physical \in [Balances -> 0..MaxQuantity]
  /\ reserved \in [Balances -> 0..MaxQuantity]
  /\ booked \in [Balances -> Int]
  /\ moves \in [Commands -> Nat]
  /\ exits \in [Reservations -> Nat]
  /\ rstatus \in [Reservations -> {"absent", "active", "released", "consumed"}]
  /\ place \in [Reservations -> Balances \cup {None}]
  /\ quantity \in [Reservations -> Nat]
  /\ expired \in [Reservations -> BOOLEAN]
  /\ made \in [Commands -> Nat]
  /\ recorded \subseteq {Key(j) : j \in Jobs}
  /\ at \in [Requests -> {"idle", "arrived", "locked", "read"}]
  /\ job \in [Requests -> Jobs \cup {None}]
  /\ seen \in [Requests -> [physical : 0..MaxQuantity, reserved : 0..MaxQuantity]]
  /\ owner \in Requests \cup {None}

(* The units that active reservations hold of a balance. *)
Held(b) ==
  {u \in Reservations \X (1..MaxQuantity) :
     rstatus[u[1]] = "active" /\ place[u[1]] = b /\ u[2] <= quantity[u[1]]}

(***************************************************************************)
(* The balance is what the rows say: the physical quantity is the sum of   *)
(* the movements and the reserved quantity the sum of the active           *)
(* reservations, although every request writes back values it computed     *)
(* from a row it read before.                                              *)
(***************************************************************************)
BalanceMatchesRows ==
  \A b \in Balances :
    /\ physical[b] = booked[b]
    /\ reserved[b] = Cardinality(Held(b))

(***************************************************************************)
(* Nothing is promised twice: what the active reservations hold of a       *)
(* balance never exceeds what the movements have left in it.               *)
(***************************************************************************)
NothingPromisedTwice ==
  \A b \in Balances : Cardinality(Held(b)) <= booked[b]

(***************************************************************************)
(* A command posted again, even while its first post is being handled,     *)
(* neither moves stock nor reserves it a second time.                      *)
(***************************************************************************)
CommandOnce ==
  \A c \in Commands : moves[c] <= 1 /\ made[c] <= 1

(***************************************************************************)
(* A reservation leaves stock exactly once if it was consumed, and never   *)
(* if it is active or was released.                                        *)
(***************************************************************************)
ConsumedOnce ==
  \A r \in Reservations : exits[r] = IF rstatus[r] = "consumed" THEN 1 ELSE 0

(***************************************************************************)
(* Once the campaign is archived no stock moves, even for a request that   *)
(* was let in before and waited for the lock.                              *)
(***************************************************************************)
ArchivedStockFrozen ==
  [][archived => UNCHANGED <<physical, movements>>]_vars

(***************************************************************************)
(* An archived campaign is read-only ("bloqueios de fechamento e arquivo   *)
(* somente leitura", docs/implementation-status.md:30): neither balances   *)
(* nor reservations change.  The code breaks it: a reservation that was    *)
(* let in before the campaign was archived is created after.               *)
(***************************************************************************)
ArchiveIsReadOnly ==
  [][archived => UNCHANGED <<balances, reservations>>]_vars

(***************************************************************************)
(* The stock implements Ledger: that requests decide on a copy of balance  *)
(* columns, read before they write, cannot be seen in the rows.  Each      *)
(* movement, reservation, release and consumption is as if it were decided *)
(* at once on the rows of the moment it commits, and happens at most once. *)
(***************************************************************************)
Rows == INSTANCE Ledger

ImplementsLedger == Rows!Spec

-----------------------------------------------------------------------------
(***************************************************************************)
(* The inductive invariant behind the safety properties: who is inside a   *)
(* transaction holds the lock, what it read is still true when it commits, *)
(* and every committed effect has left its trace.                          *)
(***************************************************************************)
LockInv ==
  /\ \A q \in Requests : at[q] \in {"locked", "read"} <=> owner = q
  /\ \A q \in Requests : at[q] # "idle" => job[q] \in Jobs

ReadInv ==
  \A q \in Requests : at[q] = "read" =>
    LET j == job[q]
    IN  /\ ~Known(j)
        /\ j.route \in Moving \cup {"consume"} => ~archived
        /\ j.route \in Settling => rstatus[j.target] = "active"
        /\ seen[q] = [physical |-> physical[BalanceOf(j)],
                      reserved |-> reserved[BalanceOf(j)]]

RowsInv ==
  /\ \A r \in Reservations :
       rstatus[r] # "absent" => place[r] \in Balances /\ quantity[r] \in 1..MaxQuantity
  /\ \A c \in Commands : made[c] > 0 => <<"reserve", c, None>> \in recorded
  /\ \A b \in Balances : reserved[b] <= physical[b] /\ IsFiniteSet(Held(b))
=============================================================================
