----------------------------- MODULE StockProofs -----------------------------
(***************************************************************************)
(* Proofs of the safety properties of Stock, for any number of balances,   *)
(* reservations, commands and concurrent requests.  The invariant says     *)
(* that what a request read is still true when it commits (ReadInv), which *)
(* holds because only one request is inside a transaction (LockInv).       *)
(***************************************************************************)
EXTENDS Stock, FiniteSetTheorems, TLAPS

Safe == TypeOK /\ LockInv /\ ReadInv /\ RowsInv

-----------------------------------------------------------------------------
(* What a job carries, by its route. *)
LEMMA JobFields ==
  ASSUME NEW j \in Jobs
  PROVE  /\ j.cmd \in Commands
         /\ j.route \in Settling => j.target \in Reservations
         /\ j.route \notin Settling => /\ j.balance \in Balances
                                       /\ j.amount \in Nat \ {0}
         /\ j.route \in Settling \cup Moving \cup {"reserve"}
BY AmountsPositive DEF Jobs, Settlements, Orders, Settling, Moving

(* A saved balance has its digits, and its reserved part is covered. *)
LEMMA StoreEffect ==
  ASSUME TypeOK, RowsInv, NEW b \in Balances, NEW p \in Int, NEW n \in Int, Store(b, p, n)
  PROVE  /\ physical' \in [Balances -> 0..MaxQuantity]
         /\ reserved' \in [Balances -> 0..MaxQuantity]
         /\ \A c \in Balances : reserved'[c] <= physical'[c]
BY CapacityNatural DEF TypeOK, RowsInv, Store

(* What a request that is about to commit may rely on. *)
LEMMA Reading ==
  ASSUME TypeOK, LockInv, ReadInv, RowsInv, NEW q \in Requests, at[q] = "read"
  PROVE  /\ owner = q
         /\ job[q] \in Jobs
         /\ ~Known(job[q])
         /\ job[q].route \in Moving \cup {"consume"} => ~archived
         /\ job[q].route \in Settling =>
              /\ job[q].target \in Reservations
              /\ rstatus[job[q].target] = "active"
              /\ place[job[q].target] \in Balances
              /\ quantity[job[q].target] \in 1..MaxQuantity
              /\ seen[q].physical = physical[place[job[q].target]]
              /\ seen[q].reserved = reserved[place[job[q].target]]
         /\ job[q].route \notin Settling =>
              /\ seen[q].physical = physical[job[q].balance]
              /\ seen[q].reserved = reserved[job[q].balance]
<1> DEFINE j == job[q]
<1>1. owner = q /\ j \in Jobs
  BY DEF LockInv
<1>2. /\ ~Known(j)
      /\ j.route \in Moving \cup {"consume"} => ~archived
      /\ j.route \in Settling => rstatus[j.target] = "active"
      /\ seen[q] = [physical |-> physical[BalanceOf(j)], reserved |-> reserved[BalanceOf(j)]]
  BY DEF ReadInv
<1>3. j.route \in Settling => j.target \in Reservations
  BY <1>1, JobFields
<1>4. j.route \in Settling => /\ place[j.target] \in Balances
                              /\ quantity[j.target] \in 1..MaxQuantity
  BY <1>2, <1>3 DEF RowsInv
<1>5. BalanceOf(j) = IF j.route \in Settling THEN place[j.target] ELSE j.balance
  BY DEF BalanceOf
<1>6. QED BY <1>1, <1>2, <1>3, <1>4, <1>5

(* A command's key is among those a record can have. *)
LEMMA KeyType == \A j \in Jobs : Key(j) \in {Key(i) : i \in Jobs}
OBVIOUS

-----------------------------------------------------------------------------
(* Every variable keeps its type. *)
LEMMA TypeStep == Safe /\ [Next]_vars => TypeOK'
<1> SUFFICES ASSUME Safe, [Next]_vars PROVE TypeOK'
  OBVIOUS
<1>a. TypeOK /\ LockInv /\ ReadInv /\ RowsInv
  BY DEF Safe
<1>f. ASSUME NEW q \in Requests, Finish(q)
      PROVE  /\ at' \in [Requests -> {"idle", "arrived", "locked", "read"}]
             /\ job' \in [Requests -> Jobs \cup {None}]
             /\ seen' \in [Requests -> [physical : 0..MaxQuantity, reserved : 0..MaxQuantity]]
             /\ owner' \in Requests \cup {None}
  BY <1>a, <1>f, CapacityNatural DEF TypeOK, Finish, Unread
<1>1. ASSUME NEW q \in Requests, NEW j \in Jobs, Arrive(q, j) PROVE TypeOK'
  BY <1>a, <1>1 DEF TypeOK, Arrive, balances, movements, reservations
<1>2. ASSUME NEW q \in Requests, Lock(q) PROVE TypeOK'
  BY <1>a, <1>2 DEF TypeOK, Lock, balances, movements, reservations
<1>3. ASSUME NEW q \in Requests, Repeated(q) PROVE TypeOK'
  BY <1>a, <1>3, <1>f DEF TypeOK, Repeated, balances, movements, reservations
<1>4. ASSUME NEW q \in Requests, Read(q) PROVE TypeOK'
  <2> DEFINE b == BalanceOf(job[q])
  <2>1. job[q] \in Jobs
    BY <1>a, <1>4 DEF Read, LockInv
  <2>2. b \in Balances
    <3>1. CASE job[q].route \in Settling
      <4>1. rstatus[job[q].target] = "active" /\ job[q].target \in Reservations
        BY <1>4, <2>1, <3>1, JobFields DEF Read, Admitted
      <4>2. QED BY <1>a, <3>1, <4>1 DEF RowsInv, BalanceOf
    <3>2. CASE job[q].route \notin Settling
      BY <2>1, <3>2, JobFields DEF BalanceOf
    <3>3. QED BY <3>1, <3>2
  <2>3. seen' \in [Requests -> [physical : 0..MaxQuantity, reserved : 0..MaxQuantity]]
    BY <1>a, <1>4, <2>2 DEF TypeOK, Read
  <2>4. QED BY <1>a, <1>4, <2>3 DEF TypeOK, Read, balances, movements, reservations
<1>5. ASSUME NEW q \in Requests, Refuse(q) PROVE TypeOK'
  BY <1>a, <1>5, <1>f DEF TypeOK, Refuse, balances, movements, reservations
<1>6. ASSUME NEW q \in Requests, CommitMovement(q) PROVE TypeOK'
  <2> DEFINE j == job[q]
  <2>1. at[q] = "read" /\ j.route \in Moving /\ Finish(q)
    BY <1>6 DEF CommitMovement
  <2>2. j \in Jobs /\ j.balance \in Balances /\ j.amount \in Nat /\ j.cmd \in Commands
    BY <1>a, <2>1, Reading, JobFields DEF Moving, Settling
  <2>3. Signed(j) \in Int /\ seen[q].physical \in Int /\ seen[q].reserved \in Int
    BY <1>a, <2>2 DEF TypeOK, Signed
  <2>4. physical' \in [Balances -> 0..MaxQuantity] /\ reserved' \in [Balances -> 0..MaxQuantity]
    <3>1. Store(j.balance, seen[q].physical + Signed(j), seen[q].reserved)
      BY <1>6 DEF CommitMovement
    <3>2. QED BY <1>a, <2>2, <2>3, <3>1, StoreEffect
  <2>5. booked' \in [Balances -> Int] /\ moves' \in [Commands -> Nat]
    BY <1>a, <1>6, <2>2, <2>3 DEF TypeOK, CommitMovement
  <2>6. QED BY <1>a, <1>6, <1>f, <2>1, <2>4, <2>5
               DEF TypeOK, CommitMovement, movements, reservations
<1>7. ASSUME NEW q \in Requests, NEW r \in Reservations, CommitReservation(q, r)
      PROVE  TypeOK'
  <2> DEFINE j == job[q]
  <2>1. at[q] = "read" /\ j.route = "reserve" /\ Finish(q)
    BY <1>7 DEF CommitReservation
  <2>2. j \in Jobs /\ j.balance \in Balances /\ j.amount \in Nat /\ j.cmd \in Commands
    BY <1>a, <2>1, Reading, JobFields DEF Moving, Settling
  <2>3. seen[q].physical \in Int /\ seen[q].reserved \in Int
    BY <1>a DEF TypeOK
  <2>4. physical' \in [Balances -> 0..MaxQuantity] /\ reserved' \in [Balances -> 0..MaxQuantity]
    <3>1. Store(j.balance, seen[q].physical, seen[q].reserved + j.amount)
      BY <1>7 DEF CommitReservation
    <3>2. QED BY <1>a, <2>2, <2>3, <3>1, StoreEffect
  <2>5. made' \in [Commands -> Nat] /\ quantity' \in [Reservations -> Nat]
    BY <1>a, <1>7, <2>2 DEF TypeOK, CommitReservation
  <2>6. recorded' \subseteq {Key(i) : i \in Jobs}
    BY <1>a, <1>7, <2>2, KeyType DEF TypeOK, CommitReservation
  <2>7. QED BY <1>a, <1>7, <1>f, <2>1, <2>2, <2>4, <2>5, <2>6
               DEF TypeOK, CommitReservation, movements
<1>8. ASSUME NEW q \in Requests, CommitRelease(q) PROVE TypeOK'
  <2> DEFINE r == job[q].target
  <2>1. at[q] = "read" /\ job[q].route = "release" /\ Finish(q)
    BY <1>8 DEF CommitRelease
  <2>2. job[q] \in Jobs /\ r \in Reservations /\ place[r] \in Balances /\ quantity[r] \in Int
    BY <1>a, <2>1, Reading DEF Settling, TypeOK
  <2>3. seen[q].physical \in Int /\ seen[q].reserved \in Int
    BY <1>a DEF TypeOK
  <2>4. physical' \in [Balances -> 0..MaxQuantity] /\ reserved' \in [Balances -> 0..MaxQuantity]
    <3>1. Store(place[r], seen[q].physical, seen[q].reserved - quantity[r])
      BY <1>8 DEF CommitRelease
    <3>2. QED BY <1>a, <2>2, <2>3, <3>1, StoreEffect
  <2>5. recorded' \subseteq {Key(i) : i \in Jobs}
    BY <1>a, <1>8, <2>2, KeyType DEF TypeOK, CommitRelease
  <2>6. QED BY <1>a, <1>8, <1>f, <2>1, <2>2, <2>4, <2>5
               DEF TypeOK, CommitRelease, movements
<1>9. ASSUME NEW q \in Requests, CommitConsume(q) PROVE TypeOK'
  <2> DEFINE r == job[q].target
             left == seen[q].reserved - quantity[r]
  <2>1. at[q] = "read" /\ job[q].route = "consume" /\ Finish(q)
    BY <1>9 DEF CommitConsume
  <2>2. job[q] \in Jobs /\ r \in Reservations /\ place[r] \in Balances /\ quantity[r] \in Int
    BY <1>a, <2>1, Reading DEF Settling, TypeOK
  <2>3. seen[q].physical \in Int /\ seen[q].reserved \in Int
    BY <1>a DEF TypeOK
  <2>4. physical' \in [Balances -> 0..MaxQuantity] /\ reserved' \in [Balances -> 0..MaxQuantity]
    <3> DEFINE gone == seen[q].physical - quantity[r]
    <3>1. Store(place[r], gone, left)
      BY <1>9 DEF CommitConsume
    <3>2. gone \in Int /\ left \in Int
      BY <2>2, <2>3
    <3> HIDE DEF gone, left
    <3>3. QED BY <1>a, <2>2, <3>1, <3>2, StoreEffect
  <2>5. recorded' \subseteq {Key(i) : i \in Jobs}
    BY <1>a, <1>9, <2>2, KeyType DEF TypeOK, CommitConsume
  <2>6. booked' \in [Balances -> Int] /\ exits' \in [Reservations -> Nat]
    BY <1>a, <1>9, <2>2 DEF TypeOK, CommitConsume
  <2>7. QED BY <1>a, <1>9, <1>f, <2>1, <2>2, <2>4, <2>5, <2>6
               DEF TypeOK, CommitConsume
<1>10. ASSUME NEW r \in Reservations, Expire(r) PROVE TypeOK'
  BY <1>a, <1>10 DEF TypeOK, Expire, balances, movements, requests
<1>11. CASE Archive
  BY <1>a, <1>11 DEF TypeOK, Archive, balances, movements, reservations, requests
<1>12. CASE UNCHANGED vars
  BY <1>a, <1>12 DEF TypeOK, vars, balances, movements, reservations, requests
<1>13. QED
  BY <1>1, <1>2, <1>3, <1>4, <1>5, <1>6, <1>7, <1>8, <1>9, <1>10, <1>11, <1>12
     DEF Next, Handle

-----------------------------------------------------------------------------
(* Whoever ends its request leaves the others where they were. *)
LEMMA FinishOthers ==
  ASSUME TypeOK, LockInv, NEW q \in Requests, Finish(q)
  PROVE  /\ LockInv'
         /\ \A p \in Requests : at'[p] # "idle" =>
              p # q /\ at'[p] = at[p] /\ job'[p] = job[p] /\ seen'[p] = seen[p]
<1>1. at'[q] = "idle"
  BY DEF TypeOK, Finish
<1>2. \A p \in Requests \ {q} : at'[p] = at[p] /\ job'[p] = job[p] /\ seen'[p] = seen[p]
  BY DEF TypeOK, Finish
<1>3. \A p \in Requests : at'[p] # "idle" => job'[p] \in Jobs
  BY <1>1, <1>2 DEF LockInv
<1>4. ASSUME NEW p \in Requests PROVE at'[p] \in {"locked", "read"} <=> owner' = p
  <2>1. CASE p = q
    BY <1>1, <2>1, NoneFresh DEF Finish, LockInv
  <2>2. CASE p # q
    <3>1. at'[p] = at[p]
      BY <1>2, <2>2
    <3>2. owner' = IF owner = q THEN None ELSE owner
      BY DEF Finish
    <3>3. owner' = p <=> owner = p
      BY <2>2, <3>2, NoneFresh
    <3>4. QED BY <3>1, <3>3 DEF LockInv
  <2>3. QED BY <2>1, <2>2
<1>5. LockInv'
  BY <1>3, <1>4 DEF LockInv
<1>6. QED BY <1>1, <1>2, <1>5

(* The request inside a transaction is alone there. *)
LEMMA LockStep == Safe /\ [Next]_vars => LockInv'
<1> SUFFICES ASSUME Safe, [Next]_vars PROVE LockInv'
  OBVIOUS
<1>a. TypeOK /\ LockInv
  BY DEF Safe
<1>1. ASSUME NEW q \in Requests, NEW j \in Jobs, Arrive(q, j) PROVE LockInv'
  BY <1>a, <1>1 DEF TypeOK, LockInv, Arrive
<1>2. ASSUME NEW q \in Requests, Lock(q) PROVE LockInv'
  BY <1>a, <1>2, NoneFresh DEF TypeOK, LockInv, Lock
<1>3. ASSUME NEW q \in Requests, Read(q) PROVE LockInv'
  BY <1>a, <1>3 DEF TypeOK, LockInv, Read
<1>4. ASSUME NEW q \in Requests,
             \/ Repeated(q) \/ Refuse(q) \/ CommitMovement(q)
             \/ \E r \in Reservations : CommitReservation(q, r)
             \/ CommitRelease(q) \/ CommitConsume(q)
      PROVE  LockInv'
  <2>1. Finish(q)
    BY <1>4 DEF Repeated, Refuse, CommitMovement, CommitReservation, CommitRelease,
                CommitConsume
  <2>2. QED BY <1>a, <2>1, FinishOthers
<1>5. ASSUME \/ \E r \in Reservations : Expire(r)
             \/ Archive
             \/ UNCHANGED vars
      PROVE  LockInv'
  <2>1. UNCHANGED <<at, job, owner>>
    BY <1>5 DEF Expire, Archive, vars, requests
  <2>2. QED BY <1>a, <2>1 DEF LockInv
<1>6. QED BY <1>1, <1>2, <1>3, <1>4, <1>5 DEF Next, Handle

(* What a request has read stays true until it commits. *)
LEMMA ReadStep == Safe /\ [Next]_vars => ReadInv'
<1> SUFFICES ASSUME Safe, [Next]_vars PROVE ReadInv'
  OBVIOUS
<1>a. TypeOK /\ LockInv /\ ReadInv
  BY DEF Safe
<1>u. ASSUME UNCHANGED <<archived, balances, moves, rstatus, place, recorded>>,
             \A p \in Requests : at'[p] = "read" =>
               at[p] = "read" /\ job'[p] = job[p] /\ seen'[p] = seen[p]
      PROVE  ReadInv'
  BY <1>a, <1>u DEF ReadInv, balances, Known, BalanceOf
<1>n. ASSUME \A p \in Requests : at'[p] # "read"
      PROVE  ReadInv'
  BY <1>n DEF ReadInv
<1>1. ASSUME NEW q \in Requests, NEW j \in Jobs, Arrive(q, j) PROVE ReadInv'
  <2>1. UNCHANGED <<archived, balances, moves, rstatus, place, recorded>>
    BY <1>1 DEF Arrive, movements, reservations
  <2>2. ASSUME NEW p \in Requests, at'[p] = "read"
        PROVE  at[p] = "read" /\ job'[p] = job[p] /\ seen'[p] = seen[p]
    BY <1>a, <1>1, <2>2 DEF TypeOK, Arrive
  <2>3. QED BY <1>u, <2>1, <2>2
<1>2. ASSUME NEW q \in Requests, Lock(q) PROVE ReadInv'
  <2>1. UNCHANGED <<archived, balances, moves, rstatus, place, recorded, job, seen>>
    BY <1>2 DEF Lock, movements, reservations
  <2>2. \A p \in Requests : at'[p] = "read" => at[p] = "read"
    BY <1>a, <1>2 DEF TypeOK, Lock
  <2>3. QED BY <1>u, <2>1, <2>2
<1>3. ASSUME NEW q \in Requests, Repeated(q) \/ Refuse(q) PROVE ReadInv'
  <2>1. Finish(q) /\ UNCHANGED <<archived, balances, moves, rstatus, place, recorded>>
    BY <1>3 DEF Repeated, Refuse, movements, reservations
  <2>2. QED BY <1>a, <1>u, <2>1, FinishOthers
<1>4. ASSUME NEW q \in Requests, Read(q) PROVE ReadInv'
  <2>1. UNCHANGED <<archived, balances, moves, rstatus, place, recorded, job, owner>>
    BY <1>4 DEF Read, movements, reservations
  <2>2. \A p \in Requests \ {q} : at'[p] # "read"
    <3>1. owner = q
      BY <1>a, <1>4 DEF Read, LockInv
    <3>2. \A p \in Requests \ {q} : at'[p] = at[p]
      BY <1>a, <1>4 DEF TypeOK, Read
    <3>3. QED BY <1>a, <3>1, <3>2 DEF LockInv
  <2>3. /\ ~Known(job[q]) /\ Admitted(job[q])
        /\ seen'[q] = [physical |-> physical[BalanceOf(job[q])],
                       reserved |-> reserved[BalanceOf(job[q])]]
    BY <1>a, <1>4 DEF TypeOK, Read
  <2>4. QED BY <2>1, <2>2, <2>3 DEF ReadInv, Known, Admitted, BalanceOf, balances
<1>5. ASSUME NEW q \in Requests,
             \/ CommitMovement(q)
             \/ \E r \in Reservations : CommitReservation(q, r)
             \/ CommitRelease(q) \/ CommitConsume(q)
      PROVE  ReadInv'
  <2>1. at[q] = "read" /\ Finish(q)
    BY <1>5 DEF CommitMovement, CommitReservation, CommitRelease, CommitConsume
  <2>2. \A p \in Requests : at'[p] # "read"
    BY <1>a, <2>1, FinishOthers DEF LockInv
  <2>3. QED BY <1>n, <2>2
<1>6. ASSUME NEW r \in Reservations, Expire(r) PROVE ReadInv'
  BY <1>6, <1>u DEF Expire, movements, requests
<1>7. CASE Archive
  <2>1. \A p \in Requests : at'[p] # "read"
    BY <1>a, <1>7, NoneFresh DEF Archive, requests, LockInv
  <2>2. QED BY <1>n, <2>1
<1>8. CASE UNCHANGED vars
  BY <1>8, <1>u DEF vars, movements, reservations, requests
<1>9. QED BY <1>1, <1>2, <1>3, <1>4, <1>5, <1>6, <1>7, <1>8 DEF Next, Handle

-----------------------------------------------------------------------------
(* The units a reservation of quantity n stands for. *)
Block(r, n) == {r} \X (1..n)

LEMMA BlockSize ==
  ASSUME NEW r, NEW n \in Nat
  PROVE  IsFiniteSet(Block(r, n)) /\ Cardinality(Block(r, n)) = n
<1>1. IsFiniteSet({r}) /\ Cardinality({r}) = 1
  BY FS_Singleton
<1>2. IsFiniteSet(1..n) /\ Cardinality(1..n) = n
  <2>1. IsFiniteSet(1..n) /\ Cardinality(1..n) = IF 1 > n THEN 0 ELSE n - 1 + 1
    BY FS_Interval
  <2>2. QED BY <2>1
<1>3. /\ IsFiniteSet(Block(r, n))
      /\ Cardinality(Block(r, n)) = Cardinality({r}) * Cardinality(1..n)
  BY <1>1, <1>2, FS_Product DEF Block
<1>4. QED BY <1>1, <1>2, <1>3

(* A new reservation adds its units to its balance. *)
LEMMA HeldJoins ==
  ASSUME TypeOK, NEW r \in Reservations, NEW b \in Balances, NEW n \in 1..MaxQuantity,
         rstatus[r] = "absent",
         rstatus' = [rstatus EXCEPT ![r] = "active"],
         place' = [place EXCEPT ![r] = b],
         quantity' = [quantity EXCEPT ![r] = n]
  PROVE  /\ Held(b)' = Held(b) \cup Block(r, n)
         /\ Held(b) \cap Block(r, n) = {}
         /\ \A c \in Balances \ {b} : Held(c)' = Held(c)
<1>1. /\ rstatus'[r] = "active" /\ place'[r] = b /\ quantity'[r] = n
      /\ \A x \in Reservations \ {r} :
           rstatus'[x] = rstatus[x] /\ place'[x] = place[x] /\ quantity'[x] = quantity[x]
  BY DEF TypeOK
<1>2. ASSUME NEW c \in Balances, NEW u \in Reservations \X (1..MaxQuantity)
      PROVE  u \in Held(c)' <=> u \in Held(c) \/ (c = b /\ u \in Block(r, n))
  <2>1. CASE u[1] = r
    <3>1. u \in Block(r, n) <=> u[2] <= n
      BY <2>1, CapacityNatural DEF Block
    <3>2. u \notin Held(c)
      BY <2>1 DEF Held
    <3>3. u \in Held(c)' <=> c = b /\ u[2] <= n
      BY <1>1, <2>1 DEF Held
    <3>4. QED BY <3>1, <3>2, <3>3
  <2>2. CASE u[1] # r
    <3>1. u \notin Block(r, n)
      BY <2>2 DEF Block
    <3>2. u[1] \in Reservations \ {r}
      BY <2>2
    <3>3. u \in Held(c)' <=> u \in Held(c)
      BY <1>1, <3>2 DEF Held
    <3>4. QED BY <3>1, <3>3
  <2>3. QED BY <2>1, <2>2
<1>3. \A c \in Balances : Held(c) \subseteq Reservations \X (1..MaxQuantity)
                        /\ Held(c)' \subseteq Reservations \X (1..MaxQuantity)
  BY DEF Held
<1>4. Block(r, n) \subseteq Reservations \X (1..MaxQuantity)
  BY CapacityNatural DEF Block
<1>5. Held(b) \cap Block(r, n) = {}
  BY DEF Held, Block
<1>6. QED BY <1>2, <1>3, <1>4, <1>5

(* A reservation that ends takes its units out of its balance. *)
LEMMA HeldLeaves ==
  ASSUME TypeOK, NEW r \in Reservations, NEW b \in Balances, NEW n \in 1..MaxQuantity,
         NEW t, t # "active",
         rstatus[r] = "active", place[r] = b, quantity[r] = n,
         rstatus' = [rstatus EXCEPT ![r] = t],
         UNCHANGED <<place, quantity>>
  PROVE  /\ Held(b)' = Held(b) \ Block(r, n)
         /\ Block(r, n) \subseteq Held(b)
         /\ \A c \in Balances \ {b} : Held(c)' = Held(c)
<1>1. /\ rstatus'[r] = t
      /\ \A x \in Reservations \ {r} : rstatus'[x] = rstatus[x]
  BY DEF TypeOK
<1>2. ASSUME NEW c \in Balances, NEW u \in Reservations \X (1..MaxQuantity)
      PROVE  /\ u \in Held(c)' <=> u \in Held(c) /\ u[1] # r
             /\ u[1] = r => (u \in Held(c) <=> c = b /\ u \in Block(r, n))
  <2>1. CASE u[1] = r
    <3>1. u \in Block(r, n) <=> u[2] <= n
      BY <2>1, CapacityNatural DEF Block
    <3>2. u \notin Held(c)'
      BY <1>1, <2>1 DEF Held
    <3>3. u \in Held(c) <=> c = b /\ u[2] <= n
      BY <2>1 DEF Held
    <3>4. QED BY <2>1, <3>1, <3>2, <3>3
  <2>2. CASE u[1] # r
    <3>1. u[1] \in Reservations \ {r}
      BY <2>2
    <3>2. QED BY <1>1, <2>2, <3>1 DEF Held
  <2>3. QED BY <2>1, <2>2
<1>3. \A c \in Balances : Held(c) \subseteq Reservations \X (1..MaxQuantity)
                        /\ Held(c)' \subseteq Reservations \X (1..MaxQuantity)
  BY DEF Held
<1>4. Block(r, n) \subseteq Reservations \X (1..MaxQuantity)
  BY CapacityNatural DEF Block
<1>5. \A u \in Block(r, n) : u[1] = r
  BY DEF Block
<1>6. Block(r, n) \subseteq Held(b)
  BY <1>2, <1>4, <1>5
<1>7. Held(b)' = Held(b) \ Block(r, n)
  BY <1>2, <1>3, <1>4, <1>5
<1>8. \A c \in Balances \ {b} : Held(c)' = Held(c)
  BY <1>2, <1>3
<1>9. QED BY <1>6, <1>7, <1>8

-----------------------------------------------------------------------------
Books == RowsInv /\ BalanceMatchesRows

(* Steps that touch neither balances, movements nor reservations. *)
LEMMA BooksUnchanged ==
  ASSUME Books, recorded \subseteq recorded',
         UNCHANGED <<balances, booked, rstatus, place, quantity, made>>
  PROVE  Books'
BY DEF Books, RowsInv, BalanceMatchesRows, Held, balances

(* The balance keeps matching its rows. *)
LEMMA BooksStep == Safe /\ BalanceMatchesRows /\ [Next]_vars => Books'
<1> SUFFICES ASSUME Safe, BalanceMatchesRows, [Next]_vars PROVE Books'
  OBVIOUS
<1>a. TypeOK /\ LockInv /\ ReadInv /\ RowsInv /\ Books
  BY DEF Safe, Books
<1>t. TypeOK'
  BY TypeStep
<1>1. ASSUME NEW q \in Requests, CommitMovement(q) PROVE Books'
  <2> DEFINE j == job[q]
  <2>1. at[q] = "read" /\ j.route \in Moving
    BY <1>1 DEF CommitMovement
  <2>2. /\ j \in Jobs /\ j.balance \in Balances /\ j.amount \in Nat
        /\ seen[q].physical = physical[j.balance] /\ seen[q].reserved = reserved[j.balance]
    BY <1>a, <2>1, Reading, JobFields DEF Moving, Settling
  <2>3. Signed(j) \in Int /\ physical[j.balance] \in Int /\ reserved[j.balance] \in Int
    BY <1>a, <2>2 DEF TypeOK, Signed
  <2>4. Store(j.balance, physical[j.balance] + Signed(j), reserved[j.balance])
    BY <1>1, <2>2 DEF CommitMovement
  <2>5. \A b \in Balances : reserved'[b] <= physical'[b]
    BY <1>a, <2>2, <2>3, <2>4, StoreEffect
  <2>6. \A b \in Balances : reserved'[b] = reserved[b]
    BY <1>a, <2>2, <2>4 DEF TypeOK, Store
  <2>7. \A b \in Balances : physical'[b] = booked'[b]
    <3>1. booked' = [booked EXCEPT ![j.balance] = @ + Signed(j)]
      BY <1>1 DEF CommitMovement
    <3>2. physical' = [physical EXCEPT ![j.balance] = physical[j.balance] + Signed(j)]
      BY <2>4 DEF Store
    <3>3. QED BY <1>a, <2>2, <3>1, <3>2 DEF TypeOK, BalanceMatchesRows, Books
  <2>8. UNCHANGED <<rstatus, place, quantity, made, recorded>>
    BY <1>1 DEF CommitMovement, reservations
  <2>9. \A b \in Balances : Held(b)' = Held(b)
    BY <2>8 DEF Held
  <2>10. QED BY <1>a, <2>5, <2>6, <2>7, <2>8, <2>9 DEF Books, RowsInv, BalanceMatchesRows
<1>2. ASSUME NEW q \in Requests, NEW r \in Reservations, CommitReservation(q, r)
      PROVE  Books'
  <2> DEFINE j == job[q]
  <2>1. at[q] = "read" /\ j.route = "reserve" /\ rstatus[r] = "absent"
    BY <1>2 DEF CommitReservation
  <2>0. PICK b \in Balances, n \in Nat \ {0} : b = j.balance /\ n = j.amount
    BY <1>a, <2>1, Reading, JobFields DEF Moving, Settling
  <2>2. seen[q].physical = physical[b] /\ seen[q].reserved = reserved[b]
    BY <1>a, <2>0, <2>1, Reading DEF Settling
  <2>3. physical[b] \in 0..MaxQuantity /\ reserved[b] \in 0..MaxQuantity
    BY <1>a, <2>2 DEF TypeOK
  <2>4. Store(b, physical[b], reserved[b] + n)
    BY <1>2, <2>0, <2>2 DEF CommitReservation
  <2>5. n \in 1..MaxQuantity
    BY <2>2, <2>3, <2>4, CapacityNatural DEF Store
  <2>6. \A c \in Balances : reserved'[c] <= physical'[c]
    BY <1>a, <2>2, <2>3, <2>4, StoreEffect
  <2>7. /\ reserved'[b] = reserved[b] + n
        /\ \A c \in Balances \ {b} : reserved'[c] = reserved[c]
        /\ \A c \in Balances : physical'[c] = physical[c]
    BY <1>a, <2>2, <2>4 DEF TypeOK, Store
  <2>8. UNCHANGED booked
    BY <1>2 DEF CommitReservation, movements
  <2>9. /\ Held(b)' = Held(b) \cup Block(r, n)
        /\ Held(b) \cap Block(r, n) = {}
        /\ \A c \in Balances \ {b} : Held(c)' = Held(c)
    <3>1. /\ rstatus' = [rstatus EXCEPT ![r] = "active"]
          /\ place' = [place EXCEPT ![r] = b]
          /\ quantity' = [quantity EXCEPT ![r] = n]
      BY <1>2, <2>0 DEF CommitReservation
    <3>2. QED BY <1>a, <2>1, <2>5, <3>1, HeldJoins
  <2>10. /\ IsFiniteSet(Held(b)')
         /\ Cardinality(Held(b)') = Cardinality(Held(b)) + n
    <3>1. IsFiniteSet(Held(b)) /\ Cardinality(Held(b)) \in Nat
      BY <1>a, <2>2, FS_CardinalityType DEF RowsInv
    <3>2. IsFiniteSet(Block(r, n)) /\ Cardinality(Block(r, n)) = n
      BY <2>2, BlockSize
    <3>3. Cardinality({}) = 0
      BY FS_EmptySet
    <3>4. QED BY <2>2, <2>9, <3>1, <3>2, <3>3, FS_Union
  <2>11. \A c \in Balances : reserved'[c] = Cardinality(Held(c)')
    BY <1>a, <2>2, <2>7, <2>9, <2>10 DEF BalanceMatchesRows, Books
  <2>12. \A x \in Reservations :
           rstatus'[x] # "absent" => place'[x] \in Balances /\ quantity'[x] \in 1..MaxQuantity
    BY <1>a, <1>2, <2>0, <2>5 DEF TypeOK, RowsInv, CommitReservation
  <2>13. \A c \in Commands : made'[c] > 0 => <<"reserve", c, None>> \in recorded'
    <3>1. Key(j) = <<"reserve", j.cmd, None>>
      BY <2>1 DEF Key, Settling
    <3>2. QED BY <1>a, <1>2, <3>1 DEF TypeOK, RowsInv, CommitReservation
  <2>14. QED BY <1>a, <2>6, <2>7, <2>8, <2>9, <2>10, <2>11, <2>12, <2>13
                DEF Books, RowsInv, BalanceMatchesRows
<1>3. ASSUME NEW q \in Requests, CommitRelease(q) \/ CommitConsume(q) PROVE Books'
  <2>1. at[q] = "read" /\ job[q].route \in Settling
    BY <1>3 DEF CommitRelease, CommitConsume, Settling
  <2>0. PICK r \in Reservations, b \in Balances, n \in 1..MaxQuantity :
          r = job[q].target /\ b = place[r] /\ n = quantity[r]
    BY <1>a, <2>1, Reading
  <2> DEFINE spent == IF job[q].route = "consume" THEN n ELSE 0
  <2>2. /\ rstatus[r] = "active"
        /\ seen[q].physical = physical[b] /\ seen[q].reserved = reserved[b]
    BY <1>a, <2>0, <2>1, Reading
  <2>3. physical[b] \in 0..MaxQuantity /\ reserved[b] \in 0..MaxQuantity /\ spent \in Nat
    BY <1>a, <2>2 DEF TypeOK
  <2>4. Store(b, physical[b] - spent, reserved[b] - n)
    <3>1. CASE CommitRelease(q)
      BY <2>0, <2>2, <2>3, <3>1 DEF CommitRelease
    <3>2. CASE CommitConsume(q)
      BY <2>0, <2>2, <2>3, <3>2 DEF CommitConsume
    <3>3. QED BY <1>3, <3>1, <3>2
  <2>5. \A c \in Balances : booked'[c] = IF c = b THEN booked[c] - spent ELSE booked[c]
    <3>1. CASE CommitRelease(q)
      BY <1>a, <2>0, <3>1 DEF TypeOK, CommitRelease, movements
    <3>2. CASE CommitConsume(q)
      BY <1>a, <2>0, <3>2 DEF TypeOK, CommitConsume
    <3>3. QED BY <1>3, <3>1, <3>2
  <2>6. \A c \in Balances : reserved'[c] <= physical'[c]
    <3>1. physical[b] - spent \in Int /\ reserved[b] - n \in Int
      BY <2>2, <2>3
    <3> DEFINE p == physical[b] - spent
               m == reserved[b] - n
    <3>2. p \in Int /\ m \in Int /\ Store(b, p, m)
      BY <2>4, <3>1
    <3> HIDE DEF p, m
    <3>3. QED BY <1>a, <2>2, <3>2, StoreEffect
  <2>7. /\ reserved'[b] = reserved[b] - n
        /\ physical'[b] = physical[b] - spent
        /\ \A c \in Balances \ {b} : reserved'[c] = reserved[c] /\ physical'[c] = physical[c]
    BY <1>a, <2>2, <2>4 DEF TypeOK, Store
  <2>8. PICK t \in {"released", "consumed"} : rstatus' = [rstatus EXCEPT ![r] = t]
    BY <1>3, <2>0 DEF CommitRelease, CommitConsume
  <2>9. UNCHANGED <<place, quantity, made>> /\ recorded \subseteq recorded'
    BY <1>3 DEF CommitRelease, CommitConsume
  <2>10. /\ Held(b)' = Held(b) \ Block(r, n)
         /\ Block(r, n) \subseteq Held(b)
         /\ \A c \in Balances \ {b} : Held(c)' = Held(c)
    BY <1>a, <2>0, <2>2, <2>8, <2>9, HeldLeaves
  <2>11. /\ IsFiniteSet(Held(b)')
         /\ Cardinality(Held(b)') = Cardinality(Held(b)) - n
    <3>1. IsFiniteSet(Held(b))
      BY <1>a, <2>2 DEF RowsInv
    <3>2. IsFiniteSet(Block(r, n)) /\ Cardinality(Block(r, n)) = n
      BY <2>2, BlockSize
    <3>3. Held(b) \cap Block(r, n) = Block(r, n)
      BY <2>10
    <3> DEFINE H == Held(b)
               B == Block(r, n)
    <3>4. /\ IsFiniteSet(H \ B)
          /\ Cardinality(H \ B) = Cardinality(H) - Cardinality(H \cap B)
      <4> HIDE DEF H, B
      <4>1. QED BY <3>1, FS_Difference DEF H
    <3>5. QED BY <2>10, <3>2, <3>3, <3>4
  <2>12. \A c \in Balances : physical'[c] = booked'[c] /\ reserved'[c] = Cardinality(Held(c)')
    BY <1>a, <2>2, <2>5, <2>7, <2>10, <2>11 DEF BalanceMatchesRows, Books
  <2>13. \A x \in Reservations :
           rstatus'[x] # "absent" => place'[x] \in Balances /\ quantity'[x] \in 1..MaxQuantity
    BY <1>a, <2>2, <2>8, <2>9 DEF TypeOK, RowsInv
  <2>14. QED BY <1>a, <2>6, <2>9, <2>10, <2>11, <2>12, <2>13
                DEF Books, RowsInv, BalanceMatchesRows
<1>4. ASSUME NEW q \in Requests, NEW j \in Jobs, Arrive(q, j) PROVE Books'
  BY <1>a, <1>4, BooksUnchanged DEF Arrive, movements, reservations
<1>5. ASSUME NEW q \in Requests, Lock(q) \/ Repeated(q) \/ Read(q) \/ Refuse(q) PROVE Books'
  BY <1>a, <1>5, BooksUnchanged DEF Lock, Repeated, Read, Refuse, movements, reservations
<1>6. ASSUME NEW r \in Reservations, Expire(r) PROVE Books'
  BY <1>a, <1>6, BooksUnchanged DEF Expire, movements
<1>7. ASSUME Archive \/ UNCHANGED vars PROVE Books'
  BY <1>a, <1>7, BooksUnchanged DEF Archive, vars, movements, reservations
<1>8. QED BY <1>1, <1>2, <1>3, <1>4, <1>5, <1>6, <1>7 DEF Next, Handle

-----------------------------------------------------------------------------
(* A command that took effect is known, so it takes none again. *)
LEMMA CommandStep == Safe /\ CommandOnce /\ [Next]_vars => CommandOnce'
<1> SUFFICES ASSUME Safe, CommandOnce, [Next]_vars PROVE CommandOnce'
  OBVIOUS
<1>a. TypeOK /\ LockInv /\ ReadInv /\ RowsInv
  BY DEF Safe
<1>1. ASSUME NEW q \in Requests, CommitMovement(q) PROVE CommandOnce'
  <2> DEFINE j == job[q]
  <2>1. at[q] = "read" /\ j.route \in Moving
    BY <1>1 DEF CommitMovement
  <2>2. j.cmd \in Commands /\ ~Known(j)
    BY <1>a, <2>1, Reading, JobFields
  <2>3. moves[j.cmd] = 0
    BY <1>a, <2>1, <2>2 DEF TypeOK, Known
  <2>4. QED BY <1>a, <1>1, <2>2, <2>3 DEF TypeOK, CommandOnce, CommitMovement, reservations
<1>2. ASSUME NEW q \in Requests, NEW r \in Reservations, CommitReservation(q, r)
      PROVE  CommandOnce'
  <2> DEFINE j == job[q]
  <2>1. at[q] = "read" /\ j.route = "reserve"
    BY <1>2 DEF CommitReservation
  <2>2. j.cmd \in Commands /\ ~Known(j)
    BY <1>a, <2>1, Reading, JobFields
  <2>3. made[j.cmd] = 0
    <3>1. <<"reserve", j.cmd, None>> \notin recorded
      BY <2>1, <2>2 DEF Known, Key, Moving, Settling
    <3>2. QED BY <1>a, <2>2, <3>1 DEF TypeOK, RowsInv
  <2>4. QED BY <1>a, <1>2, <2>2, <2>3 DEF TypeOK, CommandOnce, CommitReservation, movements
<1>3. ASSUME \/ \E q \in Requests :
                  \/ \E j \in Jobs : Arrive(q, j)
                  \/ Lock(q) \/ Repeated(q) \/ Read(q) \/ Refuse(q)
                  \/ CommitRelease(q) \/ CommitConsume(q)
             \/ \E r \in Reservations : Expire(r)
             \/ Archive \/ UNCHANGED vars
      PROVE  CommandOnce'
  <2>1. UNCHANGED <<moves, made>>
    BY <1>3 DEF Arrive, Lock, Repeated, Read, Refuse, CommitRelease, CommitConsume, Expire,
                Archive, vars, movements, reservations
  <2>2. QED BY <2>1 DEF CommandOnce
<1>4. QED BY <1>1, <1>2, <1>3 DEF Next, Handle

(* Only consuming an active reservation makes its exit. *)
LEMMA ConsumedStep == Safe /\ ConsumedOnce /\ [Next]_vars => ConsumedOnce'
<1> SUFFICES ASSUME Safe, ConsumedOnce, [Next]_vars PROVE ConsumedOnce'
  OBVIOUS
<1>a. TypeOK /\ LockInv /\ ReadInv /\ RowsInv
  BY DEF Safe
<1>1. ASSUME NEW q \in Requests, NEW r \in Reservations, CommitReservation(q, r)
      PROVE  ConsumedOnce'
  BY <1>a, <1>1 DEF TypeOK, ConsumedOnce, CommitReservation, movements
<1>2. ASSUME NEW q \in Requests, CommitRelease(q) PROVE ConsumedOnce'
  <2>1. at[q] = "read" /\ job[q].route \in Settling
    BY <1>2 DEF CommitRelease, Settling
  <2>2. job[q].target \in Reservations /\ rstatus[job[q].target] = "active"
    BY <1>a, <2>1, Reading
  <2>3. QED BY <1>a, <1>2, <2>2 DEF TypeOK, ConsumedOnce, CommitRelease, movements
<1>3. ASSUME NEW q \in Requests, CommitConsume(q) PROVE ConsumedOnce'
  <2>1. at[q] = "read" /\ job[q].route \in Settling
    BY <1>3 DEF CommitConsume, Settling
  <2>2. job[q].target \in Reservations /\ rstatus[job[q].target] = "active"
    BY <1>a, <2>1, Reading
  <2>3. QED BY <1>a, <1>3, <2>2 DEF TypeOK, ConsumedOnce, CommitConsume
<1>4. ASSUME \/ \E q \in Requests :
                  \/ \E j \in Jobs : Arrive(q, j)
                  \/ Lock(q) \/ Repeated(q) \/ Read(q) \/ Refuse(q) \/ CommitMovement(q)
             \/ \E r \in Reservations : Expire(r)
             \/ Archive \/ UNCHANGED vars
      PROVE  ConsumedOnce'
  <2>1. UNCHANGED <<exits, rstatus>>
    BY <1>4 DEF Arrive, Lock, Repeated, Read, Refuse, CommitMovement, Expire,
                Archive, vars, movements, reservations
  <2>2. QED BY <2>1 DEF ConsumedOnce
<1>5. QED BY <1>1, <1>2, <1>3, <1>4 DEF Next, Handle

-----------------------------------------------------------------------------
StockInv == Safe /\ BalanceMatchesRows /\ CommandOnce /\ ConsumedOnce

LEMMA StockInvInit == Init => StockInv
<1> SUFFICES ASSUME Init PROVE StockInv
  OBVIOUS
<1>1. TypeOK
  <2>1. Unread \in [physical : 0..MaxQuantity, reserved : 0..MaxQuantity]
    BY CapacityNatural DEF Unread
  <2>2. 0 \in 0..MaxQuantity
    BY CapacityNatural
  <2>3. expired \in [Reservations -> BOOLEAN]
    BY Zenon DEF Init
  <2>4. /\ physical \in [Balances -> 0..MaxQuantity]
        /\ reserved \in [Balances -> 0..MaxQuantity]
        /\ booked \in [Balances -> Int]
        /\ moves \in [Commands -> Nat] /\ made \in [Commands -> Nat]
        /\ exits \in [Reservations -> Nat] /\ quantity \in [Reservations -> Nat]
    BY <2>2 DEF Init
  <2>5. /\ seen \in [Requests -> [physical : 0..MaxQuantity, reserved : 0..MaxQuantity]]
        /\ job \in [Requests -> Jobs \cup {None}]
        /\ at \in [Requests -> {"idle", "arrived", "locked", "read"}]
        /\ owner \in Requests \cup {None}
    BY <2>1 DEF Init
  <2>6. /\ rstatus \in [Reservations -> {"absent", "active", "released", "consumed"}]
        /\ place \in [Reservations -> Balances \cup {None}]
        /\ recorded \subseteq {Key(j) : j \in Jobs} /\ archived \in BOOLEAN
    BY DEF Init
  <2>7. QED BY <2>3, <2>4, <2>5, <2>6 DEF TypeOK
<1>2. LockInv /\ ReadInv
  BY NoneFresh DEF Init, LockInv, ReadInv
<1>3. \A b \in Balances : Held(b) = {}
  BY DEF Init, Held
<1>4. RowsInv /\ BalanceMatchesRows
  BY <1>3, FS_EmptySet DEF Init, RowsInv, BalanceMatchesRows
<1>5. CommandOnce /\ ConsumedOnce
  BY DEF Init, CommandOnce, ConsumedOnce
<1>6. QED BY <1>1, <1>2, <1>4, <1>5 DEF StockInv, Safe

LEMMA StockInvStep == StockInv /\ [Next]_vars => StockInv'
BY TypeStep, LockStep, ReadStep, BooksStep, CommandStep, ConsumedStep
   DEF StockInv, Safe, Books

LEMMA StockInvariant == Spec => []StockInv
BY StockInvInit, StockInvStep, PTL DEF Spec

(* Every variable keeps its type. *)
THEOREM StockTypeCorrect == Spec => []TypeOK
BY StockInvariant, PTL DEF StockInv, Safe

(* Physical and reserved quantities are the sums of the rows behind them. *)
THEOREM BalanceCorrect == Spec => []BalanceMatchesRows
BY StockInvariant, PTL DEF StockInv

(* Active reservations never hold more than the movements have left. *)
THEOREM NeverOversold == Spec => []NothingPromisedTwice
<1>1. StockInv => NothingPromisedTwice
  BY DEF StockInv, Safe, RowsInv, BalanceMatchesRows, NothingPromisedTwice
<1>2. QED BY <1>1, StockInvariant, PTL

(* A command takes effect once, however often it is posted. *)
THEOREM CommandCorrect == Spec => []CommandOnce
BY StockInvariant, PTL DEF StockInv

(* A consumed reservation leaves stock once, any other never. *)
THEOREM ConsumptionCorrect == Spec => []ConsumedOnce
BY StockInvariant, PTL DEF StockInv

(* No stock moves in an archived campaign. *)
THEOREM ArchiveFreezesStock == Spec => ArchivedStockFrozen
<1>1. Safe /\ [Next]_vars => [archived => UNCHANGED <<physical, movements>>]_vars
  <2> SUFFICES ASSUME Safe, Next, archived PROVE UNCHANGED <<physical, movements>>
    OBVIOUS
  <2>a. TypeOK /\ LockInv /\ ReadInv /\ RowsInv
    BY DEF Safe
  <2>1. ASSUME NEW q \in Requests, CommitMovement(q) \/ CommitConsume(q) PROVE FALSE
    <3>1. at[q] = "read" /\ job[q].route \in Moving \cup {"consume"}
      BY <2>1 DEF CommitMovement, CommitConsume
    <3>2. QED BY <2>a, <3>1, Reading
  <2>2. ASSUME NEW q \in Requests, NEW r \in Reservations, CommitReservation(q, r)
        PROVE  UNCHANGED <<physical, movements>>
    <3>1. at[q] = "read" /\ job[q].route = "reserve"
      BY <2>2 DEF CommitReservation
    <3>2. job[q].balance \in Balances /\ seen[q].physical = physical[job[q].balance]
      BY <2>a, <3>1, Reading, JobFields DEF Settling
    <3>3. QED BY <2>a, <2>2, <3>2 DEF TypeOK, CommitReservation, Store
  <2>3. ASSUME NEW q \in Requests, CommitRelease(q) PROVE UNCHANGED <<physical, movements>>
    <3>1. at[q] = "read" /\ job[q].route \in Settling
      BY <2>3 DEF CommitRelease, Settling
    <3>2. /\ place[job[q].target] \in Balances
          /\ seen[q].physical = physical[place[job[q].target]]
      BY <2>a, <3>1, Reading
    <3>3. QED BY <2>a, <2>3, <3>2 DEF TypeOK, CommitRelease, Store
  <2>4. ASSUME \/ \E q \in Requests :
                    \/ \E j \in Jobs : Arrive(q, j)
                    \/ Lock(q) \/ Repeated(q) \/ Read(q) \/ Refuse(q)
               \/ \E r \in Reservations : Expire(r)
               \/ Archive
        PROVE  UNCHANGED <<physical, movements>>
    BY <2>4 DEF Arrive, Lock, Repeated, Read, Refuse, Expire, Archive, balances
  <2>5. QED BY <2>1, <2>2, <2>3, <2>4 DEF Next, Handle
<1>2. StockInv => Safe
  BY DEF StockInv
<1>3. QED BY <1>1, <1>2, StockInvariant, PTL DEF Spec, ArchivedStockFrozen

-----------------------------------------------------------------------------
(* What the ledger has promised of a balance is what Stock holds of it. *)
LEMMA LedgerFree ==
  ASSUME NEW b \in Balances, BalanceMatchesRows
  PROVE  Rows!Free(b) = physical[b] - reserved[b]
<1>1. Rows!Promised(b) = Held(b)
  BY DEF Rows!Promised, Held
<1>2. Rows!Cardinality(Held(b)) = Cardinality(Held(b))
  BY Zenon DEF Rows!Cardinality, Cardinality
<1>3. QED BY <1>1, <1>2 DEF Rows!Free, BalanceMatchesRows

(* A movement decided on what was read is one decided on the rows. *)
LEMMA MovementRefines ==
  ASSUME StockInv, NEW q \in Requests, CommitMovement(q)
  PROVE  Rows!Next
<1> DEFINE j == job[q]
<1>a. TypeOK /\ LockInv /\ ReadInv /\ RowsInv /\ BalanceMatchesRows
  BY DEF StockInv, Safe
<1>1. at[q] = "read" /\ j.route \in Moving
  BY DEF CommitMovement
<1>2. /\ j \in Jobs /\ j.route \notin Settling
      /\ ~Known(j) /\ ~archived
      /\ seen[q].physical = physical[j.balance] /\ seen[q].reserved = reserved[j.balance]
  BY <1>a, <1>1, Reading DEF Moving, Settling
<1>3. j.balance \in Balances /\ j.amount \in Amounts /\ j.cmd \in Commands
  BY <1>2 DEF Jobs, Settlements, Orders, Settling
<1>4. moves[j.cmd] = 0
  BY <1>a, <1>1, <1>2, <1>3 DEF TypeOK, Known
<1> PICK c \in Commands, b \in Balances, n \in Amounts :
      c = j.cmd /\ b = j.balance /\ n = j.amount
  BY <1>3
<1>5. PICK m \in {n, -n} : m = Signed(j)
  BY DEF Signed
<1>6. n \in Nat /\ m \in Int
  BY AmountsPositive, <1>5
<1>7. physical[b] = booked[b] /\ physical[b] \in Int /\ reserved[b] \in Int
  BY <1>a DEF BalanceMatchesRows, TypeOK
<1>8. reserved[b] <= physical[b] + m /\ physical[b] + m <= MaxQuantity
  BY <1>2, <1>5 DEF CommitMovement, Store
<1>9. booked[b] + m <= MaxQuantity /\ 0 <= Rows!Free(b) + m
  BY <1>a, <1>6, <1>7, <1>8, LedgerFree
<1>10. /\ booked' = [booked EXCEPT ![b] = @ + m]
       /\ moves' = [moves EXCEPT ![c] = @ + 1]
       /\ UNCHANGED <<archived, exits, reservations>>
  BY <1>5 DEF CommitMovement
<1>11. Rows!Move(c, b, m)
  BY <1>2, <1>4, <1>9, <1>10 DEF Rows!Move, Rows!Promises, reservations
<1>12. QED BY <1>5, <1>11 DEF Rows!Next

(* So is a reservation. *)
LEMMA ReservationRefines ==
  ASSUME StockInv, NEW q \in Requests, NEW r \in Reservations, CommitReservation(q, r)
  PROVE  Rows!Next
<1> DEFINE j == job[q]
<1>a. TypeOK /\ LockInv /\ ReadInv /\ RowsInv /\ BalanceMatchesRows
  BY DEF StockInv, Safe
<1>1. at[q] = "read" /\ j.route = "reserve"
  BY DEF CommitReservation
<1>2. /\ j \in Jobs /\ j.route \notin Settling /\ ~Known(j)
      /\ seen[q].physical = physical[j.balance] /\ seen[q].reserved = reserved[j.balance]
  BY <1>a, <1>1, Reading DEF Settling
<1>3. j.balance \in Balances /\ j.amount \in Amounts /\ j.cmd \in Commands
  BY <1>2 DEF Jobs, Settlements, Orders, Settling
<1>4. made[j.cmd] = 0
  <2>1. <<"reserve", j.cmd, None>> \notin recorded
    BY <1>1, <1>2 DEF Known, Key, Moving, Settling
  <2>2. QED BY <1>a, <1>3, <2>1 DEF TypeOK, RowsInv
<1>5. j.amount <= Rows!Free(j.balance)
  <2>1. seen[q].physical - seen[q].reserved >= j.amount
    BY DEF CommitReservation, Available
  <2>2. physical[j.balance] \in Int /\ reserved[j.balance] \in Int /\ j.amount \in Nat
    BY <1>a, <1>3, AmountsPositive DEF TypeOK
  <2>3. QED BY <1>a, <1>2, <1>3, <2>1, <2>2, LedgerFree
<1>6. Rows!Reserve(j.cmd, r, j.balance, j.amount)
  BY <1>4, <1>5 DEF CommitReservation, Rows!Reserve, movements
<1>7. QED BY <1>3, <1>6 DEF Rows!Next

(* And a release or a consumption. *)
LEMMA SettlementRefines ==
  ASSUME StockInv, NEW q \in Requests, CommitRelease(q) \/ CommitConsume(q)
  PROVE  Rows!Next
<1> DEFINE r == job[q].target
<1>a. TypeOK /\ LockInv /\ ReadInv /\ RowsInv /\ ConsumedOnce
  BY DEF StockInv, Safe
<1>1. at[q] = "read" /\ job[q].route \in Settling
  BY DEF CommitRelease, CommitConsume, Settling
<1>2. r \in Reservations /\ rstatus[r] = "active"
  BY <1>a, <1>1, Reading
<1>3. CASE CommitRelease(q)
  BY <1>2, <1>3 DEF CommitRelease, movements, Rows!Next, Rows!Release
<1>4. CASE CommitConsume(q)
  <2>1. ~archived
    BY <1>a, <1>1, <1>4, Reading DEF CommitConsume
  <2>2. exits[r] = 0
    BY <1>a, <1>2 DEF ConsumedOnce
  <2>3. QED BY <1>2, <1>4, <2>1, <2>2 DEF CommitConsume, Rows!Next, Rows!Consume
<1>5. QED BY <1>3, <1>4

(* Every step of the stock is one of the ledger or leaves its rows alone. *)
LEMMA LedgerStep == StockInv /\ [Next]_vars => [Rows!Next]_(Rows!vars)
<1> SUFFICES ASSUME StockInv, [Next]_vars PROVE Rows!Next \/ UNCHANGED Rows!vars
  OBVIOUS
<1>1. ASSUME NEW q \in Requests, CommitMovement(q) PROVE Rows!Next
  BY <1>1, MovementRefines
<1>2. ASSUME NEW q \in Requests, NEW r \in Reservations, CommitReservation(q, r)
      PROVE  Rows!Next
  BY <1>2, ReservationRefines
<1>3. ASSUME NEW q \in Requests, CommitRelease(q) \/ CommitConsume(q) PROVE Rows!Next
  BY <1>3, SettlementRefines
<1>4. CASE Archive
  BY <1>4 DEF Archive, movements, reservations, Rows!Next, Rows!Archive, Rows!Promises
<1>5. ASSUME \/ \E q \in Requests :
                  \/ \E j \in Jobs : Arrive(q, j)
                  \/ Lock(q) \/ Repeated(q) \/ Read(q) \/ Refuse(q)
             \/ \E r \in Reservations : Expire(r)
             \/ UNCHANGED vars
      PROVE  UNCHANGED Rows!vars
  BY <1>5 DEF Arrive, Lock, Repeated, Read, Refuse, Expire, vars, movements, reservations,
              Rows!vars, Rows!Promises
<1>6. QED BY <1>1, <1>2, <1>3, <1>4, <1>5 DEF Next, Handle

(* The stock implements the ledger: the rows behave as if every request     *)
(* had been decided at once, on the rows of the moment it commits.          *)
THEOREM StockImplementsLedger == Spec => ImplementsLedger
<1>1. Init => Rows!Init
  BY DEF Init, Rows!Init
<1>2. QED BY <1>1, LedgerStep, StockInvariant, PTL DEF Spec, ImplementsLedger, Rows!Spec
=============================================================================
