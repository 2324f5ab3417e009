---------------------------- MODULE FinanceProofs ----------------------------
(***************************************************************************)
(* Proofs of the safety properties of Finance, for any number of           *)
(* obligations, payments, entries and concurrent requests, and that it     *)
(* implements Books.                                                       *)
(***************************************************************************)
EXTENDS Finance, FiniteSetTheorems, TLAPS

-----------------------------------------------------------------------------
(* What a job carries, by its kind. *)
LEMMA JobFields ==
  ASSUME NEW j \in Jobs
  PROVE  /\ j.object \in Records /\ j.other \in Records \cup {None}
         /\ j.kind \in {"edit", "submit", "approve", "reject"} => j.object \in Obligations
         /\ j.kind = "edit" => j.cents \in Amounts
         /\ j.kind = "allocate" => /\ j.object \in Payments /\ j.other \in Obligations
                                   /\ j.cents \in Shares
         /\ j.kind = "reverse" => j.object \in Payments
         /\ j.kind = "reconcile" => /\ j.object \in Entries /\ j.other \in Payments
                                    /\ j.cents \in Shares
BY DEF Jobs, Job, Records

(* A request that is about to commit is the only one in a transaction, and *)
(* its page showed its object as it still is.                              *)
LEMMA Alone ==
  ASSUME LockInv, ShownInv, NEW q \in Requests, Ready(q)
  PROVE  /\ at[q] = "inside" /\ job[q] \in Jobs
         /\ \A r \in Requests : at[r] = "inside" => r = q
         /\ q \notin stale
         /\ state[job[q].object] # "absent"
         /\ job[q].shown = amount[job[q].object]
<1>1. at[q] = "inside" /\ job[q].object \in holds[q]
  BY DEF Ready, NextRows
<1>2. QED BY <1>1 DEF LockInv, ShownInv

(* What the operations have in common: no record disappears, and those     *)
(* whose amount changes are saved, which makes the pages of others stale.  *)
LEMMA CarryEffect ==
  ASSUME TypeOK, LockInv, ShownInv, NEW q \in Requests, Carry(q)
  PROVE  /\ Ready(q)
         /\ \A x \in Records : state[x] # "absent" => state'[x] # "absent"
         /\ \E xs : /\ Finish(q, xs)
                    /\ \A x \in Records \ xs : amount'[x] = amount[x]
<1> DEFINE o == job[q].object
<1>1. Ready(q) /\ job[q] \in Jobs /\ o \in Records
  <2>1. Ready(q)
    BY DEF Carry, Edit, Submit, Decide, Allocate, Reconcile, ReconcileWith, Reverse
  <2>2. QED BY <2>1, Alone, JobFields
<1>2. CASE Edit(q)
  BY <1>1, <1>2 DEF TypeOK, Edit
<1>3. CASE Submit(q)
  BY <1>1, <1>3 DEF TypeOK, Submit
<1>4. CASE Decide(q)
  BY <1>1, <1>4 DEF TypeOK, Decide
<1>5. CASE Allocate(q)
  BY <1>1, <1>5 DEF TypeOK, Allocate
<1>6. CASE Reconcile(q)
  <2> DEFINE s == EntryStatus(Cardinality(Matched(o)) + job[q].cents, amount[o])
  <2>1. s # "absent"
    BY DEF EntryStatus
  <2>2. state' = [state EXCEPT ![o] = s]
    BY <1>6 DEF Reconcile, ReconcileWith
  <2>3. Finish(q, {o}) /\ amount' = amount
    BY <1>6 DEF Reconcile, ReconcileWith
  <2> HIDE DEF s
  <2>4. QED BY <1>1, <2>1, <2>2, <2>3 DEF TypeOK
<1>7. CASE Reverse(q)
  BY <1>1, <1>7 DEF TypeOK, Reverse
<1>8. QED BY <1>2, <1>3, <1>4, <1>5, <1>6, <1>7 DEF Carry

-----------------------------------------------------------------------------
(* Only one request is in a transaction. *)
LEMMA LockStep == TypeOK /\ LockInv /\ ShownInv /\ [Next]_vars => LockInv'
<1> SUFFICES ASSUME TypeOK, LockInv, ShownInv, [Next]_vars PROVE LockInv'
  OBVIOUS
<1>f. ASSUME NEW q \in Requests, NEW xs, Finish(q, xs) PROVE LockInv'
  BY <1>f DEF TypeOK, LockInv, Finish
<1>1. ASSUME NEW x \in Records, NEW a \in Amounts, Record(x, a) PROVE LockInv'
  BY <1>1 DEF LockInv, Record, requests
<1>2. ASSUME NEW q \in Requests, NEW j \in Jobs, Arrive(q, j) PROVE LockInv'
  BY <1>2 DEF TypeOK, LockInv, Arrive
<1>3. ASSUME NEW q \in Requests, Enter(q) PROVE LockInv'
  BY <1>3 DEF TypeOK, LockInv, Enter, Free
<1>4. ASSUME NEW q \in Requests, Carry(q) PROVE LockInv'
  BY <1>4, <1>f, CarryEffect
<1>5. ASSUME NEW q \in Requests, Refuse(q) PROVE LockInv'
  BY <1>5, <1>f DEF Refuse
<1>6. ASSUME NEW q \in Requests, NEW x \in Records, LockRow(q, x) PROVE LockInv'
  BY <1>6, TablesDisjoint DEF TypeOK, LockInv, LockRow, NextRows
<1>7. CASE UNCHANGED vars
  BY <1>7 DEF LockInv, vars, requests
<1>8. QED BY <1>1, <1>2, <1>3, <1>4, <1>5, <1>6, <1>7 DEF Next, Handle

(* Pages that are not stale stay true. *)
LEMMA ShownStep == TypeOK /\ LockInv /\ ShownInv /\ [Next]_vars => ShownInv'
<1> SUFFICES ASSUME TypeOK, LockInv, ShownInv, [Next]_vars PROVE ShownInv'
  OBVIOUS
<1>f. ASSUME NEW q \in Requests, at[q] # "idle", NEW xs, Finish(q, xs),
             \A r \in Requests : at[r] = "inside" => r = q \/ xs = {},
             \A x \in Records \ xs : amount'[x] = amount[x],
             \A x \in Records : state[x] # "absent" => state'[x] # "absent"
      PROVE  ShownInv'
  <2>1. \A r \in Requests : at[r] # "idle" => job[r].object \in Records
    BY JobFields DEF LockInv
  <2>2. QED BY <1>f, <2>1 DEF TypeOK, ShownInv, Finish
<1>1. ASSUME NEW x \in Records, NEW a \in Amounts, Record(x, a) PROVE ShownInv'
  <2>1. \A r \in Requests : at[r] # "idle" => job[r].object \in Records
    BY JobFields DEF LockInv
  <2>2. QED BY <1>1, <2>1 DEF TypeOK, ShownInv, Record, requests
<1>2. ASSUME NEW q \in Requests, NEW j \in Jobs, Arrive(q, j) PROVE ShownInv'
  BY <1>2 DEF TypeOK, ShownInv, Arrive, ledger
<1>3. ASSUME NEW q \in Requests, Enter(q) PROVE ShownInv'
  <2>1. job[q].object # Campaign
    BY <1>3, JobFields, TablesDisjoint DEF Enter, LockInv
  <2>2. QED BY <1>3, <2>1 DEF TypeOK, ShownInv, Enter, ledger
<1>4. ASSUME NEW q \in Requests, Carry(q) PROVE ShownInv'
  <2>1. Ready(q)
    BY <1>4, CarryEffect
  <2>2. at[q] # "idle" /\ \A r \in Requests : at[r] = "inside" => r = q
    BY <2>1, Alone
  <2>3. QED BY <1>4, <1>f, <2>2, CarryEffect
<1>5. ASSUME NEW q \in Requests, Refuse(q) PROVE ShownInv'
  BY <1>5, <1>f DEF Refuse, ledger
<1>6. ASSUME NEW q \in Requests, NEW x \in Records, LockRow(q, x) PROVE ShownInv'
  BY <1>6 DEF TypeOK, ShownInv, LockRow, ledger
<1>7. CASE UNCHANGED vars
  BY <1>7 DEF ShownInv, vars, requests, ledger
<1>8. QED BY <1>1, <1>2, <1>3, <1>4, <1>5, <1>6, <1>7 DEF Next, Handle

-----------------------------------------------------------------------------
(* The sums are finite, and adding the cents of a new row adds its amount. *)
LEMMA SumsFinite ==
  /\ \A p \in Payments : IsFiniteSet(Spent(p)) /\ IsFiniteSet(Confirmed(p))
  /\ \A o \in Obligations : IsFiniteSet(Covered(o))
  /\ \A e \in Entries : IsFiniteSet(Matched(e))
<1>1. IsFiniteSet(1..MaxCents)
  BY CentsAssumption, FS_Interval
<1>2. /\ IsFiniteSet(Obligations \X (1..MaxCents))
      /\ IsFiniteSet(Payments \X (1..MaxCents))
      /\ IsFiniteSet(Entries \X (1..MaxCents))
  BY <1>1, TablesFinite, FS_Product
<1>3. /\ \A p : Spent(p) \in SUBSET (Obligations \X (1..MaxCents))
      /\ \A p : Confirmed(p) \in SUBSET (Entries \X (1..MaxCents))
      /\ \A o : Covered(o) \in SUBSET (Payments \X (1..MaxCents))
      /\ \A e : Matched(e) \in SUBSET (Payments \X (1..MaxCents))
  BY DEF Spent, Confirmed, Covered, Matched
<1>4. QED BY <1>2, <1>3, FS_Subset

LEMMA AddCents ==
  ASSUME NEW S, IsFiniteSet(S), NEW x, NEW a \in Nat, \A k \in 1..a : <<x, k>> \notin S
  PROVE  /\ IsFiniteSet(S \cup ({x} \X (1..a)))
         /\ Cardinality(S \cup ({x} \X (1..a))) = Cardinality(S) + a
<1> DEFINE T == {x} \X (1..a)
<1>1. IsFiniteSet(1..a) /\ Cardinality(1..a) = a
  <2>1. 1 \in Int /\ a \in Int
    OBVIOUS
  <2>2. IsFiniteSet(1..a) /\ Cardinality(1..a) = IF 1 > a THEN 0 ELSE a - 1 + 1
    BY <2>1, FS_Interval, Zenon
  <2>3. QED BY <2>2
<1>2. IsFiniteSet({x}) /\ Cardinality({x}) = 1
  BY FS_Singleton, Zenon
<1>3. IsFiniteSet(T) /\ Cardinality(T) = a
  <2>1. IsFiniteSet(T) /\ Cardinality(T) = Cardinality({x}) * Cardinality(1..a)
    BY <1>1, <1>2, FS_Product, Zenon
  <2>2. QED BY <1>1, <1>2, <2>1
<1>4. S \cap T = {}
  OBVIOUS
<1>5. Cardinality(S \cap T) = 0
  BY <1>4, FS_EmptySet
<1>6. Cardinality(S) \in Nat
  BY FS_CardinalityType
<1>7. QED BY <1>3, <1>5, <1>6, FS_Union

(* A set of cents that differs from another by the cents of one row. *)
LEMMA GrownBy ==
  ASSUME NEW A, NEW x \in A, NEW a \in 1..MaxCents,
         NEW S \in SUBSET (A \X (1..MaxCents)), NEW T \in SUBSET (A \X (1..MaxCents)),
         \A y \in A, k \in 1..MaxCents :
           <<y, k>> \in S <=> <<y, k>> \in T \/ (y = x /\ k <= a)
  PROVE  S = T \cup ({x} \X (1..a))
<1>1. {x} \X (1..a) \subseteq A \X (1..MaxCents)
  BY CentsAssumption
<1>2. \A y \in A, k \in 1..MaxCents :
        <<y, k>> \in {x} \X (1..a) <=> y = x /\ k <= a
  <2>1. ASSUME NEW y \in A, NEW k \in 1..MaxCents
        PROVE  <<y, k>> \in {x} \X (1..a) <=> y \in {x} /\ k \in 1..a
    OBVIOUS
  <2>2. \A k \in 1..MaxCents : k \in 1..a <=> k <= a
    BY CentsAssumption
  <2>3. QED BY <2>1, <2>2
<1>3. ASSUME NEW u \in A \X (1..MaxCents)
      PROVE  u \in S <=> u \in T \cup ({x} \X (1..a))
  <2>1. PICK y \in A, k \in 1..MaxCents : u = <<y, k>>
    OBVIOUS
  <2>2. QED BY <1>2, <2>1
<1>4. QED BY <1>1, <1>3

(* Steps that leave the rows alone, and reverse nothing, leave the sums. *)
LEMMA SameSums ==
  ASSUME alloc' = alloc, link' = link, undone' = undone,
         \A p \in Payments : state'[p] = "reversed" <=> state[p] = "reversed"
  PROVE  /\ \A p \in Payments : Spent(p)' = Spent(p) /\ Confirmed(p)' = Confirmed(p)
         /\ \A o \in Obligations : Covered(o)' = Covered(o)
         /\ \A e \in Entries : Matched(e)' = Matched(e)
<1>1. \A o \in Obligations : Covered(o)' = Covered(o)
  BY DEF Covered
<1>2. QED BY <1>1 DEF Spent, Confirmed, Matched

(* An allocation adds its cents to what the payment spends and to what the *)
(* obligation is covered with.                                             *)
LEMMA AllocationSums ==
  ASSUME TypeOK, NEW p \in Payments, NEW o \in Obligations, NEW a \in 1..MaxCents,
         state' = state, link' = link, undone' = undone,
         alloc[p][o] = 0, state[p] # "reversed", alloc' = [alloc EXCEPT ![p][o] = a]
  PROVE  /\ \A r \in Payments :
              /\ Confirmed(r)' = Confirmed(r)
              /\ Spent(r)' = IF r = p THEN Spent(p) \cup ({o} \X (1..a)) ELSE Spent(r)
         /\ \A x \in Obligations :
              Covered(x)' = IF x = o THEN Covered(o) \cup ({p} \X (1..a)) ELSE Covered(x)
         /\ \A e \in Entries : Matched(e)' = Matched(e)
         /\ \A k \in 1..a : <<o, k>> \notin Spent(p) /\ <<p, k>> \notin Covered(o)
<1>1. /\ alloc \in [Payments -> [Obligations -> 0..MaxCents]]
      /\ 1..a \subseteq 1..MaxCents
  BY CentsAssumption DEF TypeOK
<1>2. \A r \in Payments, x \in Obligations :
        alloc'[r][x] = IF r = p /\ x = o THEN a ELSE alloc[r][x]
  BY <1>1
<1>3. ASSUME NEW r \in Payments
      PROVE  Spent(r)' = IF r = p THEN Spent(p) \cup ({o} \X (1..a)) ELSE Spent(r)
  BY <1>1, <1>2 DEF Spent
<1>4. ASSUME NEW x \in Obligations
      PROVE  Covered(x)' = IF x = o THEN Covered(o) \cup ({p} \X (1..a)) ELSE Covered(x)
  BY <1>1, <1>2 DEF Covered
<1>5. \A k \in 1..a : <<o, k>> \notin Spent(p) /\ <<p, k>> \notin Covered(o)
  BY <1>1 DEF Spent, Covered
<1>6. QED BY <1>3, <1>4, <1>5 DEF Confirmed, Matched

(* A reconciliation, to what the entry and the payment have reconciled. *)
LEMMA ReconciliationSums ==
  ASSUME TypeOK, BooksInv,
         NEW e \in Entries, NEW p \in Payments, NEW a \in 1..MaxCents,
         alloc' = alloc, undone' = undone,
         \A r \in Payments : state'[r] = state[r],
         link[e][p] = 0, link' = [link EXCEPT ![e][p] = a]
  PROVE  /\ \A r \in Payments :
              /\ Spent(r)' = Spent(r)
              /\ Confirmed(r)' = IF r = p THEN Confirmed(p) \cup ({e} \X (1..a)) ELSE Confirmed(r)
         /\ \A o \in Obligations : Covered(o)' = Covered(o)
         /\ \A x \in Entries :
              Matched(x)' = IF x = e THEN Matched(e) \cup ({p} \X (1..a)) ELSE Matched(x)
         /\ \A k \in 1..a : <<e, k>> \notin Confirmed(p) /\ <<p, k>> \notin Matched(e)
<1>1. /\ link \in [Entries -> [Payments -> 0..MaxCents]]
      /\ 1..a \subseteq 1..MaxCents
      /\ <<e, p>> \notin undone
  BY CentsAssumption DEF TypeOK, BooksInv
<1>2. \A x \in Entries, r \in Payments :
        link'[x][r] = IF x = e /\ r = p THEN a ELSE link[x][r]
  BY <1>1
<1>3. ASSUME NEW r \in Payments
      PROVE  Confirmed(r)' = IF r = p THEN Confirmed(p) \cup ({e} \X (1..a)) ELSE Confirmed(r)
  <2>1. \A x \in Entries, k \in 1..MaxCents :
          <<x, k>> \in Confirmed(r)' <=>
            <<x, k>> \in Confirmed(r) \/ (r = p /\ x = e /\ k <= a)
    BY <1>1, <1>2 DEF Confirmed
  <2>2. Confirmed(r)' \in SUBSET (Entries \X (1..MaxCents))
    BY DEF Confirmed
  <2>3. Confirmed(r) \in SUBSET (Entries \X (1..MaxCents))
    BY DEF Confirmed
  <2>4. CASE r = p
    <3> DEFINE S == Confirmed(r)'
               T == Confirmed(r)
    <3>1. /\ S \in SUBSET (Entries \X (1..MaxCents))
          /\ T \in SUBSET (Entries \X (1..MaxCents))
          /\ \A y \in Entries, k \in 1..MaxCents :
               <<y, k>> \in S <=> <<y, k>> \in T \/ (y = e /\ k <= a)
      BY <2>1, <2>2, <2>3, <2>4
    <3> HIDE DEF S, T
    <3>2. S = T \cup ({e} \X (1..a))
      <4>1. ASSUME NEW y \in Entries, NEW k \in 1..MaxCents
            PROVE  <<y, k>> \in {e} \X (1..a) <=> y = e /\ k <= a
        BY CentsAssumption
      <4>2. {e} \X (1..a) \in SUBSET (Entries \X (1..MaxCents))
        BY <1>1
      <4>3. ASSUME NEW u \in Entries \X (1..MaxCents)
            PROVE  u \in S <=> u \in T \cup ({e} \X (1..a))
        BY <3>1, <4>1
      <4>4. QED BY <3>1, <4>2, <4>3
    <3> USE DEF S, T
    <3>3. QED BY <2>4, <3>2
  <2>5. CASE r # p
    BY <2>1, <2>2, <2>3, <2>5
  <2>6. QED BY <2>4, <2>5
<1>4. ASSUME NEW x \in Entries
      PROVE  Matched(x)' = IF x = e THEN Matched(e) \cup ({p} \X (1..a)) ELSE Matched(x)
  <2>1. \A r \in Payments, k \in 1..MaxCents :
          <<r, k>> \in Matched(x)' <=>
            <<r, k>> \in Matched(x) \/ (r = p /\ x = e /\ k <= a)
    BY <1>1, <1>2 DEF Matched
  <2>2. Matched(x)' \subseteq Payments \X (1..MaxCents)
    BY DEF Matched
  <2>3. Matched(x) \subseteq Payments \X (1..MaxCents)
    BY DEF Matched
  <2>4. CASE x = e
    BY <2>1, <2>2, <2>3, <2>4, GrownBy
  <2>5. CASE x # e
    <3>1. \A u \in Payments \X (1..MaxCents) : u \in Matched(x)' <=> u \in Matched(x)
      BY <1>2, <2>5 DEF Matched
    <3>2. QED BY <2>2, <2>3, <2>5, <3>1
  <2>6. QED BY <2>4, <2>5
<1>5. \A k \in 1..a : <<e, k>> \notin Confirmed(p) /\ <<p, k>> \notin Matched(e)
  BY <1>1 DEF Confirmed, Matched
<1>6. \A o \in Obligations : Covered(o)' = Covered(o)
  BY DEF Covered
<1>7. QED BY <1>3, <1>4, <1>5, <1>6 DEF Spent

(* A reversal takes the payment's cents out of every sum but its own. *)
LEMMA ReversalSums ==
  ASSUME TypeOK, NEW p \in Payments, alloc' = alloc, link' = link,
         undone' = undone \cup {<<e, p>> : e \in Linked(p)},
         \A r \in Payments : state'[r] = IF r = p THEN "reversed" ELSE state[r]
  PROVE  /\ \A r \in Payments :
              /\ Spent(r)' = Spent(r)
              /\ Confirmed(r)' = IF r = p THEN {} ELSE Confirmed(r)
         /\ \A o \in Obligations : Covered(o)' \subseteq Covered(o)
         /\ \A e \in Entries : Matched(e)' = {u \in Matched(e) : u[1] # p}
<1>1. link \in [Entries -> [Payments -> 0..MaxCents]]
  BY DEF TypeOK
<1>2. \A e \in Entries, r \in Payments :
        <<e, r>> \in undone' <=> <<e, r>> \in undone \/ (r = p /\ e \in Linked(p))
  OBVIOUS
<1>3. \A e \in Entries, k \in 1..MaxCents :
        k <= link[e][p] /\ <<e, p>> \notin undone => e \in Linked(p)
  BY <1>1, CentsAssumption DEF Linked
<1>4. ASSUME NEW r \in Payments
      PROVE  Confirmed(r)' = IF r = p THEN {} ELSE Confirmed(r)
  BY <1>1, <1>2, <1>3 DEF Confirmed
<1>5. ASSUME NEW e \in Entries PROVE Matched(e)' = {u \in Matched(e) : u[1] # p}
  BY <1>1, <1>2, <1>3 DEF Matched
<1>6. \A o \in Obligations : Covered(o)' \subseteq Covered(o)
  BY DEF Covered
<1>7. QED BY <1>4, <1>5, <1>6 DEF Spent

-----------------------------------------------------------------------------
AnyState == {"absent"} \cup ObligationStates \cup PaymentStates \cup EntryStates

Safe == TypeOK /\ LockInv /\ ShownInv
Money == BooksInv /\ WithinAmounts /\ EntryStatusTrue /\ ReversedCountsNowhere

(* The statuses of each table. *)
LEMMA StatesOf ==
  /\ \A x \in Records : States(x) \subseteq AnyState
  /\ \A x \in Obligations : States(x) = {"draft", "submitted", "approved", "rejected"}
  /\ \A x \in Payments : States(x) = {"recorded", "reversed"}
  /\ \A x \in Entries : States(x) = {"unreconciled", "partial", "reconciled"}
BY TablesDisjoint DEF AnyState, States, ObligationStates, PaymentStates, EntryStates

(* A status that the links give is a status. *)
LEMMA StatusType ==
  \A t, w : EntryStatus(t, w) \in EntryStates
BY DEF EntryStatus, EntryStates

(* Every variable keeps its type. *)
LEMMA TypeStep == Safe /\ [Next]_vars => TypeOK'
<1> SUFFICES ASSUME Safe, [Next]_vars PROVE TypeOK'
  OBVIOUS
<1>a. TypeOK /\ LockInv /\ ShownInv
  BY DEF Safe
<1>f. ASSUME NEW q \in Requests, NEW xs, Finish(q, xs)
      PROVE  /\ at' \in [Requests -> {"idle", "arrived", "inside"}]
             /\ job' \in [Requests -> Jobs \cup {None}]
             /\ stale' \subseteq Requests
             /\ holds' \in [Requests -> SUBSET Rows]
  BY <1>a, <1>f DEF TypeOK, Finish
<1>s. ASSUME NEW x \in Records, NEW s \in States(x),
             state' = [state EXCEPT ![x] = s]
      PROVE  /\ state' \in [Records -> AnyState]
             /\ \A y \in Records : state'[y] \in States(y) \cup {"absent"}
  BY <1>a, <1>s, StatesOf DEF TypeOK, AnyState
<1>j. ASSUME NEW q \in Requests, Ready(q) PROVE job[q] \in Jobs
  BY <1>a, <1>j, Alone
<1>1. ASSUME NEW x \in Records, NEW a \in Amounts, Record(x, a) PROVE TypeOK'
  <2> DEFINE s == IF x \in Obligations THEN "draft"
                  ELSE IF x \in Payments THEN "recorded" ELSE "unreconciled"
  <2>1. s \in States(x)
    BY StatesOf, TablesDisjoint DEF Records
  <2>2. state' = [state EXCEPT ![x] = s]
    BY <1>1 DEF Record
  <2> HIDE DEF s
  <2>3. amount' \in [Records -> 0..MaxCents]
    BY <1>a, <1>1, CentsAssumption DEF TypeOK, Record
  <2>4. QED BY <1>a, <1>1, <1>s, <2>1, <2>2, <2>3 DEF TypeOK, Record, requests, AnyState
<1>2. ASSUME NEW q \in Requests, NEW j \in Jobs, Arrive(q, j) PROVE TypeOK'
  BY <1>a, <1>2 DEF TypeOK, Arrive, ledger
<1>3. ASSUME NEW q \in Requests, Enter(q) PROVE TypeOK'
  BY <1>a, <1>3 DEF TypeOK, Enter, ledger, Rows
<1>4. ASSUME NEW q \in Requests, NEW x \in Records, LockRow(q, x) PROVE TypeOK'
  BY <1>a, <1>4 DEF TypeOK, LockRow, ledger, Rows
<1>5. ASSUME NEW q \in Requests, Refuse(q) PROVE TypeOK'
  BY <1>a, <1>5, <1>f DEF TypeOK, Refuse, ledger
<1>6. ASSUME NEW q \in Requests, Edit(q) PROVE TypeOK'
  <2>1. job[q].object \in Records /\ job[q].cents \in Amounts
    BY <1>6, <1>j, JobFields DEF Edit
  <2>2. amount' \in [Records -> 0..MaxCents]
    BY <1>a, <1>6, <2>1, CentsAssumption DEF TypeOK, Edit
  <2>3. QED BY <1>a, <1>6, <1>f, <2>2 DEF TypeOK, Edit
<1>7. ASSUME NEW q \in Requests, Submit(q) PROVE TypeOK'
  <2>1. job[q].object \in Obligations
    BY <1>7, <1>j, JobFields DEF Submit
  <2>2. "submitted" \in States(job[q].object) /\ job[q].object \in Records
    BY <2>1, StatesOf DEF Records
  <2>3. QED BY <1>a, <1>7, <1>f, <1>s, <2>2 DEF TypeOK, Submit, AnyState
<1>8. ASSUME NEW q \in Requests, Decide(q) PROVE TypeOK'
  <2>1. job[q].object \in Obligations
    BY <1>8, <1>j, JobFields DEF Decide
  <2>2. /\ {"approved", "rejected"} \subseteq States(job[q].object)
        /\ job[q].object \in Records
    BY <2>1, StatesOf DEF Records
  <2>3. QED BY <1>a, <1>8, <1>f, <1>s, <2>2 DEF TypeOK, Decide, AnyState
<1>9. ASSUME NEW q \in Requests, Allocate(q) PROVE TypeOK'
  <2>1. job[q].cents \in 0..MaxCents /\ job[q].object \in Payments /\ job[q].other \in Obligations
    BY <1>9, <1>j, JobFields, CentsAssumption DEF Allocate
  <2>2. alloc' \in [Payments -> [Obligations -> 0..MaxCents]]
    BY <1>a, <1>9, <2>1 DEF TypeOK, Allocate
  <2>3. QED BY <1>a, <1>9, <1>f, <2>2 DEF TypeOK, Allocate
<1>10. ASSUME NEW q \in Requests, Reconcile(q) PROVE TypeOK'
  <2> DEFINE e == job[q].object
             s == EntryStatus(Cardinality(Matched(e)) + job[q].cents, amount[e])
  <2>1. job[q].cents \in 0..MaxCents /\ e \in Entries /\ job[q].other \in Payments
    BY <1>10, <1>j, JobFields, CentsAssumption DEF Reconcile, ReconcileWith
  <2>2. s \in States(e) /\ e \in Records
    BY <2>1, StatusType, StatesOf, TablesDisjoint DEF Records, EntryStates
  <2>3. state' = [state EXCEPT ![e] = s]
    BY <1>10 DEF Reconcile, ReconcileWith
  <2>4. /\ state' \in [Records -> AnyState]
        /\ \A y \in Records : state'[y] \in States(y) \cup {"absent"}
    <3> HIDE DEF s, e
    <3>1. QED BY <1>s, <2>2, <2>3
  <2>5. link' \in [Entries -> [Payments -> 0..MaxCents]]
    BY <1>a, <1>10, <2>1 DEF TypeOK, Reconcile, ReconcileWith, AnyState
  <2>6. QED BY <1>a, <1>10, <1>f, <2>4, <2>5 DEF TypeOK, Reconcile, ReconcileWith, AnyState
<1>11. ASSUME NEW q \in Requests, Reverse(q) PROVE TypeOK'
  <2> DEFINE p == job[q].object
  <2>1. p \in Payments
    BY <1>11, <1>j, JobFields DEF Reverse
  <2>2. \A x \in Linked(p) : x \in Entries
    BY DEF Linked
  <2>3. \A x \in Entries : {"unreconciled", "partial"} \subseteq States(x)
    BY StatesOf
  <2>4. "reversed" \in States(p)
    BY <2>1, StatesOf
  <2>5. /\ state' \in [Records -> AnyState]
        /\ \A x \in Records : state'[x] \in States(x) \cup {"absent"}
    BY <1>a, <1>11, <2>2, <2>3, <2>4, StatesOf DEF TypeOK, Reverse, AnyState
  <2>6. undone' \subseteq Entries \X Payments
    BY <1>a, <1>11, <2>1, <2>2 DEF TypeOK, Reverse, AnyState
  <2>7. QED BY <1>a, <1>11, <1>f, <2>5, <2>6 DEF TypeOK, Reverse, AnyState
<1>12. CASE UNCHANGED vars
  BY <1>a, <1>12 DEF TypeOK, vars, ledger, requests
<1>13. QED
  BY <1>1, <1>2, <1>3, <1>4, <1>5, <1>6, <1>7, <1>8, <1>9, <1>10, <1>11, <1>12
     DEF Next, Handle, Carry

-----------------------------------------------------------------------------
LEMMA SumsNatural ==
  /\ \A p \in Payments : Cardinality(Spent(p)) \in Nat /\ Cardinality(Confirmed(p)) \in Nat
  /\ \A o \in Obligations : Cardinality(Covered(o)) \in Nat
  /\ \A e \in Entries : Cardinality(Matched(e)) \in Nat
BY SumsFinite, FS_CardinalityType

(* An entry with no cents reconciled is unreconciled, and only it. *)
LEMMA MatchedEmpty ==
  ASSUME NEW e \in Entries
  PROVE  Cardinality(Matched(e)) = 0 <=> Matched(e) = {}
BY SumsFinite, FS_EmptySet

(* The amounts, statuses and rows agree after a new record. *)
LEMMA RecordMoney ==
  ASSUME Safe, Money, NEW x \in Records, NEW a \in Amounts, Record(x, a)
  PROVE  Money'
<1>a. TypeOK /\ BooksInv /\ WithinAmounts /\ EntryStatusTrue /\ ReversedCountsNowhere
  BY DEF Safe, Money
<1> DEFINE s == IF x \in Obligations THEN "draft"
                ELSE IF x \in Payments THEN "recorded" ELSE "unreconciled"
<1>1. /\ alloc' = alloc /\ link' = link /\ undone' = undone
      /\ state[x] = "absent" /\ amount[x] = 0
      /\ \A y \in Records : state'[y] = IF y = x THEN s ELSE state[y]
      /\ \A y \in Records : amount'[y] = IF y = x THEN a ELSE amount[y]
      /\ a \in Nat
  BY <1>a, CentsAssumption DEF Record, TypeOK, BooksInv
<1>2. \A p \in Payments : state'[p] = "reversed" <=> state[p] = "reversed"
  BY <1>1, TablesDisjoint DEF Records
<1>3. /\ \A p \in Payments : Spent(p)' = Spent(p) /\ Confirmed(p)' = Confirmed(p)
      /\ \A o \in Obligations : Covered(o)' = Covered(o)
      /\ \A e \in Entries : Matched(e)' = Matched(e)
  BY <1>1, <1>2, SameSums
<1>4. BooksInv'
  BY <1>a, <1>1, TablesDisjoint DEF BooksInv, Records
<1>5. WithinAmounts'
  <2>1. \A y \in Records : amount[y] \in Nat /\ amount'[y] \in Nat /\ amount[y] <= amount'[y]
    BY <1>a, <1>1, CentsAssumption DEF TypeOK
  <2>2. /\ \A o \in Obligations : Cardinality(Covered(o)) <= amount'[o]
        /\ \A p \in Payments : /\ Cardinality(Spent(p)) <= amount'[p]
                               /\ Cardinality(Confirmed(p)) <= amount'[p]
        /\ \A e \in Entries : Cardinality(Matched(e)) <= amount'[e]
    BY <1>a, <2>1, SumsNatural DEF WithinAmounts, Records
  <2>3. QED BY <1>3, <2>2 DEF WithinAmounts
<1>6. EntryStatusTrue'
  <2>1. ASSUME NEW e \in Entries, e = x
        PROVE  state'[e] = EntryStatus(Cardinality(Matched(e)), amount'[e])
    <3>1. Cardinality(Matched(e)) = 0
      BY <1>a, <1>1, <2>1, SumsNatural DEF WithinAmounts
    <3>2. QED BY <1>1, <2>1, <3>1, TablesDisjoint DEF EntryStatus, Records
  <2>2. QED BY <1>a, <1>1, <1>3, <2>1 DEF EntryStatusTrue, Records
<1>7. ReversedCountsNowhere'
  BY <1>a, <1>2, <1>3 DEF ReversedCountsNowhere
<1>8. QED BY <1>4, <1>5, <1>6, <1>7 DEF Money

(* After an obligation was edited, submitted or decided: it was no draft,  *)
(* and not submitted, when something was allocated to it.                  *)
LEMMA ObligationMoney ==
  ASSUME Safe, Money, NEW q \in Requests, Edit(q) \/ Submit(q) \/ Decide(q)
  PROVE  Money'
<1>a. TypeOK /\ BooksInv /\ WithinAmounts /\ EntryStatusTrue /\ ReversedCountsNowhere
  BY DEF Safe, Money
<1>1. PICK o \in Obligations :
        /\ alloc' = alloc /\ link' = link /\ undone' = undone
        /\ state[o] \in {"draft", "submitted"}
        /\ \A y \in Records \ {o} : state'[y] = state[y] /\ amount'[y] = amount[y]
        /\ state'[o] # "absent"
        /\ amount'[o] = amount[o] \/ (state[o] = "draft" /\ amount'[o] \in Nat)
  <2>1. Ready(q) /\ job[q].kind \in {"edit", "submit", "approve", "reject"}
    BY DEF Edit, Submit, Decide
  <2>2. job[q].object \in Obligations /\ (job[q].kind = "edit" => job[q].cents \in Nat)
    BY <2>1, Alone, JobFields, CentsAssumption DEF Safe
  <2>3. CASE Edit(q)
    BY <1>a, <2>2, <2>3 DEF TypeOK, Edit, Records
  <2>4. CASE Submit(q)
    BY <1>a, <2>2, <2>4 DEF TypeOK, Submit, Records
  <2>5. CASE Decide(q)
    BY <1>a, <2>2, <2>5 DEF TypeOK, Decide, Records
  <2>6. QED BY <2>3, <2>4, <2>5
<1>2. \A y \in Payments \cup Entries : state'[y] = state[y] /\ amount'[y] = amount[y]
  BY <1>1, TablesDisjoint DEF Records
<1>3. /\ \A p \in Payments : Spent(p)' = Spent(p) /\ Confirmed(p)' = Confirmed(p)
      /\ \A x \in Obligations : Covered(x)' = Covered(x)
      /\ \A e \in Entries : Matched(e)' = Matched(e)
  BY <1>1, <1>2, SameSums
<1>4. Covered(o) = {}
  <2>1. \A p \in Payments : alloc[p][o] = 0
    BY <1>a, <1>1 DEF BooksInv, TypeOK
  <2>2. QED BY <2>1 DEF Covered
<1>5. Cardinality(Covered(o)) = 0
  BY <1>4, FS_EmptySet
<1>6. BooksInv'
  BY <1>a, <1>1 DEF BooksInv, Records
<1>7. WithinAmounts'
  BY <1>a, <1>1, <1>2, <1>3, <1>5 DEF WithinAmounts, Records
<1>8. EntryStatusTrue' /\ ReversedCountsNowhere'
  BY <1>a, <1>2, <1>3 DEF EntryStatusTrue, ReversedCountsNowhere
<1>9. QED BY <1>6, <1>7, <1>8 DEF Money

(* After an allocation, within what was left of both sides. *)
LEMMA AllocateMoney ==
  ASSUME Safe, Money, NEW q \in Requests, Allocate(q)
  PROVE  Money'
<1>a. TypeOK /\ BooksInv /\ WithinAmounts /\ EntryStatusTrue /\ ReversedCountsNowhere
  BY DEF Safe, Money
<1>1. PICK p \in Payments, o \in Obligations, a \in 1..MaxCents :
        /\ state[p] # "reversed" /\ state[o] = "approved" /\ alloc[p][o] = 0
        /\ Cardinality(Spent(p)) + a <= amount[p]
        /\ Cardinality(Covered(o)) + a <= amount[o]
        /\ alloc' = [alloc EXCEPT ![p][o] = a]
        /\ state' = state /\ amount' = amount /\ link' = link /\ undone' = undone
  <2>1. Ready(q) /\ job[q].kind = "allocate"
    BY DEF Allocate
  <2>2. /\ job[q].object \in Payments /\ job[q].other \in Obligations
        /\ job[q].cents \in 1..MaxCents
    BY <2>1, Alone, JobFields, CentsAssumption DEF Safe
  <2>3. QED BY <2>2 DEF Allocate
<1>2. /\ \A r \in Payments :
           /\ Confirmed(r)' = Confirmed(r)
           /\ Spent(r)' = IF r = p THEN Spent(p) \cup ({o} \X (1..a)) ELSE Spent(r)
      /\ \A x \in Obligations :
           Covered(x)' = IF x = o THEN Covered(o) \cup ({p} \X (1..a)) ELSE Covered(x)
      /\ \A e \in Entries : Matched(e)' = Matched(e)
      /\ \A k \in 1..a : <<o, k>> \notin Spent(p) /\ <<p, k>> \notin Covered(o)
  BY <1>a, <1>1, AllocationSums
<1>3. Cardinality(Spent(p)') = Cardinality(Spent(p)) + a
  <2>1. a \in Nat /\ IsFiniteSet(Spent(p)) /\ \A k \in 1..a : <<o, k>> \notin Spent(p)
    <3>1. a \in Nat
      BY <1>1, CentsAssumption
    <3>2. IsFiniteSet(Spent(p))
      BY <1>1, SumsFinite
    <3>3. \A k \in 1..a : <<o, k>> \notin Spent(p)
      BY <1>2
    <3>4. QED BY <3>1, <3>2, <3>3
  <2>2. Cardinality(Spent(p) \cup ({o} \X (1..a))) = Cardinality(Spent(p)) + a
    BY <2>1, AddCents
  <2>3. QED BY <1>2, <2>2
<1>4. Cardinality(Covered(o)') = Cardinality(Covered(o)) + a
  <2>1. a \in Nat /\ IsFiniteSet(Covered(o)) /\ \A k \in 1..a : <<p, k>> \notin Covered(o)
    <3>1. a \in Nat
      BY <1>1, CentsAssumption
    <3>2. IsFiniteSet(Covered(o))
      BY <1>1, SumsFinite
    <3>3. \A k \in 1..a : <<p, k>> \notin Covered(o)
      BY <1>2
    <3>4. QED BY <3>1, <3>2, <3>3
  <2>2. Cardinality(Covered(o) \cup ({p} \X (1..a))) = Cardinality(Covered(o)) + a
    BY <2>1, AddCents
  <2>3. QED BY <1>2, <2>2
<1>5. WithinAmounts'
  BY <1>a, <1>1, <1>2, <1>3, <1>4 DEF WithinAmounts
<1>6. BooksInv'
  BY <1>a, <1>1 DEF BooksInv, TypeOK
<1>7. EntryStatusTrue' /\ ReversedCountsNowhere'
  BY <1>a, <1>1, <1>2 DEF EntryStatusTrue, ReversedCountsNowhere
<1>8. QED BY <1>5, <1>6, <1>7 DEF Money

(* After a reconciliation, within what was left of both sides. *)
LEMMA ReconcileMoney ==
  ASSUME Safe, Money, NEW q \in Requests, Reconcile(q)
  PROVE  Money'
<1>a. TypeOK /\ BooksInv /\ WithinAmounts /\ EntryStatusTrue /\ ReversedCountsNowhere
  BY DEF Safe, Money
<1>1. PICK e \in Entries, p \in Payments, a \in 1..MaxCents :
        /\ state[p] = "recorded" /\ link[e][p] = 0
        /\ Cardinality(Matched(e)) + a <= amount[e]
        /\ Cardinality(Confirmed(p)) + a <= amount[p]
        /\ link' = [link EXCEPT ![e][p] = a]
        /\ state' = [state EXCEPT ![e] = EntryStatus(Cardinality(Matched(e)) + a, amount[e])]
        /\ amount' = amount /\ alloc' = alloc /\ undone' = undone
  <2>1. Ready(q) /\ job[q].kind = "reconcile"
    BY DEF Reconcile, ReconcileWith
  <2>2. /\ job[q].object \in Entries /\ job[q].other \in Payments
        /\ job[q].cents \in 1..MaxCents
    BY <2>1, Alone, JobFields, CentsAssumption DEF Safe
  <2>3. QED BY <2>2 DEF Reconcile, ReconcileWith
<1> DEFINE s == EntryStatus(Cardinality(Matched(e)) + a, amount[e])
<1>2. /\ \A y \in Records : state'[y] = IF y = e THEN s ELSE state[y]
      /\ s # "absent"
  BY <1>a, <1>1, StatusType DEF TypeOK, Records, EntryStates
<1>3. \A r \in Payments \cup Obligations : state'[r] = state[r]
  BY <1>2, TablesDisjoint DEF Records
<1>4. /\ \A r \in Payments :
           /\ Spent(r)' = Spent(r)
           /\ Confirmed(r)' = IF r = p THEN Confirmed(p) \cup ({e} \X (1..a)) ELSE Confirmed(r)
      /\ \A o \in Obligations : Covered(o)' = Covered(o)
      /\ \A x \in Entries :
           Matched(x)' = IF x = e THEN Matched(e) \cup ({p} \X (1..a)) ELSE Matched(x)
      /\ \A k \in 1..a : <<e, k>> \notin Confirmed(p) /\ <<p, k>> \notin Matched(e)
  BY <1>a, <1>1, <1>3, ReconciliationSums
<1>5. Cardinality(Confirmed(p)') = Cardinality(Confirmed(p)) + a
  <2>1. a \in Nat /\ IsFiniteSet(Confirmed(p)) /\ \A k \in 1..a : <<e, k>> \notin Confirmed(p)
    <3>1. a \in Nat
      BY <1>1, CentsAssumption
    <3>2. IsFiniteSet(Confirmed(p))
      BY <1>1, SumsFinite
    <3>3. \A k \in 1..a : <<e, k>> \notin Confirmed(p)
      BY <1>4
    <3>4. QED BY <3>1, <3>2, <3>3
  <2>2. Cardinality(Confirmed(p) \cup ({e} \X (1..a))) = Cardinality(Confirmed(p)) + a
    BY <2>1, AddCents
  <2>3. QED BY <1>4, <2>2
<1>6. Cardinality(Matched(e)') = Cardinality(Matched(e)) + a
  <2>1. a \in Nat /\ IsFiniteSet(Matched(e)) /\ \A k \in 1..a : <<p, k>> \notin Matched(e)
    <3>1. a \in Nat
      BY <1>1, CentsAssumption
    <3>2. IsFiniteSet(Matched(e))
      BY <1>1, SumsFinite
    <3>3. \A k \in 1..a : <<p, k>> \notin Matched(e)
      BY <1>4
    <3>4. QED BY <3>1, <3>2, <3>3
  <2>2. Cardinality(Matched(e) \cup ({p} \X (1..a))) = Cardinality(Matched(e)) + a
    BY <2>1, AddCents
  <2>3. QED BY <1>4, <2>2
<1>7. WithinAmounts'
  BY <1>a, <1>1, <1>4, <1>5, <1>6 DEF WithinAmounts
<1>8. BooksInv'
  BY <1>a, <1>1, <1>2, <1>3 DEF BooksInv, TypeOK
<1>9. EntryStatusTrue'
  BY <1>a, <1>1, <1>2, <1>4, <1>6 DEF EntryStatusTrue, Records
<1>10. ReversedCountsNowhere'
  BY <1>a, <1>1, <1>3, <1>4 DEF ReversedCountsNowhere
<1>11. QED BY <1>7, <1>8, <1>9, <1>10 DEF Money

(* After a reversal: fewer cents, and at least one less in its entries. *)
LEMMA ReverseMoney ==
  ASSUME Safe, Money, NEW q \in Requests, Reverse(q)
  PROVE  Money'
<1>a. TypeOK /\ BooksInv /\ WithinAmounts /\ EntryStatusTrue /\ ReversedCountsNowhere
  BY DEF Safe, Money
<1>1. PICK p \in Payments :
        /\ state[p] # "absent"
        /\ undone' = undone \cup {<<e, p>> : e \in Linked(p)}
        /\ state' = [x \in Records |->
             IF x = p THEN "reversed"
             ELSE IF x \in Linked(p) THEN
               IF {u \in Matched(x) : u[1] # p} = {} THEN "unreconciled" ELSE "partial"
             ELSE state[x]]
        /\ amount' = amount /\ alloc' = alloc /\ link' = link
  <2>1. Ready(q) /\ job[q].kind = "reverse"
    BY DEF Reverse
  <2>2. job[q].object \in Payments /\ state[job[q].object] # "absent"
    BY <2>1, Alone, JobFields DEF Safe
  <2>3. QED BY <2>2 DEF Reverse
<1>2. Linked(p) \subseteq Entries
  BY DEF Linked
<1>3. /\ \A r \in Payments : state'[r] = IF r = p THEN "reversed" ELSE state[r]
      /\ \A o \in Obligations : state'[o] = state[o]
  BY <1>1, <1>2, TablesDisjoint DEF Records
<1>4. /\ \A r \in Payments :
           /\ Spent(r)' = Spent(r)
           /\ Confirmed(r)' = IF r = p THEN {} ELSE Confirmed(r)
      /\ \A o \in Obligations : Covered(o)' \subseteq Covered(o)
      /\ \A e \in Entries : Matched(e)' = {u \in Matched(e) : u[1] # p}
  BY <1>a, <1>1, <1>3, ReversalSums
<1>5. \A o \in Obligations : Cardinality(Covered(o)') <= Cardinality(Covered(o))
                             /\ Cardinality(Covered(o)') \in Nat
  BY <1>4, SumsFinite, FS_Subset, FS_CardinalityType
<1>6. \A e \in Entries : /\ Cardinality(Matched(e)') <= Cardinality(Matched(e))
                         /\ Cardinality(Matched(e)') \in Nat
                         /\ Cardinality(Matched(e)') = Cardinality(Matched(e))
                              => Matched(e)' = Matched(e)
  BY <1>4, SumsFinite, FS_Subset, FS_CardinalityType
<1>7. WithinAmounts'
  <2>1. \A y \in Records : amount'[y] = amount[y] /\ amount[y] \in Nat
    BY <1>a, <1>1, CentsAssumption DEF TypeOK
  <2>2. \A o \in Obligations : Cardinality(Covered(o)') <= amount'[o]
    BY <1>a, <1>5, <2>1, SumsNatural DEF WithinAmounts, Records
  <2>3. \A r \in Payments : Cardinality(Spent(r)') <= amount'[r]
    BY <1>a, <1>4, <2>1 DEF WithinAmounts, Records
  <2>4. \A r \in Payments : Cardinality(Confirmed(r)') <= amount'[r]
    <3>1. \A r \in Payments \ {p} : Cardinality(Confirmed(r)') <= amount'[r]
      BY <1>a, <1>4, <2>1 DEF WithinAmounts, Records
    <3>2. Confirmed(p)' = {}
      BY <1>4
    <3>3. Cardinality(Confirmed(p)') = 0
      BY <3>2, FS_EmptySet
    <3>4. QED BY <2>1, <3>1, <3>3 DEF Records
  <2>5. \A e \in Entries : Cardinality(Matched(e)') <= amount'[e]
    BY <1>a, <1>6, <2>1, SumsNatural DEF WithinAmounts, Records
  <2>6. QED BY <2>2, <2>3, <2>4, <2>5 DEF WithinAmounts
<1>8. BooksInv'
  <2>1. \A x \in Records : state'[x] = "absent" => amount'[x] = 0
    BY <1>a, <1>1 DEF BooksInv
  <2>2. \A e \in Entries, r \in Payments : <<e, r>> \in undone' => link'[e][r] > 0
    <3>1. \A e \in Entries, r \in Payments :
            <<e, r>> \in undone' => <<e, r>> \in undone \/ (r = p /\ e \in Linked(p))
      BY <1>1
    <3>2. QED BY <1>a, <1>1, <3>1 DEF BooksInv, Linked
  <2>3. QED BY <1>a, <1>1, <1>3, <2>1, <2>2 DEF BooksInv
<1>9. EntryStatusTrue'
  <2>1. ASSUME NEW e \in Entries, e \notin Linked(p), state'[e] # "absent"
        PROVE  state'[e] = EntryStatus(Cardinality(Matched(e)'), amount'[e])
    <3>1. Matched(e)' = Matched(e)
      <4>1. \A u \in Matched(e) : u[1] # p
        <5>1. SUFFICES ASSUME NEW u \in Matched(e), u[1] = p PROVE FALSE
          OBVIOUS
        <5>2. /\ <<e, p>> \notin undone
              /\ u[2] \in 1..MaxCents /\ u[2] <= link[e][p]
          BY <5>1 DEF Matched
        <5>3. link[e][p] \in 0..MaxCents
          BY <1>a DEF TypeOK
        <5>4. link[e][p] > 0
          BY <5>2, <5>3, CentsAssumption
        <5>5. QED BY <2>1, <5>2, <5>4 DEF Linked
      <4>2. QED BY <1>4, <4>1
    <3>2. state'[e] = state[e]
      BY <1>1, <2>1, TablesDisjoint DEF Records
    <3>3. QED BY <1>a, <1>1, <2>1, <3>1, <3>2 DEF EntryStatusTrue
  <2>2. ASSUME NEW e \in Linked(p)
        PROVE  state'[e] = EntryStatus(Cardinality(Matched(e)'), amount'[e])
    <3>1. e \in Entries /\ e # p /\ e \in Records
      BY <1>2, TablesDisjoint DEF Records
    <3>2. Matched(e)' # Matched(e)
      <4>1. <<p, 1>> \in Matched(e)
        <5>1. link[e][p] > 0 /\ <<e, p>> \notin undone
          BY DEF Linked
        <5>2. link[e][p] \in 0..MaxCents
          BY <1>a, <3>1 DEF TypeOK
        <5>3. 1 \in 1..MaxCents /\ 1 <= link[e][p]
          BY <5>1, <5>2, CentsAssumption
        <5>4. QED BY <5>1, <5>3 DEF Matched
      <4>2. <<p, 1>> \notin Matched(e)'
        BY <1>4, <3>1
      <4>3. QED BY <4>1, <4>2
    <3>3. Cardinality(Matched(e)') < amount[e]
      <4>1. Cardinality(Matched(e)) <= amount[e] /\ amount[e] \in Nat
        BY <1>a, <3>1, CentsAssumption DEF WithinAmounts, TypeOK
      <4>2. QED BY <1>6, <3>1, <3>2, <4>1, SumsNatural
    <3>4. CASE Matched(e)' = {}
      <4>1. Cardinality(Matched(e)') = 0
        BY <3>4, FS_EmptySet
      <4>2. state'[e] = "unreconciled"
        BY <1>1, <1>4, <3>1, <3>4
      <4>3. QED BY <4>1, <4>2 DEF EntryStatus
    <3>5. CASE Matched(e)' # {}
      <4>1. IsFiniteSet(Matched(e)')
        BY <1>4, <3>1, SumsFinite, FS_Subset
      <4>2. Cardinality(Matched(e)') # 0
        BY <3>5, <4>1, FS_EmptySet
      <4>3. state'[e] = "partial"
        BY <1>1, <1>4, <3>1, <3>5
      <4>4. Cardinality(Matched(e)') # amount'[e]
        BY <1>1, <1>6, <3>1, <3>3
      <4>5. QED BY <4>2, <4>3, <4>4 DEF EntryStatus
    <3>6. QED BY <3>4, <3>5
  <2>3. QED BY <2>1, <2>2 DEF EntryStatusTrue
<1>10. ReversedCountsNowhere'
  BY <1>a, <1>3, <1>4 DEF ReversedCountsNowhere
<1>11. QED BY <1>7, <1>8, <1>9, <1>10 DEF Money

(* Every other step leaves the ledger alone. *)
LEMMA SameMoney == Money /\ UNCHANGED ledger => Money'
<1> SUFFICES ASSUME Money, UNCHANGED ledger PROVE Money'
  OBVIOUS
<1>1. state' = state /\ amount' = amount /\ alloc' = alloc /\ link' = link /\ undone' = undone
  BY DEF ledger
<1>2. /\ \A p \in Payments : Spent(p)' = Spent(p) /\ Confirmed(p)' = Confirmed(p)
      /\ \A o \in Obligations : Covered(o)' = Covered(o)
      /\ \A e \in Entries : Matched(e)' = Matched(e)
  BY <1>1, SameSums
<1>3. QED BY <1>1, <1>2 DEF Money, BooksInv, WithinAmounts, EntryStatusTrue, ReversedCountsNowhere

LEMMA MoneyStep == Safe /\ Money /\ [Next]_vars => Money'
<1> SUFFICES ASSUME Safe, Money, [Next]_vars PROVE Money'
  OBVIOUS
<1>1. ASSUME NEW x \in Records, NEW a \in Amounts, Record(x, a) PROVE Money'
  BY <1>1, RecordMoney
<1>2. ASSUME NEW q \in Requests, Carry(q) PROVE Money'
  BY <1>2, ObligationMoney, AllocateMoney, ReconcileMoney, ReverseMoney DEF Carry
<1>3. ASSUME NEW q \in Requests,
             \/ \E j \in Jobs : Arrive(q, j)
             \/ Enter(q) \/ Refuse(q)
             \/ \E x \in Records : LockRow(q, x)
      PROVE  Money'
  BY <1>3, SameMoney DEF Arrive, Enter, Refuse, LockRow
<1>4. CASE UNCHANGED vars
  BY <1>4, SameMoney DEF vars
<1>5. QED BY <1>1, <1>2, <1>3, <1>4 DEF Next, Handle

FinanceInv == Safe /\ Money

LEMMA FinanceInit == Init => FinanceInv
<1> SUFFICES ASSUME Init PROVE FinanceInv
  OBVIOUS
<1>1. Safe
  <2>1. TypeOK
    BY CentsAssumption DEF Init, TypeOK, Rows
  <2>2. LockInv /\ ShownInv
    BY DEF Init, LockInv, ShownInv
  <2>3. QED BY <2>1, <2>2 DEF Safe
<1>2. BooksInv
  BY DEF Init, BooksInv, Records
<1>3. /\ \A p \in Payments : Spent(p) = {} /\ Confirmed(p) = {}
      /\ \A o \in Obligations : Covered(o) = {}
      /\ \A e \in Entries : Matched(e) = {}
  BY CentsAssumption DEF Init, Spent, Confirmed, Covered, Matched
<1>4. WithinAmounts
  <2>1. Cardinality({}) = 0
    BY FS_EmptySet
  <2>2. \A x \in Records : amount[x] = 0
    BY DEF Init
  <2>3. /\ \A o \in Obligations : Cardinality(Covered(o)) = 0
        /\ \A p \in Payments : Cardinality(Spent(p)) = 0 /\ Cardinality(Confirmed(p)) = 0
        /\ \A e \in Entries : Cardinality(Matched(e)) = 0
    BY <1>3, <2>1
  <2>4. QED BY <2>2, <2>3 DEF WithinAmounts, Records
<1>5. EntryStatusTrue /\ ReversedCountsNowhere
  BY DEF Init, EntryStatusTrue, ReversedCountsNowhere, Records
<1>6. QED BY <1>1, <1>2, <1>4, <1>5 DEF FinanceInv, Money

LEMMA FinanceInvariant == Spec => []FinanceInv
<1>1. FinanceInv /\ [Next]_vars => FinanceInv'
  BY TypeStep, LockStep, ShownStep, MoneyStep DEF FinanceInv, Safe
<1>2. QED BY <1>1, FinanceInit, PTL DEF Spec

-----------------------------------------------------------------------------
(* Every variable of Finance has its type. *)
THEOREM FinanceTypeCorrect == Spec => []TypeOK
BY FinanceInvariant, PTL DEF FinanceInv, Safe

(* No obligation, payment or entry is allocated or reconciled beyond its   *)
(* amount, by any number of requests (allocate_payment, reconcile_bank_    *)
(* entry, the reversal and the edits of drafts).                           *)
THEOREM NoCentTwice == Spec => []WithinAmounts
BY FinanceInvariant, PTL DEF FinanceInv, Money

(* The stored status of a bank entry is the one its active links give. *)
THEOREM EntryStatusCorrect == Spec => []EntryStatusTrue
BY FinanceInvariant, PTL DEF FinanceInv, Money

(* A reversed payment confirms no bank entry. *)
THEOREM ReversalComplete == Spec => []ReversedCountsNowhere
BY FinanceInvariant, PTL DEF FinanceInv, Money

(* The campaign's lock keeps two requests from waiting for each other. *)
THEOREM NoDeadlockOnRows == Spec => []NoCircularWait
<1>1. LockInv => NoCircularWait
  <2> SUFFICES ASSUME LockInv, NEW q \in Requests, NEW r \in Requests,
                      BlockedBy(q, r), BlockedBy(r, q)
               PROVE  FALSE
    BY DEF NoCircularWait
  <2>1. q # r /\ at[q] = "inside" /\ at[r] = "inside"
    BY DEF BlockedBy, NextRows
  <2>2. QED BY <2>1 DEF LockInv
<1>2. FinanceInv => NoCircularWait
  BY <1>1 DEF FinanceInv, Safe
<1>3. QED BY <1>2, FinanceInvariant, PTL

(* Nobody decides an obligation at an amount that the page did not show. *)
THEOREM DecisionsAsShown == Spec => DecidedAsShown
<1> DEFINE Shown ==
      \A o \in Obligations :
        state[o] # "absent" /\ state'[o] # state[o] =>
          \E q \in Requests : /\ at[q] = "inside" /\ at'[q] = "idle"
                              /\ job[q].object = o /\ job[q].shown = amount[o]
<1>1. FinanceInv /\ [Next]_vars => [Shown]_vars
  <2> SUFFICES ASSUME FinanceInv, Next, NEW o \in Obligations,
                      state[o] # "absent", state'[o] # state[o]
               PROVE  \E q \in Requests : /\ at[q] = "inside" /\ at'[q] = "idle"
                                          /\ job[q].object = o /\ job[q].shown = amount[o]
    OBVIOUS
  <2>a. TypeOK /\ LockInv /\ ShownInv /\ o \in Records
    BY DEF FinanceInv, Safe, Records
  <2>1. \A x \in Records, a \in Amounts : ~Record(x, a)
    BY <2>a DEF TypeOK, Record
  <2>2. \E q \in Requests : Carry(q)
    BY <2>1 DEF Next, Handle, Arrive, Enter, Refuse, LockRow, ledger
  <2>3. PICK q \in Requests : Carry(q)
    BY <2>2
  <2>4. Ready(q) /\ at'[q] = "idle"
    <3>1. Ready(q) /\ \E xs : Finish(q, xs)
      BY <2>a, <2>3, CarryEffect
    <3>2. QED BY <2>a, <3>1 DEF TypeOK, Finish
  <2>5. at[q] = "inside" /\ job[q] \in Jobs /\ job[q].shown = amount[job[q].object]
    BY <2>a, <2>4, Alone
  <2>6. job[q].object = o
    <3>1. CASE Edit(q) \/ Submit(q) \/ Decide(q)
      BY <2>a, <3>1 DEF TypeOK, Edit, Submit, Decide
    <3>2. CASE Allocate(q)
      BY <3>2 DEF Allocate
    <3>3. CASE Reconcile(q)
      BY <2>a, <3>3 DEF TypeOK, Reconcile, ReconcileWith
    <3>4. CASE Reverse(q)
      BY <2>a, <3>4, TablesDisjoint DEF Reverse, Linked
    <3>5. QED BY <2>3, <3>1, <3>2, <3>3, <3>4 DEF Carry
  <2>7. QED BY <2>4, <2>5, <2>6
<1>2. QED BY <1>1, FinanceInvariant, PTL DEF Spec, DecidedAsShown

-----------------------------------------------------------------------------
(* The finance implements the books.  What remains to be said of the marks *)
(* is that there is none without a reversal.                               *)
BooksKept == FinanceInv /\ UndoneReversed

LEMMA UndoneStep == FinanceInv /\ UndoneReversed /\ [Next]_vars => UndoneReversed'
<1> SUFFICES ASSUME FinanceInv, UndoneReversed, [Next]_vars PROVE UndoneReversed'
  OBVIOUS
<1>a. TypeOK /\ LockInv /\ ShownInv
  BY DEF FinanceInv, Safe
<1>k. ASSUME undone' = undone, \A p \in Payments : state[p] = "reversed" => state'[p] = "reversed"
      PROVE  UndoneReversed'
  BY <1>k DEF UndoneReversed
<1>j. ASSUME NEW q \in Requests, Ready(q)
      PROVE  job[q] \in Jobs /\ job[q].object \in Records
  BY <1>a, <1>j, Alone, JobFields
<1>1. ASSUME NEW x \in Records, NEW a \in Amounts, Record(x, a) PROVE UndoneReversed'
  BY <1>a, <1>1, <1>k DEF Record, TypeOK, Records
<1>2. ASSUME NEW q \in Requests, Edit(q) PROVE UndoneReversed'
  BY <1>2, <1>k DEF Edit
<1>3. ASSUME NEW q \in Requests, Submit(q) \/ Decide(q) PROVE UndoneReversed'
  BY <1>a, <1>3, <1>j, <1>k DEF Submit, Decide, TypeOK, Records
<1>4. ASSUME NEW q \in Requests, Allocate(q) PROVE UndoneReversed'
  BY <1>4, <1>k DEF Allocate
<1>5. ASSUME NEW q \in Requests, Reconcile(q) PROVE UndoneReversed'
  <2> DEFINE e == job[q].object
             s == EntryStatus(Cardinality(Matched(e)) + job[q].cents, amount[e])
  <2>1. e \in Entries
    BY <1>5, <1>j, JobFields DEF Reconcile, ReconcileWith
  <2>2. undone' = undone /\ state' = [state EXCEPT ![e] = s]
    BY <1>5 DEF Reconcile, ReconcileWith
  <2> HIDE DEF e, s
  <2>3. QED BY <1>a, <2>1, <2>2, <1>k, TablesDisjoint DEF TypeOK, Records
<1>6. ASSUME NEW q \in Requests, Reverse(q) PROVE UndoneReversed'
  <2> DEFINE p == job[q].object
  <2>1. p \in Payments
    BY <1>6, <1>j, JobFields DEF Reverse
  <2>2. state'[p] = "reversed"
    BY <1>6, <2>1 DEF Reverse, Records
  <2>3. \A r \in Payments : r # p => state'[r] = state[r]
    BY <1>6, TablesDisjoint DEF Reverse, Records, Linked
  <2>4. \A e \in Entries, r \in Payments : <<e, r>> \in undone' => r = p \/ <<e, r>> \in undone
    BY <1>6 DEF Reverse
  <2> HIDE DEF p
  <2>5. QED BY <2>2, <2>3, <2>4 DEF UndoneReversed
<1>7. ASSUME \/ \E q \in Requests : \/ \E j \in Jobs : Arrive(q, j)
                                    \/ Enter(q) \/ Refuse(q)
                                    \/ \E x \in Records : LockRow(q, x)
             \/ UNCHANGED vars
      PROVE  UndoneReversed'
  BY <1>7, <1>k DEF Arrive, Enter, Refuse, LockRow, vars, ledger
<1>8. QED BY <1>1, <1>2, <1>3, <1>4, <1>5, <1>6, <1>7 DEF Next, Handle, Carry

(* The sums on the books are the sums over the rows. *)
LEMMA SameBooks ==
  ASSUME BooksKept
  PROVE  /\ \A p \in Payments : /\ Atomic!Cardinality(Atomic!Spent(p)) = Cardinality(Spent(p))
                                /\ p \in Atomic!Counting <=> state[p] # "reversed"
         /\ \A o \in Obligations :
              Atomic!Cardinality(Atomic!Covered(o)) = Cardinality(Covered(o))
         /\ \A e \in Entries : Atomic!Cardinality(Atomic!Matched(e)) = Cardinality(Matched(e))
         /\ \A p \in Atomic!Counting :
              Atomic!Cardinality(Atomic!Confirmed(p)) = Cardinality(Confirmed(p))
<1>1. \A S : Atomic!Cardinality(S) = Cardinality(S)
  BY Zenon DEF Atomic!Cardinality, Cardinality
<1>2. \A p \in Payments : Atomic!Spent(p) = Spent(p)
  BY DEF Atomic!Spent, Spent
<1>3. \A p \in Payments : p \in Atomic!Counting <=> state[p] # "reversed"
  BY DEF Atomic!Counting
<1>4. \A o \in Obligations : Atomic!Covered(o) = Covered(o)
  BY DEF Atomic!Covered, Atomic!Counting, Covered
<1>5. ASSUME NEW e \in Entries, NEW p \in Payments, NEW n \in 1..MaxCents, n <= link[e][p]
      PROVE  <<e, p>> \in undone <=> state[p] = "reversed"
  <2>1. <<e, p>> \in undone => state[p] = "reversed"
    BY DEF BooksKept, UndoneReversed
  <2>2. state[p] = "reversed" /\ <<e, p>> \notin undone => <<e, n>> \in Confirmed(p)
    BY <1>5 DEF Confirmed
  <2>3. QED BY <2>1, <2>2 DEF BooksKept, FinanceInv, Money, ReversedCountsNowhere
<1>6. \A e \in Entries : Atomic!Matched(e) = Matched(e)
  BY <1>5 DEF Atomic!Matched, Atomic!Counting, Matched
<1>7. \A p \in Atomic!Counting : Atomic!Confirmed(p) = Confirmed(p)
  BY <1>5 DEF Atomic!Confirmed, Atomic!Counting, Confirmed
<1>8. QED BY <1>1, <1>2, <1>3, <1>4, <1>6, <1>7

(* A commit writes in the books what its page asked for. *)
LEMMA CommitRefines ==
  ASSUME BooksKept, NEW q \in Requests, Carry(q)
  PROVE  Atomic!Next
<1> DEFINE x == job[q].object
           y == job[q].other
           a == job[q].cents
<1>a. TypeOK /\ LockInv /\ ShownInv
  BY DEF BooksKept, FinanceInv, Safe
<1>1. Ready(q) /\ job[q] \in Jobs /\ x \in Records /\ amount[x] > 0
  <2>1. Ready(q)
    BY <1>a, CarryEffect
  <2>2. job[q] \in Jobs /\ job[q].shown = amount[x]
    BY <1>a, <2>1, Alone
  <2>3. job[q].shown \in 1..MaxCents
    BY <2>2 DEF Jobs, Job
  <2>4. QED BY <2>1, <2>2, <2>3, JobFields, CentsAssumption
<1>2. CASE Edit(q)
  <2>1. x \in Obligations /\ a \in Amounts
    BY <1>1, <1>2, JobFields DEF Edit
  <2>2. Atomic!Edit(x, a)
    BY <1>2, <2>1 DEF Edit, Atomic!Edit
  <2>3. QED BY <2>1, <2>2 DEF Atomic!Next
<1>3. CASE Submit(q) \/ Decide(q)
  <2>1. x \in Obligations
    BY <1>1, <1>3, JobFields DEF Submit, Decide
  <2>2. PICK s, t : /\ <<s, t>> \in {<<"draft", "submitted">>, <<"submitted", "approved">>,
                                     <<"submitted", "rejected">>}
                    /\ state[x] = s /\ state' = [state EXCEPT ![x] = t]
    BY <1>3 DEF Submit, Decide
  <2>3. UNCHANGED <<amount, alloc, link>>
    BY <1>3 DEF Submit, Decide
  <2>4. t # "reversed"
    BY <2>2
  <2>5. \A p \in Payments : state'[p] = state[p]
    BY <1>a, <2>1, <2>2, TablesDisjoint DEF TypeOK, Records
  <2>6. [o \in Obligations |-> state'[o]] = [[o \in Obligations |-> state[o]] EXCEPT ![x] = t]
    BY <1>a, <2>1, <2>2 DEF TypeOK, Records
  <2>7. Atomic!Decide(x, s, t)
    BY <2>1, <2>2, <2>3, <2>5, <2>6 DEF Atomic!Decide
  <2>8. QED BY <2>1, <2>2, <2>7 DEF Atomic!Next
<1>4. CASE Allocate(q)
  <2>1. x \in Payments /\ y \in Obligations /\ a \in Shares
    BY <1>1, <1>4, JobFields DEF Allocate
  <2>2. Atomic!Allocate(x, y, a)
    BY <1>4, <2>1, SameBooks DEF Allocate, Atomic!Allocate
  <2>3. QED BY <2>1, <2>2 DEF Atomic!Next
<1>5. CASE Reconcile(q)
  <2>1. x \in Entries /\ y \in Payments /\ a \in Shares
    BY <1>1, <1>5, JobFields DEF Reconcile, ReconcileWith
  <2> DEFINE s == EntryStatus(Cardinality(Matched(x)) + a, amount[x])
  <2>2. state' = [state EXCEPT ![x] = s]
    BY <1>5 DEF Reconcile, ReconcileWith
  <2> HIDE DEF s
  <2>3. /\ \A o \in Obligations : state'[o] = state[o]
        /\ \A p \in Payments : state'[p] = state[p]
    BY <1>a, <2>1, <2>2, TablesDisjoint DEF TypeOK, Records
  <2>4. y \in Atomic!Counting
    BY <1>5, <2>1, SameBooks DEF Reconcile, ReconcileWith
  <2>5. /\ Atomic!Cardinality(Atomic!Matched(x)) + a <= amount[x]
        /\ Atomic!Cardinality(Atomic!Confirmed(y)) + a <= amount[y]
        /\ link[x][y] = 0 /\ link' = [link EXCEPT ![x][y] = a]
        /\ UNCHANGED <<amount, alloc>>
    BY <1>5, <2>1, <2>4, SameBooks DEF Reconcile, ReconcileWith
  <2>6. Atomic!Reconcile(x, y, a)
    BY <2>3, <2>4, <2>5 DEF Atomic!Reconcile
  <2>7. QED BY <2>1, <2>6 DEF Atomic!Next
<1>6. CASE Reverse(q)
  <2>1. x \in Payments
    BY <1>1, <1>6, JobFields DEF Reverse
  <2>2. /\ \A o \in Obligations : state'[o] = state[o]
        /\ \A p \in Payments : state'[p] = IF p = x THEN "reversed" ELSE state[p]
    BY <1>6, <2>1, TablesDisjoint DEF Reverse, Records, Linked
  <2>3. state[x] # "reversed" /\ UNCHANGED <<amount, alloc, link>>
    BY <1>6 DEF Reverse
  <2>4. x \in Atomic!Counting
    BY <2>1, <2>3, SameBooks
  <2>5. Atomic!Reverse(x)
    BY <1>1, <2>1, <2>2, <2>3, <2>4 DEF Atomic!Reverse
  <2>6. \E p \in Payments : Atomic!Reverse(p)
    BY <2>1, <2>5 DEF Atomic!Reverse
  <2>7. QED BY <2>6 DEF Atomic!Next
<1>7. QED BY <1>2, <1>3, <1>4, <1>5, <1>6 DEF Carry

LEMMA BooksStep == BooksKept /\ [Next]_vars => [Atomic!Next]_(Atomic!vars)
<1> SUFFICES ASSUME BooksKept, [Next]_vars PROVE Atomic!Next \/ UNCHANGED Atomic!vars
  OBVIOUS
<1>a. TypeOK /\ BooksInv
  BY DEF BooksKept, FinanceInv, Safe, Money
<1>1. ASSUME NEW q \in Requests, Carry(q) PROVE Atomic!Next
  BY <1>1, CommitRefines
<1>2. ASSUME NEW x \in Records, NEW a \in Amounts, Record(x, a) PROVE Atomic!Next
  <2>1. amount[x] = 0 /\ amount' = [amount EXCEPT ![x] = a] /\ UNCHANGED <<alloc, link>>
    BY <1>a, <1>2 DEF BooksInv, Record
  <2>2. \A o \in Obligations : state'[o] = IF o = x THEN "draft" ELSE state[o]
    BY <1>a, <1>2 DEF Record, TypeOK, Records
  <2>3. \A p \in Payments : state'[p] = "reversed" <=> state[p] = "reversed"
    BY <1>a, <1>2 DEF Record, TypeOK, Records
  <2>4. Atomic!Record(x, a)
    BY <2>1, <2>2, <2>3 DEF Atomic!Record
  <2>5. QED BY <2>4 DEF Atomic!Next, Records
<1>3. ASSUME \/ \E q \in Requests : \/ \E j \in Jobs : Arrive(q, j)
                                    \/ Enter(q) \/ Refuse(q)
                                    \/ \E x \in Records : LockRow(q, x)
             \/ UNCHANGED vars
      PROVE  UNCHANGED Atomic!vars
  BY <1>3 DEF Arrive, Enter, Refuse, LockRow, vars, ledger, Atomic!vars
<1>4. QED BY <1>1, <1>2, <1>3 DEF Next, Handle

(* The finance implements the books: whatever requests overlap, payments,   *)
(* obligations and bank entries are as if every operation had been decided  *)
(* at once on the books of the moment it commits, and a reversal had undone *)
(* the payment everywhere in one stroke.                                    *)
THEOREM FinanceImplementsBooks == Spec => ImplementsBooks
<1>1. Init => Atomic!Init /\ UndoneReversed
  BY DEF Init, Atomic!Init, UndoneReversed, Records
<1>2. BooksKept /\ [Next]_vars => UndoneReversed'
  BY UndoneStep DEF BooksKept
<1>3. Spec => []BooksKept
  BY <1>1, <1>2, FinanceInvariant, PTL DEF Spec, BooksKept
<1>4. QED BY <1>1, <1>3, BooksStep, PTL DEF Spec, ImplementsBooks, Atomic!Spec
=============================================================================
