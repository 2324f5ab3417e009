-------------------------- MODULE PurchasingProofs --------------------------
(***************************************************************************)
(* Proofs about Purchasing.  What the properties say of approved orders is *)
(* kept because of what is so before: an order has its request to itself,  *)
(* a draft has received nothing, a submitted request has an item, and an   *)
(* item is ordered in some quantity (Grounds).                             *)
(***************************************************************************)
EXTENDS Purchasing, FiniteSetTheorems, TLAPS

PurchaseAllowed(j) == IF j.object \in PurchaseRequests THEN RequestAllowed(j) ELSE OrderAllowed(j)

StillAllowed == \A q \in Requests : job[q] # None => PurchaseAllowed(job[q])

OneOrder == \A o, p \in PurchaseOrders : orderFor[o] # None /\ orderFor[p] = orderFor[o] => p = o

DraftsReceiveNothing ==
  \A o \in PurchaseOrders :
    /\ order[o] # "absent" => orderFor[o] \in PurchaseRequests
    /\ order[o] \in {"absent", "draft"} => \A i \in PurchaseItems : received[o][i] = 0

SubmittedHasItems ==
  /\ \A i \in PurchaseItems : itemOf[i] # None => ordered[i] > 0
  /\ \A r \in PurchaseRequests :
       requested[r] \notin {"absent", "draft"} => \E i \in PurchaseItems : itemOf[i] = r

StockedByReceipts ==
  \A i \in PurchaseItems :
    (\A o \in PurchaseOrders : received[o][i] = 0) => stocked[i] = 0

Grounds == OneOrder /\ DraftsReceiveNothing /\ SubmittedHasItems /\ StockedByReceipts

PurchaseInv ==
  /\ PurchaseTypeOK /\ Alone /\ StillAllowed
  /\ Grounds /\ ReceiptsWithinOrder /\ OneObligationPerOrder

(* The part of it that is not about who is let in. *)
RowsInv == PurchaseTypeOK /\ Grounds /\ ReceiptsWithinOrder /\ OneObligationPerOrder

-----------------------------------------------------------------------------
LEMMA PurchaseEnds ==
  ASSUME Alone, job \in [Requests -> PurchaseJobs \cup {None}], NEW q \in Requests, End(q)
  PROVE  /\ job[q] \in PurchaseJobs
         /\ job' \in [Requests -> PurchaseJobs \cup {None}]
         /\ \A r \in Requests : job'[r] = None
  BY DEF Alone, End

LEMMA JobTypes ==
  ASSUME NEW j \in PurchaseJobs
  PROVE  /\ j.action \in {"create", "submit", "approve", "reject"} => j.object \in PurchaseRequests
         /\ j.action = "add_item" =>
              /\ j.object \in PurchaseRequests
              /\ j.item \in PurchaseItems /\ j.quantity \in Nat /\ j.quantity > 0
         /\ j.action \in {"draft", "edit"} =>
              /\ j.object \in PurchaseOrders /\ j.of \in PurchaseRequests /\ j.cents \in Nat
         /\ j.action = "order" => j.object \in PurchaseOrders
         /\ j.action = "receive" =>
              /\ j.object \in PurchaseOrders /\ j.item \in PurchaseItems
              /\ j.quantity \in Nat /\ j.quantity > 0
  BY PurchaseAssumption DEF PurchaseJobs, Quantities

(* Orders and requests have actions of their own. *)
LEMMA OrderJobs ==
  ASSUME NEW j, PurchaseAllowed(j), j.action \in {"draft", "edit", "order", "receive"}
  PROVE  OrderAllowed(j)
  BY DEF PurchaseAllowed, RequestAllowed, RequestMoves

(* An order with the same items, deliveries and status. *)
LEMMA SameOrder ==
  ASSUME NEW o \in PurchaseOrders, ReceivedWhenAllIs(o), order'[o] = order[o],
         ItemsOf(orderFor[o])' = ItemsOf(orderFor[o]),
         \A k \in ItemsOf(orderFor[o]) :
           received'[o][k] = received[o][k] /\ ordered'[k] = ordered[k]
  PROVE  ReceivedWhenAllIs(o)'
  <1> DEFINE before == \A k \in ItemsOf(orderFor[o]) : received[o][k] = ordered[k]
             after == \A k \in ItemsOf(orderFor[o])' : received'[o][k] = ordered'[k]
  <1>1. before <=> after
    OBVIOUS
  <1>2. order[o] \in {"active", "partially_received", "received"} =>
          (order[o] = "received" <=> before)
    BY DEF ReceivedWhenAllIs
  <1>3. order'[o] \in {"active", "partially_received", "received"} =>
          (order'[o] = "received" <=> after)
    <2> HIDE DEF before, after
    <2> QED
      BY <1>1, <1>2
  <1> QED
    BY <1>3 DEF ReceivedWhenAllIs

(* Nothing about the receipts changes. *)
LEMMA SameReceipts ==
  ASSUME ReceiptsWithinOrder, UNCHANGED <<itemOf, ordered, order, orderFor, received, stocked>>
  PROVE  ReceiptsWithinOrder'
  <1>1. \A o \in PurchaseOrders : \A i \in PurchaseItems : Within(o, i)'
    BY DEF ReceiptsWithinOrder, Within
  <1>2. ASSUME NEW o \in PurchaseOrders PROVE ReceivedWhenAllIs(o)'
    <2>1. ItemsOf(orderFor[o])' = ItemsOf(orderFor[o])
      BY DEF ItemsOf
    <2> QED
      BY <2>1, SameOrder DEF ReceiptsWithinOrder
  <1> QED
    BY <1>1, <1>2 DEF ReceiptsWithinOrder

LEMMA PurchaseInvInit == PurchaseInit => PurchaseInv
  BY PurchaseAssumption
  DEF PurchaseInit, DeskInit, PurchaseInv, PurchaseTypeOK, RequestStates, OrderStates, Alone,
      StillAllowed, Grounds, OneOrder, DraftsReceiveNothing, SubmittedHasItems,
      StockedByReceipts, ReceiptsWithinOrder, ReceivedWhenAllIs, Within, OneObligationPerOrder

LEMMA EnterKeeps ==
  ASSUME PurchaseInv, NEW q \in Requests, NEW j \in PurchaseJobs, PurchaseEnter(q, j)
  PROVE  PurchaseInv'
  <1> USE DEF PurchaseInv, purchaseRows
  <1>1. /\ job' \in [Requests -> PurchaseJobs \cup {None}]
        /\ \A r \in Requests : job'[r] \in {j, None}
        /\ Alone'
    BY DEF PurchaseEnter, Begin, PurchaseTypeOK, Alone
  <1>2. /\ PurchaseAllowed(j)
        /\ UNCHANGED <<requested, itemOf, ordered, order, orderFor, price, owed, received, stocked>>
    BY DEF PurchaseEnter, PurchaseAllowed
  <1>3. PurchaseAllowed(j)'
    BY <1>2 DEF PurchaseAllowed, RequestAllowed, OrderAllowed, Editable, ItemsOf, Fits
  <1>4. StillAllowed'
    BY <1>1, <1>3 DEF StillAllowed
  <1>5. PurchaseTypeOK'
    BY <1>1, <1>2 DEF PurchaseTypeOK
  <1>6. Grounds' /\ ReceiptsWithinOrder' /\ OneObligationPerOrder'
    BY <1>2, SameReceipts
    DEF Grounds, OneOrder, DraftsReceiveNothing, SubmittedHasItems, StockedByReceipts,
        OneObligationPerOrder
  <1> QED
    BY <1>1, <1>4, <1>5, <1>6

-----------------------------------------------------------------------------
LEMMA CreateRequestKeeps ==
  ASSUME RowsInv, NEW q \in Requests, CreateRequest(q), job[q] \in PurchaseJobs,
         PurchaseAllowed(job[q]), job' \in [Requests -> PurchaseJobs \cup {None}]
  PROVE  RowsInv'
  <1> USE DEF RowsInv, PurchaseTypeOK
  <1>1. PICK r \in PurchaseRequests : r = job[q].object
    BY JobTypes DEF CreateRequest, Doing
  <1>2. requested[r] = "absent"
    BY <1>1 DEF CreateRequest, Doing, PurchaseAllowed, RequestAllowed, RequestMoves
  <1>3. /\ requested' = [requested EXCEPT ![r] = "draft"]
        /\ UNCHANGED <<itemOf, ordered, order, orderFor, price, owed, received, stocked>>
    BY <1>1 DEF CreateRequest
  <1>4. PurchaseTypeOK'
    BY <1>3 DEF RequestStates
  <1>5. Grounds'
    BY <1>3 DEF Grounds, OneOrder, DraftsReceiveNothing, SubmittedHasItems, StockedByReceipts
  <1>6. ReceiptsWithinOrder'
    BY <1>3, SameReceipts
  <1>7. OneObligationPerOrder'
    BY <1>2, <1>3 DEF OneObligationPerOrder
  <1> QED
    BY <1>4, <1>5, <1>6, <1>7

LEMMA AddItemKeeps ==
  ASSUME RowsInv, NEW q \in Requests, AddItem(q), job[q] \in PurchaseJobs,
         PurchaseAllowed(job[q]), job' \in [Requests -> PurchaseJobs \cup {None}]
  PROVE  RowsInv'
  <1> USE DEF RowsInv, PurchaseTypeOK
  <1>1. job[q].action = "add_item"
    BY DEF AddItem, Doing
  <1>2. PICK r \in PurchaseRequests, i \in PurchaseItems, n \in Nat :
          r = job[q].object /\ i = job[q].item /\ n = job[q].quantity /\ n > 0
    BY <1>1, JobTypes
  <1>3. requested[r] = "draft" /\ itemOf[i] = None
    BY <1>1, <1>2 DEF PurchaseAllowed, RequestAllowed, RequestMoves
  <1>4. /\ itemOf' = [itemOf EXCEPT ![i] = r] /\ ordered' = [ordered EXCEPT ![i] = n]
        /\ UNCHANGED <<requested, order, orderFor, price, owed, received, stocked>>
    BY <1>2 DEF AddItem
  <1>5. \A o \in PurchaseOrders : received[o][i] = 0
    BY <1>3, PurchaseAssumption DEF ReceiptsWithinOrder, Within, Grounds, DraftsReceiveNothing
  <1>6. PurchaseTypeOK'
    BY <1>4
  <1>7. Grounds'
    <2>1. OneOrder' /\ DraftsReceiveNothing' /\ StockedByReceipts'
      BY <1>4 DEF Grounds, OneOrder, DraftsReceiveNothing, StockedByReceipts
    <2>2. \A k \in PurchaseItems : itemOf'[k] # None => ordered'[k] > 0
      BY <1>2, <1>4 DEF Grounds, SubmittedHasItems
    <2>3. \A k \in PurchaseItems : itemOf[k] # None => itemOf'[k] = itemOf[k]
      BY <1>3, <1>4
    <2>4. ASSUME NEW u \in PurchaseRequests, requested[u] \notin {"absent", "draft"}
          PROVE  \E k \in PurchaseItems : itemOf'[k] = u
      <3>1. PICK k \in PurchaseItems : itemOf[k] = u
        BY <2>4 DEF Grounds, SubmittedHasItems
      <3> QED
        BY <2>3, <3>1, PurchaseAssumption
    <2> QED
      BY <1>4, <2>1, <2>2, <2>4 DEF Grounds, SubmittedHasItems
  <1>8. OneObligationPerOrder'
    BY <1>4 DEF OneObligationPerOrder
  <1>9. \A o \in PurchaseOrders, k \in PurchaseItems : Within(o, k)'
    BY <1>2, <1>4, <1>5 DEF ReceiptsWithinOrder, Within
  <1>10. ASSUME NEW o \in PurchaseOrders PROVE ReceivedWhenAllIs(o)'
    <2>1. ReceivedWhenAllIs(o)
      BY DEF ReceiptsWithinOrder
    <2>2. CASE order[o] \in {"active", "partially_received", "received"}
      <3>1. orderFor[o] # r
        BY <1>3, <2>2 DEF OneObligationPerOrder
      <3>2. orderFor[o] # None
        BY <2>2, PurchaseAssumption DEF Grounds, DraftsReceiveNothing
      <3>3. ItemsOf(orderFor[o])' = ItemsOf(orderFor[o]) /\ i \notin ItemsOf(orderFor[o])
        BY <1>3, <1>4, <3>1, <3>2 DEF ItemsOf
      <3>4. \A k \in ItemsOf(orderFor[o]) : ordered'[k] = ordered[k]
        BY <1>4, <3>3 DEF ItemsOf
      <3> QED
        BY <1>4, <2>1, <3>3, <3>4, SameOrder
    <2>3. CASE order[o] \notin {"active", "partially_received", "received"}
      BY <1>4, <2>3 DEF ReceivedWhenAllIs
    <2> QED
      BY <2>2, <2>3
  <1>11. ReceiptsWithinOrder'
    BY <1>9, <1>10 DEF ReceiptsWithinOrder
  <1> QED
    BY <1>6, <1>7, <1>8, <1>11

LEMMA DecideRequestKeeps ==
  ASSUME RowsInv, NEW q \in Requests, DecideRequest(q), job[q] \in PurchaseJobs,
         PurchaseAllowed(job[q]), job' \in [Requests -> PurchaseJobs \cup {None}]
  PROVE  RowsInv'
  <1> USE DEF RowsInv, PurchaseTypeOK
  <1>1. job[q].action \in {"submit", "approve", "reject"}
    BY DEF DecideRequest, Doing
  <1>2. PICK r \in PurchaseRequests : r = job[q].object
    BY <1>1, JobTypes
  <1>3. PICK s \in RequestStates : /\ <<requested[r], job[q].action, s>> \in RequestMoves
                                  /\ requested' = [requested EXCEPT ![r] = s]
    BY <1>2 DEF DecideRequest
  <1>4. UNCHANGED <<itemOf, ordered, order, orderFor, price, owed, received, stocked>>
    BY DEF DecideRequest
  <1>5. requested[r] # "approved" /\ \E i \in PurchaseItems : itemOf[i] = r
    BY <1>1, <1>2, <1>3 DEF RequestMoves, PurchaseAllowed, RequestAllowed, ItemsOf
  <1>6. Grounds'
    BY <1>3, <1>4, <1>5
    DEF Grounds, OneOrder, DraftsReceiveNothing, SubmittedHasItems, StockedByReceipts
  <1>7. ReceiptsWithinOrder' /\ OneObligationPerOrder'
    BY <1>3, <1>4, <1>5, SameReceipts DEF OneObligationPerOrder
  <1> QED
    BY <1>3, <1>4, <1>6, <1>7

(* A form changes a draft, which has received nothing, and only gives it a *)
(* request no other order is for.                                          *)
LEMMA SaveOrderKeeps ==
  ASSUME RowsInv, NEW q \in Requests, SaveOrder(q), job[q] \in PurchaseJobs,
         PurchaseAllowed(job[q]), job' \in [Requests -> PurchaseJobs \cup {None}]
  PROVE  RowsInv'
  <1> USE DEF RowsInv, PurchaseTypeOK
  <1>1. job[q].action \in {"draft", "edit"}
    BY DEF SaveOrder, Doing
  <1>2. PICK o \in PurchaseOrders, r \in PurchaseRequests, c \in Nat :
          o = job[q].object /\ r = job[q].of /\ c = job[q].cents
    BY <1>1, JobTypes
  <1>3. order[o] \in {"absent", "draft"} /\ (job[q].action = "edit" => order[o] = "draft")
    BY <1>1, <1>2, OrderJobs DEF OrderAllowed, Editable
  <1>4. /\ order' = [order EXCEPT ![o] = "draft"]
        /\ orderFor' = [orderFor EXCEPT ![o] = r] /\ price' = [price EXCEPT ![o] = c]
        /\ UNCHANGED <<requested, itemOf, ordered, owed, received, stocked>>
    BY <1>1, <1>2, <1>3 DEF SaveOrder
  <1>5. \A p \in PurchaseOrders : orderFor[p] = r => p = o
    BY <1>2 DEF SaveOrder, FreeFor
  <1>6. \A i \in PurchaseItems : received[o][i] = 0
    BY <1>3 DEF Grounds, DraftsReceiveNothing
  <1>7. PurchaseTypeOK'
    BY <1>4 DEF OrderStates
  <1>8. \A u \in PurchaseOrders \ {o} : order'[u] = order[u] /\ orderFor'[u] = orderFor[u]
    BY <1>4
  <1>9. order'[o] = "draft" /\ orderFor'[o] = r
    BY <1>4
  <1>10. Grounds'
    <2>1. OneOrder'
      BY <1>5, <1>8, <1>9 DEF Grounds, OneOrder
    <2>2. DraftsReceiveNothing'
      BY <1>4, <1>6, <1>8, <1>9 DEF Grounds, DraftsReceiveNothing
    <2>3. SubmittedHasItems' /\ StockedByReceipts'
      BY <1>4 DEF Grounds, SubmittedHasItems, StockedByReceipts
    <2> QED
      BY <2>1, <2>2, <2>3 DEF Grounds
  <1>11. ReceiptsWithinOrder'
    <2>1. \A u \in PurchaseOrders, i \in PurchaseItems : Within(u, i)'
      BY <1>4, <1>6, <1>8 DEF ReceiptsWithinOrder, Within
    <2>2. ASSUME NEW u \in PurchaseOrders PROVE ReceivedWhenAllIs(u)'
      <3>1. CASE u = o
        BY <1>9, <3>1 DEF ReceivedWhenAllIs
      <3>2. CASE u # o
        <4>1. ItemsOf(orderFor[u])' = ItemsOf(orderFor[u])
          BY <1>4, <1>8, <3>2 DEF ItemsOf
        <4> QED
          BY <1>4, <1>8, <3>2, <4>1, SameOrder DEF ReceiptsWithinOrder
      <3> QED
        BY <3>1, <3>2
    <2> QED
      BY <2>1, <2>2 DEF ReceiptsWithinOrder
  <1>12. OneObligationPerOrder'
    <2>1. owed[o] = {}
      BY <1>3 DEF OneObligationPerOrder
    <2>2. ASSUME NEW u \in PurchaseOrders, order'[u] \notin {"absent", "draft"}
          PROVE  /\ owed[u] = {<<0, price'[u]>>}
                 /\ requested[orderFor'[u]] = "approved"
                 /\ \A p \in PurchaseOrders : orderFor'[p] = orderFor'[u] => p = u
      <3>1. u # o
        BY <1>9, <2>2
      <3> QED
        BY <1>4, <1>5, <1>8, <1>9, <2>2, <3>1 DEF OneObligationPerOrder
    <2> QED
      BY <1>4, <1>8, <1>9, <2>1, <2>2 DEF OneObligationPerOrder
  <1> QED
    BY <1>7, <1>10, <1>11, <1>12

(* The obligation is the first of its order, whose request has items that   *)
(* have not come.                                                          *)
LEMMA ApproveOrderKeeps ==
  ASSUME RowsInv, NEW q \in Requests, ApproveOrder(q), job[q] \in PurchaseJobs,
         PurchaseAllowed(job[q]), job' \in [Requests -> PurchaseJobs \cup {None}]
  PROVE  RowsInv'
  <1> USE DEF RowsInv, PurchaseTypeOK
  <1>1. job[q].action = "order"
    BY DEF ApproveOrder, Doing
  <1>2. PICK o \in PurchaseOrders : o = job[q].object
    BY <1>1, JobTypes
  <1>3. order[o] = "draft" /\ requested[orderFor[o]] = "approved"
    BY <1>1, <1>2, OrderJobs DEF OrderAllowed
  <1>4. orderFor[o] \in PurchaseRequests /\ \A i \in PurchaseItems : received[o][i] = 0
    BY <1>3 DEF Grounds, DraftsReceiveNothing
  <1>5. owed[o] = {} /\ Cardinality({}) = 0
    BY <1>3, FS_EmptySet DEF OneObligationPerOrder
  <1>6. /\ order' = [order EXCEPT ![o] = "active"]
        /\ owed' = [owed EXCEPT ![o] = {<<0, price[o]>>}]
        /\ UNCHANGED <<requested, itemOf, ordered, orderFor, price, received, stocked>>
    BY <1>2, <1>5 DEF ApproveOrder
  <1>7. PurchaseTypeOK'
    BY <1>6 DEF OrderStates
  <1>8. Grounds'
    BY <1>4, <1>6
    DEF Grounds, OneOrder, DraftsReceiveNothing, SubmittedHasItems, StockedByReceipts
  <1>9. OneObligationPerOrder'
    BY <1>3, <1>4, <1>6, PurchaseAssumption DEF OneObligationPerOrder, Grounds, OneOrder
  <1>10. PICK k \in PurchaseItems : itemOf[k] = orderFor[o] /\ ordered[k] > 0
    BY <1>3, <1>4, PurchaseAssumption DEF Grounds, SubmittedHasItems
  <1>11. ASSUME NEW u \in PurchaseOrders PROVE ReceivedWhenAllIs(u)'
    <2>1. ItemsOf(orderFor[u])' = ItemsOf(orderFor[u])
      BY <1>6 DEF ItemsOf
    <2>2. CASE u = o
      <3>1. k \in ItemsOf(orderFor[o]) /\ received[o][k] # ordered[k]
        BY <1>4, <1>10 DEF ItemsOf
      <3>2. order'[o] = "active"
        BY <1>6
      <3> QED
        BY <1>6, <2>1, <2>2, <3>1, <3>2 DEF ReceivedWhenAllIs
    <2>3. CASE u # o
      <3>1. order'[u] = order[u]
        BY <1>6, <2>3
      <3> QED
        BY <1>6, <2>1, <3>1, SameOrder DEF ReceiptsWithinOrder
    <2> QED
      BY <2>2, <2>3
  <1>12. ReceiptsWithinOrder'
    <2>1. \A u \in PurchaseOrders, i \in PurchaseItems : Within(u, i)'
      BY <1>6 DEF ReceiptsWithinOrder, Within
    <2> QED
      BY <1>11, <2>1 DEF ReceiptsWithinOrder
  <1> QED
    BY <1>7, <1>8, <1>9, <1>12

(* Only this order receives the item, so what was stocked of it came here. *)
LEMMA ReceiveKeeps ==
  ASSUME RowsInv, NEW q \in Requests, Receive(q), job[q] \in PurchaseJobs,
         PurchaseAllowed(job[q]), job' \in [Requests -> PurchaseJobs \cup {None}]
  PROVE  RowsInv'
  <1> USE DEF RowsInv, PurchaseTypeOK
  <1>1. job[q].action = "receive"
    BY DEF Receive, Doing
  <1>2. PICK o \in PurchaseOrders, i \in PurchaseItems, n \in Nat :
          o = job[q].object /\ i = job[q].item /\ n = job[q].quantity /\ n > 0
    BY <1>1, JobTypes
  <1>3. /\ order[o] \in {"active", "partially_received"}
        /\ itemOf[i] = orderFor[o]
        /\ received[o][i] + n <= ordered[i]
    BY <1>1, <1>2, OrderJobs DEF OrderAllowed, Fits
  <1>4. /\ received' = [received EXCEPT ![o][i] = @ + n]
        /\ stocked' = [stocked EXCEPT ![i] = IF i \in StockedItems THEN @ + n ELSE @]
        /\ UNCHANGED <<requested, itemOf, ordered, orderFor, price, owed>>
    BY <1>2 DEF Receive
  <1>5. ReceivedStatus(o, received') \in {"partially_received", "received"}
    BY DEF ReceivedStatus
  <1>6. order' = [order EXCEPT ![o] = ReceivedStatus(o, received')]
    BY <1>2, <1>4 DEF Receive
  <1>7. /\ received' \in [PurchaseOrders -> [PurchaseItems -> Nat]]
        /\ received'[o][i] = received[o][i] + n
        /\ \A k \in PurchaseItems : k # i => received'[o][k] = received[o][k]
        /\ \A u \in PurchaseOrders : u # o => received'[u] = received[u]
    BY <1>4
  <1>8. orderFor[o] # None
    BY <1>3, PurchaseAssumption DEF Grounds, DraftsReceiveNothing
  <1>9. \A u \in PurchaseOrders : u # o => received[u][i] = 0
    BY <1>3, <1>8 DEF ReceiptsWithinOrder, Within, Grounds, OneOrder
  <1>10. stocked[i] = IF i \in StockedItems THEN received[o][i] ELSE 0
    BY <1>9 DEF ReceiptsWithinOrder, Within, Grounds, StockedByReceipts
  <1>11. PurchaseTypeOK'
    BY <1>4, <1>5, <1>7, <1>6 DEF OrderStates
  <1>12. Grounds'
    <2>1. OneOrder' /\ SubmittedHasItems'
      BY <1>4 DEF Grounds, OneOrder, SubmittedHasItems
    <2>2. DraftsReceiveNothing'
      BY <1>3, <1>4, <1>5, <1>7, <1>6 DEF Grounds, DraftsReceiveNothing
    <2>3. StockedByReceipts'
      <3>1. SUFFICES ASSUME NEW k \in PurchaseItems,
                            \A u \in PurchaseOrders : received'[u][k] = 0
                     PROVE  stocked'[k] = 0
        BY DEF StockedByReceipts
      <3>2. k # i
        BY <1>2, <1>7, <3>1
      <3>3. \A u \in PurchaseOrders : received[u][k] = 0
        BY <1>7, <3>1, <3>2
      <3> QED
        BY <1>4, <3>2, <3>3 DEF Grounds, StockedByReceipts
    <2> QED
      BY <2>1, <2>2, <2>3 DEF Grounds
  <1>13. OneObligationPerOrder'
    BY <1>3, <1>4, <1>5, <1>6 DEF OneObligationPerOrder
  <1>14. ASSUME NEW u \in PurchaseOrders, NEW k \in PurchaseItems PROVE Within(u, k)'
    <2>1. CASE k # i
      BY <1>4, <1>7, <2>1 DEF ReceiptsWithinOrder, Within
    <2>2. CASE k = i /\ u = o
      BY <1>3, <1>4, <1>7, <1>10, <2>2 DEF Within
    <2>3. CASE k = i /\ u # o
      BY <1>4, <1>7, <1>9, <2>3 DEF Within
    <2> QED
      BY <2>1, <2>2, <2>3
  <1>15. ASSUME NEW u \in PurchaseOrders PROVE ReceivedWhenAllIs(u)'
    <2>1. ItemsOf(orderFor[u])' = ItemsOf(orderFor[u])
      BY <1>4 DEF ItemsOf
    <2>2. CASE u = o
      <3>1. order'[o] = ReceivedStatus(o, received')
        BY <1>6
      <3>2. order'[o] = "received"
              <=> \A k \in ItemsOf(orderFor[o]) : received'[o][k] >= ordered[k]
        BY <3>1 DEF ReceivedStatus
      <3>3. ASSUME NEW k \in ItemsOf(orderFor[o])
            PROVE  received'[o][k] >= ordered[k] <=> received'[o][k] = ordered[k]
        <4>1. k \in PurchaseItems
          BY <3>3 DEF ItemsOf
        <4>2. received'[o][k] <= ordered[k]
          BY <1>4, <1>14, <4>1 DEF Within
        <4>3. received'[o][k] \in Nat /\ ordered[k] \in Nat
          BY <1>7, <4>1
        <4>4. \A m, l \in Nat : m <= l => (m >= l <=> m = l)
          OBVIOUS
        <4> QED
          BY <4>2, <4>3, <4>4
      <3>4. order'[o] = "received"
              <=> \A k \in ItemsOf(orderFor[o])' : received'[o][k] = ordered'[k]
        BY <1>4, <2>1, <2>2, <3>2, <3>3
      <3> QED
        BY <2>2, <3>4 DEF ReceivedWhenAllIs
    <2>3. CASE u # o
      <3>1. order'[u] = order[u] /\ received'[u] = received[u]
        BY <1>7, <1>6, <2>3
      <3> QED
        BY <1>4, <2>1, <3>1, SameOrder DEF ReceiptsWithinOrder
    <2> QED
      BY <2>2, <2>3
  <1> QED
    BY <1>11, <1>12, <1>13, <1>14, <1>15 DEF ReceiptsWithinOrder

-----------------------------------------------------------------------------
LEMMA CommitKeeps ==
  ASSUME PurchaseInv, NEW q \in Requests,
         CreateRequest(q) \/ AddItem(q) \/ DecideRequest(q) \/ SaveOrder(q) \/ ApproveOrder(q)
           \/ Receive(q) \/ PurchaseRollback(q)
  PROVE  PurchaseInv'
  <1> USE DEF PurchaseInv
  <1>1. End(q)
    BY DEF CreateRequest, AddItem, DecideRequest, SaveOrder, ApproveOrder, Receive,
           PurchaseRollback
  <1>2. /\ job[q] \in PurchaseJobs
        /\ job' \in [Requests -> PurchaseJobs \cup {None}]
        /\ \A r \in Requests : job'[r] = None
    BY <1>1, PurchaseEnds DEF PurchaseTypeOK
  <1>3. Alone' /\ StillAllowed'
    BY <1>2 DEF Alone, StillAllowed
  <1>4. PurchaseAllowed(job[q]) /\ RowsInv
    BY <1>1 DEF End, StillAllowed, RowsInv
  <1>5. CASE PurchaseRollback(q)
    <2>1. UNCHANGED <<requested, itemOf, ordered, order, orderFor, price, owed, received, stocked>>
      BY <1>5 DEF PurchaseRollback, purchaseRows
    <2>2. PurchaseTypeOK' /\ Grounds' /\ OneObligationPerOrder'
      BY <1>2, <2>1 DEF PurchaseTypeOK, Grounds, OneOrder, DraftsReceiveNothing,
                        SubmittedHasItems, StockedByReceipts, OneObligationPerOrder
    <2> QED
      BY <1>3, <2>1, <2>2, SameReceipts
  <1>6. CASE ~PurchaseRollback(q)
    <2>1. RowsInv'
      BY <1>2, <1>4, <1>6, CreateRequestKeeps, AddItemKeeps, DecideRequestKeeps, SaveOrderKeeps,
         ApproveOrderKeeps, ReceiveKeeps
    <2> QED
      BY <1>3, <2>1 DEF RowsInv
  <1> QED
    BY <1>5, <1>6

LEMMA PurchaseInvStep == PurchaseInv /\ [PurchaseNext]_purchaseVars => PurchaseInv'
  <1>1. SUFFICES ASSUME PurchaseInv, [PurchaseNext]_purchaseVars PROVE PurchaseInv'
    OBVIOUS
  <1> USE DEF PurchaseInv
  <1>2. CASE UNCHANGED purchaseVars
    <2>1. UNCHANGED <<requested, itemOf, ordered, order, orderFor, price, owed, received, stocked,
                      job>>
      BY <1>2 DEF purchaseVars, purchaseRows
    <2>2. PurchaseTypeOK' /\ Alone' /\ Grounds' /\ OneObligationPerOrder'
      BY <1>1, <2>1 DEF PurchaseTypeOK, Alone, Grounds, OneOrder, DraftsReceiveNothing,
                        SubmittedHasItems, StockedByReceipts, OneObligationPerOrder
    <2>3. StillAllowed'
      BY <1>1, <2>1
      DEF StillAllowed, PurchaseAllowed, RequestAllowed, OrderAllowed, Editable, ItemsOf, Fits
    <2> QED
      BY <1>1, <2>1, <2>2, <2>3, SameReceipts
  <1>3. CASE PurchaseNext
    BY <1>1, <1>3, EnterKeeps, CommitKeeps DEF PurchaseNext
  <1> QED
    BY <1>1, <1>2, <1>3

(* No delivery exceeds what was ordered, stock grows by what came, and an   *)
(* order is received when all of it is, for any number of orders, items,    *)
(* deliveries and requests (receipts in execute_action).                   *)
THEOREM ReceiptsFit == PurchaseSpec => []ReceiptsWithinOrder
  <1>1. PurchaseInv => ReceiptsWithinOrder
    BY DEF PurchaseInv
  <1> QED
    BY <1>1, PurchaseInvInit, PurchaseInvStep, PTL DEF PurchaseSpec

(* An approved order has exactly one obligation, of its amount, and its     *)
(* approved request to itself (purchase_action).                           *)
THEOREM OneObligation == PurchaseSpec => []OneObligationPerOrder
  <1>1. PurchaseInv => OneObligationPerOrder
    BY DEF PurchaseInv
  <1> QED
    BY <1>1, PurchaseInvInit, PurchaseInvStep, PTL DEF PurchaseSpec
=============================================================================
