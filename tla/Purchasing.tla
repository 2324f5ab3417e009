----------------------------- MODULE Purchasing -----------------------------
(***************************************************************************)
(* Purchase requests with their items, the one order of a request, the     *)
(* obligation its approval creates and the deliveries received for it      *)
(* (purchase_action, and module_edit for the records themselves).          *)
(* Quantities are whole numbers, as all of them could be: a quantity is a  *)
(* decimal of four places.  Who may approve, and whether the supplier is   *)
(* active, are among the reasons a request is refused for.  An obligation  *)
(* is only created here: what happens to it then is in Finance.            *)
(***************************************************************************)
EXTENDS Desk

CONSTANTS
  PurchaseRequests, PurchaseOrders,
  PurchaseItems,  \* ids of items, of whatever request they are added to
  StockedItems,   \* the items that name a stock item
  Prices,         \* the order amounts people enter
  MaxQuantity     \* the largest quantity they enter

ASSUME PurchaseAssumption == /\ MaxQuantity \in Nat /\ StockedItems \subseteq PurchaseItems
                             /\ None \notin PurchaseRequests /\ Prices \subseteq Nat

VARIABLES
  requested, \* PurchaseRequest.status
  itemOf,    \* PurchaseItem.request, None without the row
  ordered,   \* PurchaseItem.quantity
  order,     \* PurchaseOrder.status
  orderFor,  \* PurchaseOrder.purchase_request
  price,     \* PurchaseOrder.amount_cents
  owed,      \* amount_cents of the obligations an order has created, in order
  received,  \* sum of the PurchaseReceipt quantities of an order and an item
  stocked    \* sum of the stock entries that receipts of an item have made

purchaseRows == <<requested, itemOf, ordered, order, orderFor, price, owed, received, stocked>>
purchaseVars == <<purchaseRows, job>>

Quantities == 1..MaxQuantity

PurchaseJobs ==
  [action : {"create", "submit", "approve", "reject"}, object : PurchaseRequests]
    \cup [action : {"add_item"}, object : PurchaseRequests, item : PurchaseItems,
          quantity : Quantities]
    \cup [action : {"draft", "edit"}, object : PurchaseOrders, of : PurchaseRequests,
          cents : Prices]
    \cup [action : {"order"}, object : PurchaseOrders]
    \cup [action : {"receive"}, object : PurchaseOrders, item : PurchaseItems,
          quantity : Quantities]

ASSUME PurchaseJobAssumption == None \notin PurchaseJobs

PurchaseInit ==
  /\ requested = [r \in PurchaseRequests |-> "absent"]
  /\ itemOf    = [i \in PurchaseItems |-> None]
  /\ ordered   = [i \in PurchaseItems |-> 0]
  /\ order     = [o \in PurchaseOrders |-> "absent"]
  /\ orderFor  = [o \in PurchaseOrders |-> None]
  /\ price     = [o \in PurchaseOrders |-> 0]
  /\ owed      = [o \in PurchaseOrders |-> {}]
  /\ received  = [o \in PurchaseOrders |-> [i \in PurchaseItems |-> 0]]
  /\ stocked   = [i \in PurchaseItems |-> 0]
  /\ DeskInit

-----------------------------------------------------------------------------
RequestMoves == {<<"draft", "submit", "submitted">>, <<"submitted", "approve", "approved">>,
                 <<"submitted", "reject", "rejected">>}
RequestStates == {"absent", "draft", "submitted", "approved", "rejected"}
OrderStates == {"absent", "draft", "active", "partially_received", "received"}

ItemsOf(r) == {i \in PurchaseItems : itemOf[i] = r}

(* The one-to-one column: a request has one order. *)
FreeFor(r, o) == \A p \in PurchaseOrders : orderFor[p] = r => p = o

FitsDelivery(j) == j.quantity <= ordered[j.item]

(* What this order has received of the item, and what comes now. *)
Fits(j) == received[j.object][j.item] + j.quantity <= ordered[j.item]

RequestAllowed(j) ==
  \/ j.action = "create" /\ requested[j.object] = "absent"
  \/ j.action = "add_item" /\ requested[j.object] = "draft" /\ itemOf[j.item] = None
  \/ /\ \E s \in RequestStates : <<requested[j.object], j.action, s>> \in RequestMoves
     /\ ItemsOf(j.object) # {}

EditableAsShown(o) == order[o] # "absent"

(* Only a draft is edited: module_edit asks can_edit again under the lock. *)
Editable(o) == order[o] = "draft"

OrderAllowed(j) ==
  \/ j.action = "draft" /\ order[j.object] = "absent"
  \/ j.action = "edit" /\ Editable(j.object)
  \/ j.action = "order" /\ order[j.object] = "draft" /\ requested[orderFor[j.object]] = "approved"
  \/ /\ j.action = "receive" /\ order[j.object] \in {"active", "partially_received"}
     /\ itemOf[j.item] = orderFor[j.object] /\ Fits(j)

PurchaseEnter(q, j) ==
  /\ Begin(q, j)
  /\ IF j.object \in PurchaseRequests THEN RequestAllowed(j) ELSE OrderAllowed(j)
  /\ UNCHANGED purchaseRows

CreateRequest(q) ==
  /\ Doing(q, {"create"})
  /\ requested' = [requested EXCEPT ![job[q].object] = "draft"]
  /\ End(q) /\ UNCHANGED <<itemOf, ordered, order, orderFor, price, owed, received, stocked>>

AddItem(q) ==
  /\ Doing(q, {"add_item"})
  /\ itemOf' = [itemOf EXCEPT ![job[q].item] = job[q].object]
  /\ ordered' = [ordered EXCEPT ![job[q].item] = job[q].quantity]
  /\ End(q) /\ UNCHANGED <<requested, order, orderFor, price, owed, received, stocked>>

DecideRequest(q) ==
  /\ Doing(q, {"submit", "approve", "reject"})
  /\ \E s \in RequestStates :
       /\ <<requested[job[q].object], job[q].action, s>> \in RequestMoves
       /\ requested' = [requested EXCEPT ![job[q].object] = s]
  /\ End(q) /\ UNCHANGED <<itemOf, ordered, order, orderFor, price, owed, received, stocked>>

(* A form: a new order or the edit of one.  The unique column is checked    *)
(* by the database when the row is saved.                                  *)
SaveOrder(q) ==
  /\ Doing(q, {"draft", "edit"})
  /\ FreeFor(job[q].of, job[q].object)
  /\ order' = [order EXCEPT ![job[q].object] = IF job[q].action = "draft" THEN "draft" ELSE @]
  /\ orderFor' = [orderFor EXCEPT ![job[q].object] = job[q].of]
  /\ price' = [price EXCEPT ![job[q].object] = job[q].cents]
  /\ End(q) /\ UNCHANGED <<requested, itemOf, ordered, owed, received, stocked>>

ApproveOrder(q) ==
  LET o == job[q].object
  IN  /\ Doing(q, {"order"})
      /\ order' = [order EXCEPT ![o] = "active"]
      /\ owed' = [owed EXCEPT ![o] = @ \cup {<<Cardinality(@), price[o]>>}]
      /\ End(q)
      /\ UNCHANGED <<requested, itemOf, ordered, orderFor, price, received, stocked>>

ReceivedStatusMisspelt(o, now) ==
  IF \A k \in ItemsOf(orderFor[o]) : now[o][k] >= ordered[k] THEN "received" ELSE "partial"

ReceivedStatus(o, now) ==
  IF \A k \in ItemsOf(orderFor[o]) : now[o][k] >= ordered[k]
  THEN "received" ELSE "partially_received"

(* The receipt, the stock entry, and the status from all items again. *)
Receive(q) ==
  LET o == job[q].object
      i == job[q].item
      now == [received EXCEPT ![o][i] = @ + job[q].quantity]
  IN  /\ Doing(q, {"receive"})
      /\ received' = now
      /\ stocked' = [stocked EXCEPT ![i] = IF i \in StockedItems THEN @ + job[q].quantity ELSE @]
      /\ order' = [order EXCEPT ![o] = ReceivedStatus(o, now)]
      /\ End(q) /\ UNCHANGED <<requested, itemOf, ordered, orderFor, price, owed>>

PurchaseRollback(q) == End(q) /\ UNCHANGED purchaseRows

PurchaseNext ==
  \E q \in Requests :
    \/ \E j \in PurchaseJobs : PurchaseEnter(q, j)
    \/ CreateRequest(q) \/ AddItem(q) \/ DecideRequest(q)
    \/ SaveOrder(q) \/ ApproveOrder(q) \/ Receive(q) \/ PurchaseRollback(q)

PurchaseSpec == PurchaseInit /\ [][PurchaseNext]_purchaseVars

-----------------------------------------------------------------------------
PurchaseTypeOK ==
  /\ requested \in [PurchaseRequests -> RequestStates]
  /\ itemOf \in [PurchaseItems -> PurchaseRequests \cup {None}]
  /\ ordered \in [PurchaseItems -> Nat]
  /\ order \in [PurchaseOrders -> OrderStates]
  /\ orderFor \in [PurchaseOrders -> PurchaseRequests \cup {None}]
  /\ price \in [PurchaseOrders -> Nat]
  /\ owed \in [PurchaseOrders -> SUBSET (Nat \X Nat)]
  /\ received \in [PurchaseOrders -> [PurchaseItems -> Nat]]
  /\ stocked \in [PurchaseItems -> Nat]
  /\ job \in [Requests -> PurchaseJobs \cup {None}]

Within(o, i) ==
  /\ received[o][i] <= ordered[i]
  /\ received[o][i] > 0 =>
       /\ itemOf[i] = orderFor[o]
       /\ stocked[i] = IF i \in StockedItems THEN received[o][i] ELSE 0

ReceivedWhenAllIs(o) ==
  order[o] \in {"active", "partially_received", "received"} =>
    (order[o] = "received" <=> \A i \in ItemsOf(orderFor[o]) : received[o][i] = ordered[i])

(* However many deliveries arrive, and whatever requests overlap, no item  *)
(* is received beyond its quantity, stock grows by what was received, and  *)
(* the order is "received" exactly when every item of its request is.      *)
ReceiptsWithinOrder ==
  \A o \in PurchaseOrders : ReceivedWhenAllIs(o) /\ \A i \in PurchaseItems : Within(o, i)

(* A draft owes nothing; an approved order has one obligation, with the    *)
(* amount the order still has, and is for an approved request that no      *)
(* other order is for.                                                     *)
OneObligationPerOrder ==
  \A o \in PurchaseOrders :
    /\ order[o] \in {"absent", "draft"} => owed[o] = {}
    /\ order[o] \notin {"absent", "draft"} =>
         /\ owed[o] = {<<0, price[o]>>}
         /\ requested[orderFor[o]] = "approved"
         /\ \A p \in PurchaseOrders : orderFor[p] = orderFor[o] => p = o
=============================================================================
