----------------------------- MODULE Procurement -----------------------------
(***************************************************************************)
(* One purchase order from its creation to the last goods receipt          *)
(* (PurchaseOrderService).  approve, reject, cancel and update read the    *)
(* order, check its status and later write it without looking again;       *)
(* receiveGoods checks twice, the second time inside its transaction, but  *)
(* without a lock, and writes quantities and status computed from what it  *)
(* read.  The IN movements it posts are StockLedger's; suppliers, users    *)
(* and prices are left out.                                                *)
(***************************************************************************)
EXTENDS Integers, Sequences, FiniteSetsExt

CONSTANTS
    Sessions,        \* requests that can run at the same time
    Products,        \* products that can be ordered
    MaxQty,          \* bound: quantity of one line
    MaxLines,        \* bound: lines of one receipt
    MaxRequests      \* bound: requests of one behaviour

ASSUME ProcurementAssumption ==
    /\ Products \subseteq Nat /\ IsFiniteSet(Products)
    /\ MaxQty \in Nat /\ MaxLines \in Nat /\ MaxRequests \in Nat

VARIABLES
    status,    \* PurchaseOrder.status, "none" before it is created
    ordered,   \* PurchaseOrderItem.orderedQuantity, 0 for a product not ordered
    received,  \* PurchaseOrderItem.receivedQuantity
    edition,   \* how often the items were replaced: their row ids change
    receipts,  \* GoodsReceiptItem.quantity, all receipts of the order together
    kind,      \* which handler a session runs, "none" between requests
    payload,   \* the items of an update
    lines,     \* the lines of a receipt
    fresh,     \* receiveGoods has read the order inside its transaction
    po,        \* the order as the session read it
    served,    \* requests begun so far
    outdated,  \* history: another request committed since the session last read
    stale,     \* history: a request committed although it was outdated
    twice      \* history: a receipt that lists a product twice committed

tables == <<status, ordered, received, edition, receipts>>
request == <<kind, payload, lines, fresh, po>>
history == <<outdated, stale, twice>>
vars == <<tables, request, served, history>>

PurchaseOrderStatus ==
    {"none", "PENDING", "APPROVED", "REJECTED", "PARTIALLY_RECEIVED", "RECEIVED", "CANCELLED"}
Kind == {"none", "update", "approve", "reject", "cancel", "receive"}

(* LineQuantity without the check that it is positive. *)
LineQuantity_Unchecked == 0..MaxQty

(* "Received quantity must be greater than zero". *)
LineQuantity == 1..MaxQty

Zero == [p \in Products |-> 0]
Order == [ordered |-> ordered, received |-> received, edition |-> edition]
Unread == [ordered |-> Zero, received |-> Zero, edition |-> 0]

(* Items of an order: at least one product, none twice. *)
Items == {q \in [Products -> 0..MaxQty] : \E p \in Products : q[p] > 0}

-----------------------------------------------------------------------------
(* Requests: the first read of a handler and its check of the status. *)

Begin(s, handler, allowed, items, ls) ==
    /\ kind[s] = "none"
    /\ status \in allowed
    /\ served < MaxRequests
    /\ served' = served + 1
    /\ kind' = [kind EXCEPT ![s] = handler]
    /\ payload' = [payload EXCEPT ![s] = items]
    /\ lines' = [lines EXCEPT ![s] = ls]
    /\ UNCHANGED <<tables, fresh, po, history>>

Updatable == {"PENDING"}

BeginUpdate(s) == \E items \in Items : Begin(s, "update", Updatable, items, <<>>)

BeginApprove(s) == Begin(s, "approve", {"PENDING"}, Zero, <<>>)

BeginReject(s) == Begin(s, "reject", {"PENDING"}, Zero, <<>>)

(* Cancellable that forgets the orders already under receipt. *)
Cancellable_UntilReceived == {"PENDING", "APPROVED", "PARTIALLY_RECEIVED"}

Cancellable == {"PENDING", "APPROVED"}

BeginCancel(s) == Begin(s, "cancel", Cancellable, Zero, <<>>)

Receivable == {"APPROVED", "PARTIALLY_RECEIVED"}

(* LineFits that forgets what was received before. *)
LineFits_FirstReceipt(l, q, r) == l.quantity <= q[l.product]

(* "Received quantity cannot exceed ordered quantity", line by line. *)
LineFits(l, q, r) == q[l.product] > 0 /\ r[l.product] + l.quantity <= q[l.product]

(* The lines after sorting by product; a product may be listed twice, and  *)
(* the sort keeps the order of equals.                                     *)
Receipts ==
    {ls \in UNION {[1..n -> [product: Products, quantity: LineQuantity]] : n \in 1..MaxLines} :
       \A i, j \in DOMAIN ls : i < j => ls[i].product <= ls[j].product}

BeginReceive(s) ==
    \E ls \in Receipts :
        /\ \A i \in DOMAIN ls : LineFits(ls[i], ordered, received)
        /\ Begin(s, "receive", Receivable, Zero, ls)

(* receiveGoods inside its transaction: the order is read and everything   *)
(* checked once more.                                                      *)
ReadOrder(s) ==
    /\ kind[s] = "receive" /\ ~fresh[s]
    /\ status \in Receivable
    /\ \A i \in DOMAIN lines[s] : LineFits(lines[s][i], ordered, received)
    /\ fresh' = [fresh EXCEPT ![s] = TRUE]
    /\ po' = [po EXCEPT ![s] = Order]
    /\ outdated' = [outdated EXCEPT ![s] = FALSE]
    /\ UNCHANGED <<tables, kind, payload, lines, served, stale, twice>>

-----------------------------------------------------------------------------
(* Writes *)

(* The request is over and its working data gone. *)
End(s) ==
    /\ kind' = [kind EXCEPT ![s] = "none"]
    /\ payload' = [payload EXCEPT ![s] = Zero]
    /\ lines' = [lines EXCEPT ![s] = <<>>]
    /\ fresh' = [fresh EXCEPT ![s] = FALSE]
    /\ po' = [po EXCEPT ![s] = Unread]
    /\ UNCHANGED served

(* The tables change: what the other open requests have read is outdated.  *)
Commit(s) ==
    /\ End(s)
    /\ outdated' = [t \in Sessions |-> t # s /\ kind[t] # "none"]
    /\ stale' = (stale \/ outdated[s])

CreateOrder ==
    /\ status = "none"
    /\ served < MaxRequests
    /\ served' = served + 1
    /\ status' = "PENDING"
    /\ ordered' \in Items
    /\ UNCHANGED <<received, edition, receipts, request, history>>

(* The items are deleted and created anew, whatever became of the order. *)
UpdateOrder(s) ==
    /\ kind[s] = "update"
    /\ ordered' = payload[s]
    /\ received' = Zero
    /\ edition' = edition + 1
    /\ Commit(s)
    /\ UNCHANGED <<status, receipts, twice>>

SetStatus(s, handler, new) ==
    /\ kind[s] = handler
    /\ status' = new
    /\ Commit(s)
    /\ UNCHANGED <<ordered, received, edition, receipts, twice>>

ApproveOrder(s) == SetStatus(s, "approve", "APPROVED")
RejectOrder(s) == SetStatus(s, "reject", "REJECTED")
CancelOrder(s) == SetStatus(s, "cancel", "CANCELLED")

(* What the lines of a receipt add up to. *)
LineSum(ls, p) ==
    SumFunction([i \in DOMAIN ls |-> IF ls[i].product = p THEN ls[i].quantity ELSE 0])

(* The last line about p, 0 without one: each line of p writes             *)
(* receivedQuantity anew from the quantity read.                           *)
LastLine(ls, p) ==
    LET at == {i \in DOMAIN ls : ls[i].product = p}
    IN  IF at = {} THEN 0 ELSE ls[Max(at)].quantity

(* StatusAfter that asks for one complete item. *)
StatusAfter_AnyItem(q, r) ==
    IF \E p \in Products : q[p] > 0 /\ r[p] >= q[p] THEN "RECEIVED"
    ELSE IF \E p \in Products : r[p] > 0 THEN "PARTIALLY_RECEIVED" ELSE "APPROVED"

StatusAfter(q, r) ==
    IF \A p \in Products : r[p] >= q[p] THEN "RECEIVED"
    ELSE IF \E p \in Products : r[p] > 0 THEN "PARTIALLY_RECEIVED" ELSE "APPROVED"

(* NewReceived that forgets the earlier receipts. *)
NewReceived_ThisReceipt(s, p) == LastLine(lines[s], p)

NewReceived(s, p) == po[s].received[p] + LastLine(lines[s], p)

(* The receipt, the received quantities of the items it names (their rows  *)
(* must still exist) and the status, computed from the order as read.      *)
ReceiveGoods(s) ==
    LET now == [p \in Products |-> NewReceived(s, p)]
    IN  /\ kind[s] = "receive" /\ fresh[s]
        /\ edition = po[s].edition
        /\ receipts' = [p \in Products |-> receipts[p] + LineSum(lines[s], p)]
        /\ received' = [p \in Products |->
                          IF LastLine(lines[s], p) > 0 THEN now[p] ELSE received[p]]
        /\ status' = StatusAfter(po[s].ordered, now)
        /\ twice' = (twice \/ \E p \in Products : LastLine(lines[s], p) # LineSum(lines[s], p))
        /\ Commit(s)
        /\ UNCHANGED <<ordered, edition>>

(* A check throws, the transaction times out or the connection is lost. *)
Rollback(s) ==
    /\ kind[s] # "none"
    /\ End(s)
    /\ outdated' = [outdated EXCEPT ![s] = FALSE]
    /\ UNCHANGED <<tables, stale, twice>>

-----------------------------------------------------------------------------
Init ==
    /\ status = "none"
    /\ ordered = Zero
    /\ received = Zero
    /\ edition = 0
    /\ receipts = Zero
    /\ kind = [s \in Sessions |-> "none"]
    /\ payload = [s \in Sessions |-> Zero]
    /\ lines = [s \in Sessions |-> <<>>]
    /\ fresh = [s \in Sessions |-> FALSE]
    /\ po = [s \in Sessions |-> Unread]
    /\ served = 0
    /\ outdated = [s \in Sessions |-> FALSE]
    /\ stale = FALSE
    /\ twice = FALSE

(* No request is open; the next one may never come. *)
Idle ==
    /\ \A s \in Sessions : kind[s] = "none"
    /\ UNCHANGED vars

Next ==
    \/ CreateOrder
    \/ \E s \in Sessions :
        \/ BeginUpdate(s) \/ BeginApprove(s) \/ BeginReject(s) \/ BeginCancel(s)
        \/ BeginReceive(s) \/ ReadOrder(s)
        \/ UpdateOrder(s) \/ ApproveOrder(s) \/ RejectOrder(s) \/ CancelOrder(s)
        \/ ReceiveGoods(s)
        \/ Rollback(s)
    \/ Idle

Spec == Init /\ [][Next]_vars

-----------------------------------------------------------------------------
(* Properties *)

(* Every variable has the shape of its table columns or working data. *)
TypeOK ==
    /\ status \in PurchaseOrderStatus
    /\ ordered \in [Products -> Nat]
    /\ received \in [Products -> Nat]
    /\ edition \in Nat
    /\ receipts \in [Products -> Nat]
    /\ kind \in [Sessions -> Kind]
    /\ payload \in [Sessions -> [Products -> Nat]]
    /\ lines \in [Sessions -> Seq([product: Products, quantity: Nat \ {0}])]
    /\ fresh \in [Sessions -> BOOLEAN]
    /\ po \in [Sessions -> [ordered: [Products -> Nat], received: [Products -> Nat],
                            edition: Nat]]
    /\ served \in Nat
    /\ outdated \in [Sessions -> BOOLEAN]
    /\ stale \in BOOLEAN /\ twice \in BOOLEAN

(* receivedQuantity never exceeds orderedQuantity, although it is computed *)
(* from an unlocked read while other receipts and an update that replaces  *)
(* the items are under way.                                                *)
ReceivedWithinOrdered == \A p \in Products : received[p] <= ordered[p]

(* The items say what the goods receipts brought in, so that nothing is    *)
(* received beyond what was ordered: true as long as no request commits on *)
(* an outdated read and no receipt lists a product twice, the two ways in  *)
(* which a receivedQuantity is written that was not read.                  *)
ReceivedMatchesReceipts ==
    ~stale /\ ~twice => \A p \in Products : received[p] = receipts[p]

Complete == \A p \in Products : received[p] = ordered[p]
Started == \E p \in Products : received[p] > 0

(* "RECEIVED (all items fully received) or PARTIALLY_RECEIVED (some items  *)
(* received)": the status of an order says how far its receipt is, unless  *)
(* a request committed on an outdated read.  A PARTIALLY_RECEIVED order    *)
(* with nothing outstanding would stay so for good.                        *)
StatusFollowsReceipts ==
    ~stale =>
        /\ status = "RECEIVED" => Complete
        /\ status = "PARTIALLY_RECEIVED" => Started /\ ~Complete
        /\ status \notin {"none", "RECEIVED", "PARTIALLY_RECEIVED"} => ~Started

(* Quantities, receipts and status of an order add up: the three above.    *)
ReceiptsAddUp == ReceivedWithinOrdered /\ ReceivedMatchesReceipts /\ StatusFollowsReceipts

Follows(a, b) ==
    \/ a = b
    \/ a = "none" /\ b = "PENDING"
    \/ a = "PENDING" /\ b \in {"APPROVED", "REJECTED", "CANCELLED"}
    \/ a = "APPROVED" /\ b \in {"CANCELLED", "PARTIALLY_RECEIVED", "RECEIVED"}
    \/ a = "PARTIALLY_RECEIVED" /\ b = "RECEIVED"

(* An order moves along its life cycle: a decision is made once, on a      *)
(* PENDING order, and what was decided on is not changed any more ("Only   *)
(* PENDING orders can be updated"); no goods come in, and no stock with    *)
(* them, for a cancelled order.  Only a request that commits on an         *)
(* outdated read can leave it.                                             *)
LifeCycle ==
    [][~stale' =>
         /\ Follows(status, status')
         /\ status \notin {"none", "PENDING"} => ordered' = ordered
         /\ status \in {"REJECTED", "CANCELLED"} => receipts' = receipts]_vars
=============================================================================
