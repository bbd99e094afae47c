----------------------------- MODULE Fulfilment -----------------------------
(***************************************************************************)
(* A sales order from its reservation to the last unit picked.             *)
(*   create      SalesOrderService.createSalesOrder                        *)
(*   cancel      SalesOrderService.cancelSalesOrder                        *)
(*   createTask  PickingService.createPickingTask                          *)
(*   assign      PickingService.assignPicker                               *)
(*   start       PickingService.startPicking                               *)
(*   pick        PickingService.pickItems                                  *)
(*   post        InventoryService.adjustStockTx, a receipt or a movement   *)
(* A handler reads, then writes: the reads of cancel, createTask, assign   *)
(* and start take no lock, so anything can happen before the write.  Only  *)
(* create, pick and post lock rows, and FOR UPDATE locks a stock row only  *)
(* if there is one: a creation that finds none goes on without a lock, and *)
(* the row can appear while it does, with the product's first movement.    *)
(* Each order has one line per product at most (duplicates are refused);   *)
(* units of a pick that name the same line are added up, and bins always   *)
(* hold enough (BinStock looks at them).  The status of a picking task     *)
(* item follows from its quantities.                                       *)
(***************************************************************************)
EXTENDS Integers, FiniteSetsExt

CONSTANTS
    Sessions,      \* requests that can run at the same time
    Orders,        \* sales orders that can be created
    Products,      \* products, numbered in localeCompare order
    OpeningStock,  \* warehouse total of each product at the start, or Absent
    Handlers,      \* the handlers in use
    MaxQty,        \* bound: quantity of one line
    MaxRequests,   \* bound: requests of one behaviour
    Absent,        \* the product has no inventory_stocks row
    NoSession,     \* nobody holds the row lock
    NoOrder        \* a session that works on no existing order

Handler == {"create", "cancel", "createTask", "assign", "start", "pick", "post"}

ASSUME FulfilmentAssumption ==
    /\ Products \subseteq Nat /\ IsFiniteSet(Products) /\ IsFiniteSet(Orders)
    /\ Absent \notin Int
    /\ OpeningStock \in [Products -> Nat \union {Absent}]
    /\ Handlers \subseteq Handler
    /\ MaxQty \in Nat /\ MaxRequests \in Nat
    /\ NoSession \notin Sessions
    /\ NoOrder \notin Orders

VARIABLES
    stock,             \* inventory_stocks.quantity, or Absent
    so,                \* SalesOrder.status, "none" before it is created
    quantity,          \* SalesOrderItem.quantity and its reservation's quantity
    reservedQuantity,  \* SalesOrderItem.reservedQuantity
    reservation,       \* StockReservation.status of each line
    task,              \* PickingTask.status, "none" before it is created
    required,          \* PickingTaskItem.requiredQuantity
    picked,            \* PickingTaskItem.pickedQuantity
    allocations,       \* PickingAllocation.quantity, all rows of an item together
    stockHolder,       \* the session that holds the lock on a stock row
    taskHolder,        \* the session that holds the lock on a picking task
    kind,              \* which handler a session runs, "none" between requests
    order,             \* the order a session works on
    qty,               \* quantities of the payload, or read from reservations
    base,              \* itemProgressMap of a pick: pickedQuantity as it read it;
                       \* inventoryStock of the lines a creation has no lock for
    toLock,            \* whether a pick has still to lock its task
    wanted,            \* products a session has still to lock, or to check
    bare,              \* products for which a creation found no row to lock
    served,            \* requests begun so far
    taken,             \* history: units that left a product's stock otherwise than
                       \* by picking what was reserved
    crossed,           \* history: orders that two open requests worked on at once
    unlocked           \* history: units promised of a product by creations that
                       \* found no row of it to lock

orderTables == <<so, quantity, reservedQuantity, reservation>>
taskTables == <<task, required, picked, allocations>>
locks == <<stockHolder, taskHolder>>
request == <<kind, order, qty, base, toLock, wanted, bare>>
history == <<taken, crossed, unlocked>>
vars == <<stock, orderTables, taskTables, locks, request, served, history>>

SalesOrderStatus == {"none", "CONFIRMED", "CANCELLED"}
ReservationStatus == {"none", "ACTIVE", "RELEASED", "CONSUMED"}
PickingStatus == {"none", "PENDING", "ASSIGNED", "IN_PROGRESS", "PARTIALLY_PICKED", "PICKED"}

Zero == [p \in Products |-> 0]
Asked(q) == {p \in Products : q[p] > 0}

(* Non-empty payloads over the given products. *)
Payloads(ps) == {q \in [Products -> 0..MaxQty] : Asked(q) # {} /\ Asked(q) \subseteq ps}

-----------------------------------------------------------------------------
(* Requests: the first read of a handler belongs to its Begin.             *)

Begin(s, handler, o, q, lockTask, ps) ==
    /\ handler \in Handlers
    /\ kind[s] = "none"
    /\ served < MaxRequests
    /\ served' = served + 1
    /\ kind' = [kind EXCEPT ![s] = handler]
    /\ order' = [order EXCEPT ![s] = o]
    /\ qty' = [qty EXCEPT ![s] = q]
    /\ toLock' = [toLock EXCEPT ![s] = lockTask]
    /\ wanted' = [wanted EXCEPT ![s] = ps]
    /\ crossed' = crossed \union {c \in {o} \ {NoOrder} : \E t \in Sessions : order[t] = c}
    /\ UNCHANGED <<stock, orderTables, taskTables, locks, base, bare, taken, unlocked>>

BeginCreate(s) ==
    \E q \in Payloads(Products) : Begin(s, "create", NoOrder, q, FALSE, Asked(q))

(* "Only confirmed sales orders can be cancelled." *)
BeginCancel(s) ==
    \E o \in Orders : so[o] = "CONFIRMED" /\ Begin(s, "cancel", o, Zero, FALSE, {})

ActiveQuantity(o, p) == IF reservation[o][p] = "ACTIVE" THEN quantity[o][p] ELSE 0

(* The order is CONFIRMED, has no task yet, and something is reserved. *)
BeginCreateTask(s) ==
    \E o \in Orders :
        LET reserved == [p \in Products |-> ActiveQuantity(o, p)]
        IN  /\ so[o] = "CONFIRMED"
            /\ task[o] = "none"
            /\ Asked(reserved) # {}
            /\ Begin(s, "createTask", o, reserved, FALSE, {})

(* No handler sets CANCELLED, so an open task is one that is not PICKED. *)
OpenTask(o) == task[o] \notin {"none", "PICKED"}

BeginAssign(s) == \E o \in Orders : OpenTask(o) /\ Begin(s, "assign", o, Zero, FALSE, {})

BeginStart(s) == \E o \in Orders : OpenTask(o) /\ Begin(s, "start", o, Zero, FALSE, {})

(* Every unit names an item of the task. *)
BeginPick(s) ==
    \E o \in Orders : \E q \in Payloads(Asked(required[o])) :
        OpenTask(o) /\ Begin(s, "pick", o, q, TRUE, Asked(q))

-----------------------------------------------------------------------------
(* Locks *)

NextStockLock(s, p) == p \in wanted[s] /\ \A o \in wanted[s] : p <= o

(* getAvailableStockTx: what is read of the stock row, less the ACTIVE     *)
(* reservations.                                                           *)
InStock(p) == IF stock[p] = Absent THEN 0 ELSE stock[p]
Reserved(p) == SumFunctionOnSet([o \in Orders |-> ActiveQuantity(o, p)], Orders)
Available(p, inventoryStock) ==
    IF inventoryStock > Reserved(p) THEN inventoryStock - Reserved(p) ELSE 0

(* CheckLine with a plain read of the stock row. *)
CheckLine_NoLock(s) ==
    \E p \in Products :
        /\ kind[s] = "create" /\ NextStockLock(s, p) /\ p \notin bare[s]
        /\ stock[p] # Absent
        /\ qty[s][p] <= Available(p, InStock(p))
        /\ wanted' = [wanted EXCEPT ![s] = @ \ {p}]
        /\ UNCHANGED <<stock, orderTables, taskTables, locks,
                       kind, order, qty, base, toLock, bare, served, history>>

(* createSalesOrder: the stock row is locked, then the availability read.  *)
(* One step at the read of the reservations: under the lock the row cannot *)
(* change before it.                                                       *)
CheckLine(s) ==
    \E p \in Products :
        /\ kind[s] = "create" /\ NextStockLock(s, p) /\ p \notin bare[s]
        /\ stock[p] # Absent
        /\ stockHolder[p] = NoSession
        /\ qty[s][p] <= Available(p, InStock(p))
        /\ stockHolder' = [stockHolder EXCEPT ![p] = s]
        /\ wanted' = [wanted EXCEPT ![s] = @ \ {p}]
        /\ UNCHANGED <<stock, orderTables, taskTables, taskHolder,
                       kind, order, qty, base, toLock, bare, served, history>>

(* FOR UPDATE returns no row, so it locks nothing: the request goes on. *)
FindNoRow(s) ==
    \E p \in Products :
        /\ kind[s] = "create" /\ NextStockLock(s, p)
        /\ stock[p] = Absent
        /\ p \notin bare[s]
        /\ bare' = [bare EXCEPT ![s] = @ \union {p}]
        /\ UNCHANGED <<stock, orderTables, taskTables, locks,
                       kind, order, qty, base, toLock, wanted, served, history>>

(* getAvailableStockTx without the lock reads the stock row, which a first *)
(* movement may have written by now ...  With nothing in stock the line    *)
(* fails.                                                                  *)
ReadStock(s) ==
    \E p \in bare[s] :
        /\ kind[s] = "create" /\ NextStockLock(s, p)
        /\ base[s][p] = 0 /\ InStock(p) > 0
        /\ base' = [base EXCEPT ![s][p] = InStock(p)]
        /\ UNCHANGED <<stock, orderTables, taskTables, locks,
                       kind, order, qty, toLock, wanted, bare, served, history>>

(* ... and then the reservations: other requests come in between. *)
CheckReserved(s) ==
    \E p \in bare[s] :
        /\ kind[s] = "create" /\ NextStockLock(s, p)
        /\ base[s][p] > 0
        /\ qty[s][p] <= Available(p, base[s][p])
        /\ wanted' = [wanted EXCEPT ![s] = @ \ {p}]
        /\ UNCHANGED <<stock, orderTables, taskTables, locks,
                       kind, order, qty, base, toLock, bare, served, history>>

(* LockTask with a plain read of the task. *)
LockTask_NoLock(s) ==
    /\ toLock[s]
    /\ OpenTask(order[s])
    /\ toLock' = [toLock EXCEPT ![s] = FALSE]
    /\ base' = [base EXCEPT ![s] = picked[order[s]]]
    /\ UNCHANGED <<stock, orderTables, taskTables, locks,
                   kind, order, qty, wanted, bare, served, history>>

(* pickItems: the task is locked and read again, with its items. *)
LockTask(s) ==
    /\ toLock[s]
    /\ taskHolder[order[s]] = NoSession
    /\ OpenTask(order[s])
    /\ taskHolder' = [taskHolder EXCEPT ![order[s]] = s]
    /\ toLock' = [toLock EXCEPT ![s] = FALSE]
    /\ base' = [base EXCEPT ![s] = picked[order[s]]]
    /\ UNCHANGED <<stock, orderTables, taskTables, stockHolder,
                   kind, order, qty, wanted, bare, served, history>>

(* The order reserved the product, so its stock row exists. *)
LockStock(s) ==
    \E p \in Products :
        /\ kind[s] = "pick" /\ ~toLock[s] /\ NextStockLock(s, p)
        /\ stockHolder[p] = NoSession
        /\ stockHolder' = [stockHolder EXCEPT ![p] = s]
        /\ wanted' = [wanted EXCEPT ![s] = @ \ {p}]
        /\ UNCHANGED <<stock, orderTables, taskTables, taskHolder,
                       kind, order, qty, base, toLock, bare, served, history>>

(* The request is over: its locks and its working data are gone. *)
End(s) ==
    /\ stockHolder' = [p \in Products |-> IF stockHolder[p] = s THEN NoSession ELSE stockHolder[p]]
    /\ taskHolder' = [o \in Orders |-> IF taskHolder[o] = s THEN NoSession ELSE taskHolder[o]]
    /\ kind' = [kind EXCEPT ![s] = "none"]
    /\ order' = [order EXCEPT ![s] = NoOrder]
    /\ qty' = [qty EXCEPT ![s] = Zero]
    /\ base' = [base EXCEPT ![s] = Zero]
    /\ toLock' = [toLock EXCEPT ![s] = FALSE]
    /\ wanted' = [wanted EXCEPT ![s] = {}]
    /\ bare' = [bare EXCEPT ![s] = {}]
    /\ UNCHANGED <<served, crossed>>

-----------------------------------------------------------------------------
(* Writes: each transaction's rows come into force when it commits.        *)

(* The order is CONFIRMED at once and every line has an ACTIVE reservation. *)
CreateOrder(s) ==
    \E o \in Orders :
        /\ kind[s] = "create" /\ wanted[s] = {}
        /\ so[o] = "none"
        /\ so' = [so EXCEPT ![o] = "CONFIRMED"]
        /\ quantity' = [quantity EXCEPT ![o] = qty[s]]
        /\ reservedQuantity' = [reservedQuantity EXCEPT ![o] = qty[s]]
        /\ reservation' = [reservation EXCEPT ![o] =
                             [p \in Products |-> IF qty[s][p] > 0 THEN "ACTIVE" ELSE "none"]]
        /\ unlocked' = [p \in Products |->
              IF p \in bare[s] THEN unlocked[p] + qty[s][p] ELSE unlocked[p]]
        /\ End(s)
        /\ UNCHANGED <<stock, taskTables, taken>>

(* The status is not read again; a reservation consumed meanwhile stays so. *)
CancelOrder(s) ==
    LET o == order[s]
    IN  /\ kind[s] = "cancel"
        /\ so' = [so EXCEPT ![o] = "CANCELLED"]
        /\ reservedQuantity' = [reservedQuantity EXCEPT ![o] = Zero]
        /\ reservation' = [reservation EXCEPT ![o] =
                             [p \in Products |-> IF @[p] = "ACTIVE" THEN "RELEASED" ELSE @[p]]]
        /\ End(s)
        /\ UNCHANGED <<stock, quantity, taskTables, taken, unlocked>>

(* The unique index on salesOrderId lets one task in. *)
CreateTask(s) ==
    LET o == order[s]
    IN  /\ kind[s] = "createTask"
        /\ task[o] = "none"
        /\ task' = [task EXCEPT ![o] = "PENDING"]
        /\ required' = [required EXCEPT ![o] = qty[s]]
        /\ End(s)
        /\ UNCHANGED <<stock, orderTables, picked, allocations, taken, unlocked>>

(* An unconditional update of the row once nobody else has it locked. *)
SetTaskStatus(s, handler, status) ==
    /\ kind[s] = handler
    /\ taskHolder[order[s]] = NoSession
    /\ task' = [task EXCEPT ![order[s]] = status]
    /\ End(s)
    /\ UNCHANGED <<stock, orderTables, required, picked, allocations, taken, unlocked>>

AssignPicker(s) == SetTaskStatus(s, "assign", "ASSIGNED")

StartPicking(s) == SetTaskStatus(s, "start", "IN_PROGRESS")

Sum(q) == SumFunctionOnSet(q, Products)

(* PickAllowed without the check of the stock row. *)
PickAllowed_NoStockCheck(s) ==
    \A p \in Asked(qty[s]) : qty[s][p] <= required[order[s]][p] - base[s][p]

(* Rule 6: no more than remains to be picked, and stockTracker stays above *)
(* zero.                                                                   *)
PickAllowed(s) ==
    \A p \in Asked(qty[s]) :
        /\ qty[s][p] <= required[order[s]][p] - base[s][p]
        /\ qty[s][p] <= stock[p]

(* ItemPicked for any item the payload names. *)
ItemPicked_Touched(s, p) == qty[s][p] > 0

(* The item is PICKED by this payload. *)
ItemPicked(s, p) == qty[s][p] > 0 /\ base[s][p] + qty[s][p] >= required[order[s]][p]

Now(s) == [p \in Products |-> base[s][p] + qty[s][p]]

(* Finished as soon as one item is picked. *)
Finished_AnyItem(s) == \E p \in Products : ItemPicked(s, p)

(* The totals over all items say that nothing remains. *)
Finished(s) == Sum(Now(s)) >= Sum(required[order[s]])

(* The units leave the stock; a picked item consumes its reservation; the  *)
(* task's status follows from the totals, and when it is PICKED whatever   *)
(* is still ACTIVE is consumed too.                                        *)
PickItems(s) ==
    LET o == order[s]
    IN  /\ kind[s] = "pick" /\ ~toLock[s] /\ wanted[s] = {}
        /\ PickAllowed(s)
        /\ stock' = [p \in Products |-> IF qty[s][p] > 0 THEN stock[p] - qty[s][p] ELSE stock[p]]
        /\ picked' = [picked EXCEPT ![o] =
                        [p \in Products |-> IF qty[s][p] > 0 THEN Now(s)[p] ELSE @[p]]]
        /\ allocations' = [allocations EXCEPT ![o] = [p \in Products |-> @[p] + qty[s][p]]]
        /\ task' = [task EXCEPT ![o] = IF Finished(s) THEN "PICKED" ELSE "PARTIALLY_PICKED"]
        /\ reservation' = [reservation EXCEPT ![o] =
              [p \in Products |-> IF @[p] = "ACTIVE" /\ (Finished(s) \/ ItemPicked(s, p))
                                  THEN "CONSUMED" ELSE @[p]]]
        /\ taken' = [p \in Products |->
              IF reservation[o][p] = "ACTIVE" THEN taken[p] ELSE taken[p] + qty[s][p]]
        /\ End(s)
        /\ UNCHANGED <<so, quantity, reservedQuantity, required, unlocked>>

(* A check throws, a transaction times out or the connection is lost. *)
Rollback(s) ==
    /\ kind[s] # "none"
    /\ End(s)
    /\ UNCHANGED <<stock, orderTables, taskTables, taken, unlocked>>

-----------------------------------------------------------------------------
(* A receipt, or a manual movement: adjustStockTx on one product.          *)

(* The row exists and is held from its read to the commit. *)
PostMovement ==
    \E p \in Products, q \in -MaxQty..MaxQty :
        /\ "post" \in Handlers
        /\ q # 0
        /\ served < MaxRequests
        /\ served' = served + 1
        /\ stock[p] # Absent
        /\ stockHolder[p] = NoSession
        /\ stock[p] + q >= 0
        /\ stock' = [stock EXCEPT ![p] = @ + q]
        /\ taken' = [taken EXCEPT ![p] = IF q < 0 THEN @ - q ELSE @]
        /\ UNCHANGED <<orderTables, taskTables, locks, request, crossed, unlocked>>

(* FOR UPDATE finds no row: the new quantity is reckoned from zero ... *)
BeginFirst(s) ==
    \E p \in Products, q \in 1..MaxQty :
        /\ stock[p] = Absent
        /\ Begin(s, "post", NoOrder, [Zero EXCEPT ![p] = q], FALSE, {})

(* ... and upserted: a row that another first movement has written by now  *)
(* is overwritten.                                                         *)
WriteFirst(s) ==
    \E p \in Asked(qty[s]) :
        /\ kind[s] = "post"
        /\ stockHolder[p] = NoSession
        /\ stock' = [stock EXCEPT ![p] = qty[s][p]]
        /\ taken' = [taken EXCEPT ![p] = IF InStock(p) > qty[s][p] THEN @ + InStock(p) - qty[s][p]
                                         ELSE @]
        /\ End(s)
        /\ UNCHANGED <<orderTables, taskTables, unlocked>>

-----------------------------------------------------------------------------
Init ==
    /\ stock = OpeningStock
    /\ so = [o \in Orders |-> "none"]
    /\ quantity = [o \in Orders |-> Zero]
    /\ reservedQuantity = [o \in Orders |-> Zero]
    /\ reservation = [o \in Orders |-> [p \in Products |-> "none"]]
    /\ task = [o \in Orders |-> "none"]
    /\ required = [o \in Orders |-> Zero]
    /\ picked = [o \in Orders |-> Zero]
    /\ allocations = [o \in Orders |-> Zero]
    /\ stockHolder = [p \in Products |-> NoSession]
    /\ taskHolder = [o \in Orders |-> NoSession]
    /\ kind = [s \in Sessions |-> "none"]
    /\ order = [s \in Sessions |-> NoOrder]
    /\ qty = [s \in Sessions |-> Zero]
    /\ base = [s \in Sessions |-> Zero]
    /\ toLock = [s \in Sessions |-> FALSE]
    /\ wanted = [s \in Sessions |-> {}]
    /\ bare = [s \in Sessions |-> {}]
    /\ served = 0
    /\ taken = Zero
    /\ crossed = {}
    /\ unlocked = Zero

(* Every request the bound allows has been answered. *)
Quiescent ==
    /\ served = MaxRequests
    /\ \A s \in Sessions : kind[s] = "none"
    /\ UNCHANGED vars

Next ==
    \/ \E s \in Sessions :
        \/ BeginCreate(s) \/ BeginCancel(s) \/ BeginCreateTask(s)
        \/ BeginAssign(s) \/ BeginStart(s) \/ BeginPick(s)
        \/ BeginFirst(s)
        \/ CheckLine(s) \/ FindNoRow(s) \/ ReadStock(s) \/ CheckReserved(s)
        \/ LockTask(s) \/ LockStock(s)
        \/ CreateOrder(s) \/ CancelOrder(s) \/ CreateTask(s)
        \/ AssignPicker(s) \/ StartPicking(s) \/ PickItems(s)
        \/ WriteFirst(s) \/ Rollback(s)
    \/ PostMovement
    \/ Quiescent

Spec == Init /\ [][Next]_vars

-----------------------------------------------------------------------------
(* Properties *)

(* Every variable has the shape of its table columns or working data; the  *)
(* quantities of the tables never go below zero.                           *)
TypeOK ==
    /\ stock \in [Products -> Nat \union {Absent}]
    /\ so \in [Orders -> SalesOrderStatus]
    /\ quantity \in [Orders -> [Products -> Nat]]
    /\ reservedQuantity \in [Orders -> [Products -> Nat]]
    /\ reservation \in [Orders -> [Products -> ReservationStatus]]
    /\ task \in [Orders -> PickingStatus]
    /\ required \in [Orders -> [Products -> Nat]]
    /\ picked \in [Orders -> [Products -> Nat]]
    /\ allocations \in [Orders -> [Products -> Nat]]
    /\ stockHolder \in [Products -> Sessions \union {NoSession}]
    /\ taskHolder \in [Orders -> Sessions \union {NoSession}]
    /\ kind \in [Sessions -> Handler \union {"none"}]
    /\ order \in [Sessions -> Orders \union {NoOrder}]
    /\ qty \in [Sessions -> [Products -> Nat]]
    /\ base \in [Sessions -> [Products -> Nat]]
    /\ toLock \in [Sessions -> BOOLEAN]
    /\ wanted \in [Sessions -> SUBSET Products]
    /\ bare \in [Sessions -> SUBSET Products]
    /\ served \in Nat
    /\ taken \in [Products -> Nat]
    /\ crossed \subseteq Orders
    /\ unlocked \in [Products -> Nat]

(* What the picking allocations say was taken from the bins is what the    *)
(* items say was picked, no more than the task asks for ("Cannot pick more *)
(* than remaining required quantity") and no more than was ordered,        *)
(* however many pickers work on one task.                                  *)
PickedWithinOrdered ==
    \A o \in Orders, p \in Products :
        /\ allocations[o][p] = picked[o][p]
        /\ picked[o][p] <= required[o][p]
        /\ required[o][p] <= quantity[o][p]

(* A reservation is CONSUMED only when all its units have been picked, is  *)
(* ACTIVE only while the order is CONFIRMED with units still to pick, and  *)
(* RELEASED only by cancelling the order: no race of cancelling, creating  *)
(* the task and picking strands stock under a reservation of a dead order. *)
ReservationsSettled ==
    \A o \in Orders, p \in Products :
        LET complete == picked[o][p] = quantity[o][p]
        IN  /\ reservation[o][p] = "CONSUMED" => complete
            /\ reservation[o][p] = "ACTIVE" => so[o] = "CONFIRMED" /\ ~complete
            /\ reservation[o][p] = "RELEASED" => so[o] = "CANCELLED"

(* What the ACTIVE reservations still promise of a product is in the       *)
(* warehouse, except for units that left it otherwise than by picking what *)
(* was reserved (those of a manual OUT, those picked for a cancelled order *)
(* and those a second first movement overwrote), and for no more units     *)
(* than were promised by creations that found no stock row to lock.  No    *)
(* interleaving of creating, cancelling and picking orders with each other *)
(* and with movements makes a creation that locked its rows sell a unit    *)
(* twice.                                                                  *)
Promised(o, p) == IF reservation[o][p] = "ACTIVE" THEN quantity[o][p] - picked[o][p] ELSE 0
PromisedOf(p) == SumFunctionOnSet([o \in Orders |-> Promised(o, p)], Orders)
PromisesCovered ==
    \A p \in Products : PromisedOf(p) <= InStock(p) + taken[p] + unlocked[p]

(* A task is PICKED exactly when nothing of it remains to be picked,       *)
(* unless two requests that were open together worked on its order.        *)
TaskFollowsPicks ==
    \A o \in Orders \ crossed :
        task[o] # "none" => (task[o] = "PICKED" <=> picked[o] = required[o])

(* The promise of the locks in createSalesOrder ("to prevent overselling", *)
(* "to prevent double allocation"): what ACTIVE reservations still promise *)
(* is in the warehouse.                                                    *)
StockCoversPromises == \A p \in Products : PromisedOf(p) <= InStock(p)
=============================================================================
