# A specification of the warehouse management system

TLA+ modules, TLC models and TLAPS proofs for the backend under
`src/backend` (Express, Prisma, PostgreSQL) and the part of the web client
under `src/frontend` that keeps state of its own. The backend keeps the stock
of several warehouses, and moves goods through it: purchase orders bring them
in, sales orders reserve them, picking takes them out, packing puts them into
packages, shipping sends them off.

Every handler is an asynchronous function of a Node server. Requests run
concurrently; what keeps them apart is PostgreSQL only: `prisma.$transaction`
without an isolation level, that is READ COMMITTED, and `SELECT ... FOR UPDATE`
where the code asks for it. The administration of locations, users and master
data does without both: its handlers are single statements one after the other.
Whether that is enough is the question of this project.

## 1. The system

`module/x/x.service.ts` below stands for
`src/backend/src/app/module/x/x.service.ts`.

| Component | State | Operations that change it | Model |
|---|---|---|---|
| Stock ledger (`inventory.service.ts`) | `inventory_stocks`, `stock_movements` | `adjustStock`, `adjustStockTx` (called by goods receipts); picking writes the same rows itself | `StockLedger`, `AtomicStock` |
| Bin stock (`inventory-location.service.ts`) | `inventory_location_stocks`, location movements | `allocateStock`, `deallocateStock`, `transferStock`; picking | `BinStock` |
| Sales orders (`salesOrder.service.ts`) | order, items, reservations | `createSalesOrder`, `cancelSalesOrder` | `Fulfilment`, `Packing` |
| Picking (`picking.service.ts`) | task, items, picking allocations | `createPickingTask`, `assignPicker`, `startPicking`, `pickItems` | `Fulfilment`, `BinStock`, `StockLedger` |
| Purchase orders (`purchaseOrder.service.ts`) | order, items, goods receipts | create, update, approve, reject, cancel, `receiveGoods` | `Procurement`, `StockLedger` |
| Packing (`packing.service.ts`) | task, items, packages | `createPackingTask`, `assignPacker`, `startPacking`, `createPackage`, `addPackageItems`, `closePackage`, `cancelPackingTask` | `Packing` |
| Shipping (`shipping.service.ts`) | shipment, status of the order | `createShipment`, `updateShipmentStatus`, `updateShipment` | `Shipping` |
| Location hierarchy (`zone`, `aisle`, `shelf`, `bin`, `warehouse`) | rows with parent, status and soft deletion | create, update (move), status, delete | `Structure`; capacities in `BinStock` |
| Users and assignment (`user.service.ts`, `warehouse.service.ts`, `utils/seed.ts`) | user rows | create, seed, block, unblock, role, update, delete, assign, unassign, first password | `Accounts` |
| Master data (product, brand, category) | rows with slug, groups, image; the image store | create, update, status, delete | `Catalog` |
| Suppliers | single rows | create, update, status, soft delete | not modelled |
| Notifications (`notification.service.ts`, `socket/`) | notification rows, rooms | create, read, read all, delete, emit | `Notifications` |
| Web client, notification bell (`features/notification`) | query cache of list and unread count | socket events, fetches, mutations | `Notifications` |
| Authentication, access control | sessions, tokens | better-auth library, guards | not modelled |
| Server, utilities, API documentation, other pages | none | none | not modelled |

How they interact:

- by function calls inside one transaction: `receiveGoods` calls
  `adjustStockTx`, `createSalesOrder` calls `getAvailableStockTx`;
- by shared rows: a stock row is written by adjustments, receipts and picks and
  locked by orders; a bin row by allocations, transfers and picks; the status
  of an order by cancelling and by shipping;
- by preconditions on each other's states: picking asks for a CONFIRMED order,
  packing for a PICKED task, shipping for a PACKED one;
- by the location hierarchy: allocation and transfer validate a bin's path up
  to its warehouse, and the stock rows of a bin keep the warehouse;
- by groups: a product is put into a category and a brand that can be switched
  off or deleted;
- by notifications, sent after the transaction and never relied upon, and shown
  by a page that also fetches them.

What is hard in it:

- a check is a plain read, and the write comes later, mostly without repeating
  the check (status changes, bin capacity, received quantities);
- `FOR UPDATE` on a row that does not exist locks nothing;
- several rows are locked one after the other, so their order matters;
- quantities and statuses are computed from rows that another transaction has
  changed but not committed;
- a handler may fail at any statement, at the 20 s timeout of `$transaction`,
  or as the victim of a deadlock, and everything it wrote must be undone;
- outside transactions nothing is undone: the creation of a user and the
  replacement of an image span two systems and clean up by hand;
- a page learns of a notification in three ways (event, fetch, its own
  arithmetic after a click) that overtake each other.

`PROJECT.json` lists these hazards line by line with the properties that watch
them. What makes each component correct, in short:

| Component | Correct means |
|---|---|
| Stock ledger | never negative; movements explain the quantity without a gap; no circular wait; every request ends |
| Bin stock | movements explain the bins; bins not negative, not filled beyond capacity, within the warehouse total; no deadlock without a transfer |
| Orders and picking | nothing promised twice; nothing picked beyond the order; every reservation ends as the order and its picking say; finished tasks stay finished |
| Procurement | nothing received beyond the order or for a cancelled one; status says what was received; decisions are final |
| Packing | nothing packed beyond what was picked; packages hold what is packed; PACKED if and only if complete; closed tasks and packages stay as they are; only the assigned packer works |
| Shipping | only complete orders are shipped; the shipment follows its transitions and the order follows the shipment; a cancelled order is not shipped |
| Location hierarchy | no row in use under a deleted one; a bin's stock counts for the warehouse the bin is in; deleted rows are frozen; stock goes to active places only |
| Users | no half-made user takes up an address; nobody loses a finished account; deleted and assigned users are protected |
| Master data | the slug follows the name, within the retry limit; images in use exist, others are removed; active groups only |
| Notifications | when nothing is under way, badge and dropdown show the table; the badge becomes right again and again |

## 2. The modules

```
Movements <- AtomicStock                       what the ledger promises
         \- StockLedger <- ProductProofs       how the code keeps it
BinStock    <- BinStockProofs                  one component each
Fulfilment  <- FulfilmentProofs
Procurement <- ProcurementProofs
Packing                                        one order's packing, and
       \- Shipping   <- PackingProofs          shipping composed with it
Structure   <- StructureProofs                 administration
Accounts    <- UserProofs
Catalog     <- ProductProofs
Notifications <- UserProofs                    server and page together

SumTheorems                                    sums over finite sets; used by the
                                               proofs about quantities
```

`ProductProofs` is about the products, their stock and their catalogue;
`UserProofs` about the users and what a user's page shows. The two components
of each share no state: the module proves about one after the other.

Each `MCx` module gives the constants of `x` small values for TLC, and each
`.cfg` is one run.

### The common shape

A *session* is a request in progress. `kind[s]` says which handler it runs,
`Begin...(s)` starts one: the handler's first read, its checks and the payload.
One action follows for each further statement whose position matters, and the
last one (`Commit`, `CancelOrder`, `ReceiveGoods`, ...) puts the rows of the
transaction into force and ends the session. `Rollback(s)` is possible at any
moment of a session; it stands for every check that throws, the timeout, a
lost connection, a unique-index violation, and a deadlock victim. Locks and
the working data of a session disappear with it (`End`).

PostgreSQL is modelled from how the code uses it, and marked external in the
map: a plain read sees committed rows and the session's own; a row written or
selected FOR UPDATE stays locked until the end of the transaction; rows written
become visible to others all at once. A statement that changes a row another
transaction has locked waits for it. What a transaction has written may
therefore be kept in the session (`own`, `draft`, `added`) until it commits.

`MaxRequests` bounds the requests of a behaviour, `MaxQty`, `MaxLines` and
`MaxUnits` their payloads. `Quiescent` is the rest after the last request, so
that TLC's deadlock check finds a request that cannot even roll back; where
the states of an order may admit no further request before the bound is reached
(`Idle` in `Procurement`, `Quiescent` in `Packing`) rest is possible at any time
no request is open. No run switches the deadlock check off.

`Catalog` and `Notifications` have names of their own for the same things,
because a proof module extends each of them next to another component:
`CatalogInit`, `CatalogNext`, `CatalogSpec`, and in `Catalog` *clients* for
sessions, `BeginRequest`, `EndRequest`, `NoneOpen`, `MaxBegun`.

History variables record what a property needs to know of the past and no
action reads:

- `crossed` (`BinStock`, `Fulfilment`, `Structure`, `Accounts`, `Catalog`): the
  bins and products, orders, rows or addresses that two open requests named at
  the same time;
- `outdated[s]`, `stale` (`Procurement`, `Packing`, `Shipping`): whether another
  request has committed since session `s` last read the tables it checks, and
  whether any request ever committed although it was outdated. A version column
  compared in the final update would keep `stale` false;
- `taken` (`BinStock`, `Fulfilment`): units that left the stock without leaving
  the bins, or otherwise than by picking what was reserved: manual OUT
  movements, units picked for an order whose reservation is not ACTIVE any more,
  and units that a second first movement overwrote;
- `unlocked` (`Fulfilment`): per product, the units promised by creations that
  had found no stock row to lock;
- `twice` (`Procurement`): a receipt that lists a product twice has committed;
- `moved` (`Structure`), `orphans` and `finished` (`Accounts`), `custom`,
  `strays` and `unsure` (`Catalog`), `behind` (`Notifications`): explained with
  their modules.

### `Movements`, `AtomicStock`, `StockLedger`

`AtomicStock` is the promise in the comments over `adjustStockTx`: every change
of a stock row comes with movements that explain it (each starts where the one
before ended, none ends below zero), in one step, and history is append-only.
`StockLedger` is the code: `LockRow` is the `SELECT ... FOR UPDATE` (which finds
no row to lock when the product is new to the warehouse), `WriteLine` the upsert
(or, for a pick, the relative decrement) together with the insert of the
movement, `Refuse` the "Insufficient stock." path. The four handlers differ in
which rows they lock before which line: a receipt line by line in product
order, a pick and an order all of them in product order first, an adjustment
its only one. The refinement mapping restricts `stock` and `ledger` to the rows
that exist at the start (`Existing`): only these can be locked from the first
movement on.

### `BinStock`

The rows `(bin, product)`. Each handler is a list of changes and a list of
validations (`ChecksOf`), each validation a read of committed data; `Write` is
the relative update. `PickUnit` validates under the lock it writes with, after
`LockStock` has locked the stock row of every product of the payload.
A posting by another handler to the warehouse total is one step
(`PostMovement`), which the refinement of `StockLedger` justifies. `audit` is
the net of what location movements and picking allocations record. A posting
may be a manual OUT of stock that lies in bins; `taken` counts those units.
`SetCapacity` is the capacity field of `updateBin`, which looks at no stock.

### `Fulfilment`

A sales order from its reservation to the last unit picked. A product may have
no stock row yet (`Absent`), as in `StockLedger`, and `createSalesOrder` locks
the row only "if record exists". `CheckLine` is the line of a product that has
one: the lock, then the comparison with what is available. The line of a product
that has none takes three steps: `FindNoRow`, the `FOR UPDATE` that locks nothing
(`bare[s]` keeps these products); `ReadStock`, the stock as
`getAvailableStockTx` reads it, which the first receipt may have written by
then; and `CheckReserved`, its later read of the reservations and the
comparison. `LockTask` and `LockStock` are the locks of `pickItems`; `PickItems`
applies all units of the payload, their picking allocations, the reservations
and the task's status at the commit. The other
handlers are a `Begin` with the check and one action with the write. A movement
on a row that exists is one step (`PostMovement`), because the row is locked
from its read to the commit; a product's first movement is two, `BeginFirst` and
`WriteFirst`, because it locks nothing until it writes.

### `Procurement`

One purchase order. `ReadOrder` is the second read of `receiveGoods`, inside
its transaction but without a lock; `ReceiveGoods` computes quantities and
status from it. `edition` counts how often `updatePurchaseOrder` has replaced
the items, so that a receipt that names deleted rows fails. `receipts` is what
the receipts really brought in, `received` what the items say.

### `Packing`, `Shipping`

The packing task of one order that is picked completely. `PackItem` locks an
item, reads it again and packs; `ReadItems` is the status computation over all
items, those of other sessions as committed; `AddPackageItems` commits. The
cancellation of the order is part of the module, because nothing but the
order's status keeps it apart from shipping. A request is sent by a manager or
by a staff user; `MayWork` is `assertStaffOwnership`, checked in the first read
of a handler, and `AssignPacker` may take the task away afterwards. `Shipping` extends `Packing` by
the shipment: its own actions, or a step of packing that leaves the shipment
alone.

### `Structure`

One parent function `up` over the rows of four levels, and the warehouse. A
request is its list of checks (`self`, `parent`, `children`, `code`, `path`),
each a plain read that is one action, and then one write by id. Which checks an
update makes depends on the row it read: a zone, aisle or shelf with something
under it is not moved, a bin is, with its stock. The unique index on
`(parent, code)` counts deleted rows too, the check before it does not.
`moved` collects the bins moved away from the warehouse of their stock row.

### `Accounts`

The row of each e-mail address. `createUser` is `SignUp` (better-auth inserts
the row with the defaults of its columns), `WriteAttributes`, `SendEmail`, and
on a failure `Cleanup`; `seedSuperAdmin` shares the first two, and its clean-up
removes whatever row has the address. The other operations are a read with its
checks and one write by the id that was read; a write to a row that is gone is
refused, even if the address was given away again meanwhile. `Abort` is a crash
or a failed clean-up; `orphans` collects the rows that this leaves behind, and
`finished` the users whose creation went through.

### `Catalog`

Products, and their groups: categories and brands. A slug is a sequence of
numeric suffixes, so that "Box 2" and the second "Box" compete for one slug.
`FindSlug` asks for one candidate at a time, `NextSlug` reacts to the unique
violation of the insert or update, at most `MAX_SLUG_RETRIES` times. An image
is uploaded before the handler starts and named by its request; `Write` leaves
the old image to be removed, `Fails` the upload, by the global error handler.
`WriteUnanswered` is a write that the database has carried out while the
handler gets an error. Histories: `custom` (rows whose slug a request gave),
`unsure` (rows written without an answer), `strays` (images left behind by a
crash, a failed removal, or an update that replaced another image than the one
it had read).

### `Notifications`

One user, one page. The server: the rows, `createNotification` (row, then event
to the sockets in the room now), the three operations. The page: the cached
list and count, with the fetches of both, the dropdown that mounts the list,
`handleNewNotification` and the `onSuccess` of the three mutations. React Query
is modelled from how it is used and marked external. `behind` records, per
query, that something changed on the server of which the page got no word while
no fetch was to come: an event lost or emitted while the socket was away, an
operation in another tab, a call whose answer was lost, a failed fetch; and
four cases that are the page's own doing, see section 3. The list that the
server answers is built from the k-th smallest id (`Nth`), and the cache drops a
row by renumbering the others (`Without`): plain definitions by sets and
functions, which a proof can open, where a recursive fold could not be.

## 3. What the runs check

Runs that pass, one per component:

| Run | Instance | Properties |
|---|---|---|
| `StockLedger` | two sessions, three rows (in stock, sold out, not existing yet), three requests of up to two lines, fairness | types, `StockNeverNegative`, `MovementsExplainStock`, `WaitsUpward`, `ImplementsAtomicStock`, `RequestsFinish` |
| `BinStock` | two sessions, two bins shared by two products, three requests, capacities up to two | types, `AuditExplainsBins`, `OnlyTransfersDeadlock`, `BalancesSound`, `CommitsKeepBins` |
| `Fulfilment` | two sessions, two orders of two products, one in stock and one without a stock row, all handlers, five requests | types, `PickedWithinOrdered`, `ReservationsSettled`, `PromisesCovered`, `TaskFollowsPicks` |
| `Procurement` | two sessions, two products, all handlers, a product listed twice allowed, six requests | types, `ReceiptsAddUp`, `LifeCycle` |
| `Packing` | two sessions, two packers and a manager, two items, two packages, six requests | types, `QuantitiesAgree`, `StatusTellsProgress`, `WaitsUpward`, `ClosedStaysClosed` |
| `Shipping` | two sessions, packing, cancelling and shipping, ten requests | types, `ShippedComplete`, `OrderFollowsShipment`, `ShipmentLifeCycle` |
| `Structure` | two sessions, two warehouses with a path of shelves each, two bins, a row of each level to be created, four requests | types, `TreeSound`, `WritesSound` |
| `Accounts` | two sessions, the seed's address and another, two warehouses, four requests | types, `RowsAccountedFor`, `RowsChangeByRule` |
| `Catalog` | two clients, three products, a category, a brand, two colliding names, two retries, three requests | types, `CatalogSound`, `RowsChangeByRule` |
| `Notifications` | two notifications, one click, one mishap, fairness | types, `ScreenCurrent`, `BadgeCatchesUp` |

The pattern is the result. Where the code locks before it checks (stock rows
that exist, picking tasks, packing items), the property holds under full
concurrency and is stated so. A lock on a row that does not exist yet is none:
the run `StockLedgerFirstMovement` and the term `unlocked` of `PromisesCovered`
show what comes of it. Where it checks without a lock, the property carries a
premise under which it does hold under concurrency, and the premise names the cause. Several
properties are conjunctions of named parts; this table names the part.

| Property | Holds | Without the premise |
|---|---|---|
| `OnlyTransfersDeadlock` | among requests that are not transfers | two opposite transfers wait for each other; PostgreSQL aborts one |
| `BinsNonNegative` (`BalancesSound`) | for a bin row that no two open requests named | two deallocations both see the last unit; the decrements leave -1 |
| `AllocatedWithinTotal` (`BalancesSound`) | for a product that no two open requests named, up to manual OUT movements | two allocations both see the same unallocated stock and the bins hold more than the warehouse, after which the summary of the product throws "Inventory allocation exceeds total warehouse stock."; one manual OUT of allocated stock has the same effect |
| `FillsWithinCapacity` (`CommitsKeepBins`) | for a bin that no two open requests named | two allocations or transfers both see room for the last unit; the capacity is lowered between check and increment |
| `PromisesCovered` | always, up to the units in `taken` and in `unlocked` | an order of a product without a stock row locks nothing, the first receipt commits before it reads the stock, a second order locks the new row, and both reserve the one unit, against "to prevent double allocation" of the README; a manual OUT takes reserved stock; `FulfilmentCancelledPick` |
| `TaskFollowsPicks` | for an order that no two open requests worked on | assigning or starting overwrites PICKED, and the order cannot be packed |
| `ReceivedMatchesReceipts` (`ReceiptsAddUp`) | unless a commit was stale or a receipt listed a product twice | two receipts of the full quantity both pass; a receipt that lists a product twice brings in more than was ordered, with no concurrency, against "Received quantity cannot exceed ordered quantity." of the API documentation |
| `StatusFollowsReceipts` (`ReceiptsAddUp`) | unless a commit was stale | two receipts of different products complete an order that stays PARTIALLY_RECEIVED for good |
| `LifeCycle` | unless a commit was stale | a cancelled order is approved, its items are replaced after the approval, or goods come in for it |
| `CompleteMeansPacked` (`StatusTellsProgress`) | unless a commit was stale | two packers of different items each compute PARTIALLY_PACKED; together they complete the task, which can never become PACKED, and the order can never be shipped |
| `ClosedStaysClosed` | unless a commit was stale | starting or packing overwrites PACKED or CANCELLED; a closed package grows; a packer writes to a task given to another |
| `OrderFollowsShipment` | unless a commit was stale | an order is both cancelled and shipped |
| `ShipmentLifeCycle` | unless a commit was stale | SHIPPED and CANCELLED both follow READY; an address is changed on the way |
| `LiveUnderLive` (`TreeSound`) | for a parent that no two open requests named | an aisle is created while its zone is deleted |
| `RowsNameTheirWarehouse` (`TreeSound`) | for bins that were not moved to another warehouse with their stock, and no two open requests on their path | one move of a bin suffices; its stock still counts for the old warehouse and no path validation accepts it for that |
| `DeletedFrozen`, `AllocatedUnderActive` (`WritesSound`) | for rows that no two open requests named | a deleted row is moved or given a status; stock is allocated into a shelf switched off after the check |
| `RowsAccountedFor` | up to rows left by a crash or a failed clean-up | such a row takes up its e-mail address: "User with this email already exists." |
| `EditsSound` (`RowsChangeByRule` of `Accounts`) | for users that no two open requests named | unblocking revives the status of a user deleted meanwhile; a second assignment replaces the first |
| `CreationsSound` (`RowsChangeByRule` of `Accounts`) | except for the address of the seed | a seed that fails removes a finished user with that address |
| `SlugsFollowNames` (`CatalogSound`) | for rows that no two open requests named and without a slug of their own | two updates of one row: the first name's slug stays with the second's name |
| `ImagesInUseExist` (`CatalogSound`) | unless the database carried out a write it could not answer | the upload is removed as that of a failed request and the row shows it |
| `PlacementSound` (`RowsChangeByRule` of `Catalog`) | for rows and groups that no two open requests named | a product is put into a brand deleted meanwhile |
| `ScreenCurrent`, `BadgeCatchesUp` | for a query that is not `behind` | see below |

What `behind` excepts of the page's own doing: `handleNewNotification` refreshes
the count only when the notification went into a cached list, so that an event
is ignored by the badge when no list is in the cache (the dropdown has not been
open lately), and when the list was fetched between the insert and the event
and has the notification already; the invalidation of a query does not restart
its first fetch, whose answer may be older than the change; and an event about a
notification that the cached list has already sets the list to itself, which
React Query takes for an update: a list that was marked to be fetched when the
dropdown opens is current again, whatever the mark was set for, and reopening
within the `staleTime` shows it as it is. (A deleted notification whose event
comes late is put into the closed list in this way, and the next duplicate event
keeps it there.) A socket that reconnects fetches nothing. The backend's README promises that the client
"updates notification badge & toast in real time".

A run of the same instance with the premise removed ends in the counterexample
named. Two of them are kept as runs; each checks one property that the
documentation or a comment states, and is expected to fail:

| Run | What happens |
|---|---|
| `StockLedgerFirstMovement` | two first movements of a product both start from 0; the second upsert overwrites the first quantity, both movements stay |
| `FulfilmentCancelledPick` | the picking task of a cancelled order is still picked and takes units reserved for another |

### Bounds, and why they are enough

Two sessions are enough for every race between a check and a write: each
involves the session that checks and one that interferes. Three requests let a
third one start after the first has committed; the longer life cycles get as
many requests as their states need (five to ten). Two rows, products or items
are the smallest number on which lock order and write skew exist; two lines or
units let a payload name a row twice, or two rows in either order. Quantities
of one and two reach zero, exact fit and one too many. One order suffices where
the handlers of different orders share nothing but stock rows; `Fulfilment`,
where they compete for stock, has two. Three or four requests suffice for the
administration: one that prepares, two that race, and in `Structure` and
`Accounts` a third that uses what they left. Two retries reach the limit of the
slug loop with three products of one name. Two notifications let one arrive
while the other is read or deleted; one mishap and one click let every answer
be overtaken. Sessions are interchangeable in `Packing`, `Structure`,
`Accounts` and `Catalog`, which use symmetry and have no liveness property;
`Accounts` also permutes warehouses and `Catalog` the products yet to be
created. The passing runs reach between 230 000 and 830 000 distinct states.

### Fairness

`StockLedger` (`FairSpec`) assumes weak fairness of `Statement(s)`, the next
statement of an open transaction. The database executes a statement when the
lock it needs is free, and the handlers contain no waiting of their own. A lock
can become free and be taken again, so weak fairness promises nothing to a
single attempt; the run ends because the requests are finite and their lock
order leaves no circle. `Rollback` is never assumed: `RequestsFinish` holds
without the timeout.

`Notifications` assumes weak fairness of what is already under way: an event on
the wire is received, the server answers a fetch or a call and the answer
arrives or the attempt fails. Nobody has to click, to open the dropdown, to
focus the window or to reconnect, and no notification has to be created. The
other modules state safety only.

## 4. What is proved

Every safety property that a passing run checks is a theorem, invariants, action
properties and the refinement alike, for every set of sessions, rows and
payloads and every bound: the runs check an instance, the theorems all of them.
For each component the proofs define an inductive invariant that contains the
properties, and show that the initial states have it and, with one lemma per
action or group of like actions, that every step keeps it; TLC checked each
invariant on the component's run before it was proved.

| Module | Theorem | States |
|---|---|---|
| `ProductProofs` | `LedgerInvariant` | `Spec => []LedgerInv` |
| | `TypeCorrect` | `TypeOK` |
| | `NonNegativeStock` | `StockNeverNegative` |
| | `MovementsAccount` | `MovementsExplainStock` |
| | `OrderedWaiting` | `WaitsUpward` |
| | `TransactionsAreAtomic` | `ImplementsAtomicStock` (on the rows that exist at the start) |
| | `CatalogInvariant` | `CatalogSpec => []CatalogInv` |
| | `CatalogTypeCorrect` | `CatalogTypeOK` |
| | `CatalogIsSound` | `CatalogSound` |
| | `CatalogRowsChangeByRule` | `RowsChangeByRule` |
| `BinStockProofs` | `BinStockInvariant` | `Spec => []BinStockInv` |
| | `BinStockTypeCorrect` | `TypeOK` |
| | `BinsExplained` | `AuditExplainsBins` |
| | `BalancesHold` | `BalancesSound` |
| | `DeadlockNeedsTransfer` | `OnlyTransfersDeadlock` |
| | `CommitsRespectBins` | `CommitsKeepBins` |
| `FulfilmentProofs` | `FulfilmentInvariant` | `Spec => []FulfilmentInv` |
| | `FulfilmentTypeCorrect` | `TypeOK` |
| | `NeverOverPicked` | `PickedWithinOrdered` |
| | `EveryReservationSettled` | `ReservationsSettled` |
| | `NoUnitSoldTwice` | `PromisesCovered` |
| | `TaskStatusSound` | `TaskFollowsPicks` |
| `ProcurementProofs` | `ProcurementInvariant` | `Spec => []ProcurementInv` |
| | `ProcurementTypeCorrect` | `TypeOK` |
| | `ReceivingSound` | `ReceiptsAddUp` |
| | `LifeCycleKept` | `LifeCycle` |
| `PackingProofs` | `PackingInvariant` | `Spec => []PackingInv` |
| | `PackingTypeCorrect` | `TypeOK` |
| | `PackingQuantitiesAgree` | `QuantitiesAgree` |
| | `StatusSound` | `StatusTellsProgress` |
| | `LocksTakenUpward` | `WaitsUpward` |
| | `ClosedIsSettled` | `ClosedStaysClosed` |
| | `ShippingInvariant` | `ShippingSpec => []ShippingInv` |
| | `ShippingTypeCorrect` | `ShippingTypeOK` |
| | `NothingLeavesIncomplete` | `ShippedComplete` |
| | `OrderTellsShipment` | `OrderFollowsShipment` |
| | `ShipmentsMoveOn` | `ShipmentLifeCycle` |
| `UserProofs` | `AccountsInvariant` | `Spec => []AccountsInv` |
| | `AccountsTypeCorrect` | `TypeOK` |
| | `NoStrayRows` | `RowsAccountedFor` |
| | `RowsFollowRules` | `RowsChangeByRule` |
| | `NotificationsInvariant` | `NotificationsSpec => []NotificationsInv` |
| | `NotificationsTypeCorrect` | `NotificationsTypeOK` |
| | `ScreenShowsTable` | `ScreenCurrent` |
| `StructureProofs` | `StructureInvariant` | `Spec => []StructureInv` |
| | `StructureTypeCorrect` | `TypeOK` |
| | `TreeStaysSound` | `TreeSound` |
| | `WritesStaySound` | `WritesSound` |

The premises of the properties (section 3) are premises of the theorems: they
are part of the definitions, not of the proofs. A theorem such as `StatusSound`
therefore says that the race named by its premise is the *only* way the code
gets there.

### Assumptions

The named `ASSUME` of each module, which TLC evaluates on its run:

- products, items and rows that are locked in order are numbers, in the order of
  the `localeCompare` the code sorts by;
- sets that quantities are summed over (products, orders, items, packages, bins)
  are finite, as the rows of a table are; sessions need not be;
- `Packing`: there is an item, each required at least once:
  `createPackingTask` refuses "no picking items", and the task is made of
  picked quantities;
- `BinStock`: at the start the bins of a product hold no more than its total,
  as every allocation keeps it;
- `Structure`: an id belongs to one table and is no status; at the start a row
  that exists hangs on a row of the level above that exists, as creation with a
  foreign key leaves it;
- `Catalog`: an item belongs to one table; at most one row of each table is there
  at the start, so that the names and slugs it starts with cannot collide; the
  loop over slugs runs at least once;
- `Notifications`: there is a notification to come and the list asks for at
  least one;
- `StockLedger`, `Fulfilment`: opening quantities are natural numbers or
  `Absent`;
- the names for "none" (`NoSession`, `NoOrder`, `Nobody`, ...) are not among
  the things they are none of.

Rows that requests create are covered by `NonNegativeStock` and `TypeCorrect`;
`MovementsAccount` speaks of rows that exist at the start, and has to:
`StockLedgerFirstMovement` shows it false of the others.

### The arguments

No property is inductive by itself: it says nothing about what the open requests
are going to write. What the invariants add is what a request knows.

*`LedgerInv`.* `SessionInv`: what the payload of a running handler may still
contain, and that an idle session has no working data. `WriteInv`: a row is
written only under its lock, what a session wrote is not negative, and the
quantity it works with is, for every row it has locked, the row as it would read
it now: this is what `FOR UPDATE` is needed for, and what the plain read of the
mutant destroys. `LockedInv`: an existing row is locked, or still to be locked,
by the session whose next line writes it. `HistoryInv`: the movements drafted
lead from the committed quantity to the session's own. `OrderInv`: the rows a
session has still to lock are not below those it holds, and the lines still to
write come in lock order. For the refinement a commit is a step of
`AtomicStock`, everything else a stutter.

*`BinStockInv`.* `ShapeInv`: what each handler's list of changes looks like, and
which validations can be left of it. `LockInv`: the bin rows held are those
written, the stock rows a pick holds are those of its payload below the ones it
still wants. `OwnInv`: what a session has written is the committed quantity and
the net of its own changes, and a pick keeps rows and totals at zero or above.
`NamedInv`: what two open requests both name is in `crossed`. `ValidInv`: what a
request validated still holds unless its bin or product is crossed. From it:

- nobody else can have written a locked row, so a commit adds exactly the net of
  its changes to both bins and audit (`AuditExplainsBins`);
- the sum over the bins of a product changes by the net of a commit over that
  product, which is zero for a transfer, covered by the total for a pick, and
  validated for an allocation (`BalancesSound`; `CommitSums`);
- no circle of requests other than transfers: one whose validations are not
  done, or a single-row request that has written its row, waits for nobody; a
  pick past its stock locks waits only for these, because two picks cannot both
  hold the stock row of one product; of the picks that are still locking, the
  one that wants the highest product waits only for the ones before
  (`NoCircle`). `OnlyTransfersDeadlock` is stated as: of any set of such
  requests, one waits for none of the others.

*`FulfilmentInv`.* `OrderInv`: the rows of an order at each stage; the task asks
for every unit that is still reserved. `WorkInv`: a picker that has locked the
task knows what is picked; the others know what they read unless their order is
crossed. `CreateTaskInv`: between the read of `createPickingTask` and its write
reservations may be released, none becomes ACTIVE. `StockLockInv`: a stock row
that was there to lock is held from the check of its line to the commit, and
what a creation has found available still is, up to what other creations have
promised of the product without the lock (`unlocked`). `RowInv`: nothing is ordered, picked or
found available of a product that has no row, so that what a pick locks exists.
`PromisesCovered` follows because only a commit of a creation adds promises,
and it holds the rows it promises from, or counts its units in `unlocked`.
The other properties hold whether or not a creation found a row to lock.

*`ProcurementInv`.* `CreationInv`, and `ReadInv`: as long as the items have not
been replaced, what is ordered is what `receiveGoods` read, and every line of
the receipt fits into what it read; `FreshInv`: a request that no commit has
outdated finds everything as it checked it.

*`PackingInv`, `ShippingInv`.* `LockInv`: a packer writes only items it has
locked, and has written the committed quantity and what it adds, within what is
required. `OrderInv`: the lines still to pack are above every item locked.
`SessionInv`, `CreationInv`: how far a request can be. `FreshInv`: a request
that is not outdated still has what it checked, and its verdict is the status
of the task as it will be. Shipping adds `FoundInv`, what a request has found
and no commit can undo (packing is complete; there is a shipment), which is why
`ShippedComplete` needs no premise, and `ShipmentFreshInv`. `LeavesShipments`
sums up the packing steps, so that their proofs are not repeated.

*`AccountsInv`.* `RequestsInv`: how far a request is. `IdsInv`: a user belongs
to one creation only and is not finished while that is under way. `NamedInv`:
two requests about one address are remembered. `RowsInv`: the row of a request
about a user no other request is about is as it left it.

*`StructureInv`.* `RequestsInv`: which of its checks each handler can still have
to make. `ExistInv`: rows that exist hang on rows that exist, warehouses are
always there, and only existing bins hold stock. `NamedInv`: a row that two open
requests both name is in `crossed`; and the path of an open allocation changes
only above a crossed row: of every row of the path that another request names,
that row or one below it is crossed. `FoundInv`: what a request has found in its
row, in the parent, below its row and along its path still holds unless that is
crossed. `OthersKeep` says once for all handlers that a write touches only the
row the request names, so that the proofs go by what a request knows and not by
pairs of handlers. A bin in use below a row
without children has a crossed row on its way up (`NoLiveBinBelow`), which is
why moving a zone, aisle or shelf after the check for children keeps every
stock row in the warehouse it names; a bin itself may be moved with its stock,
and `moved` excepts it.

*`CatalogInv`.* `CatRequestsInv`: what each request is for and how far it can be.
`CatRowsInv`: a row that does not exist is empty, and is being made by one
request at most. `CatNamedInv`: an item that two open requests name is in
`crossed`. `CatFoundInv`: a request that has not written yet still finds its row
as it read it, and every group it has checked active, unless they are crossed;
with the invariant that slugs follow names this gives the slug that `Write`
leaves, and `PlacementSound` for the write itself. `CatImagesInv`: an image
belongs to one row; the upload of a request that has not written is in the store
and nobody else's; an image about to be removed is shown by no row. This last
part is where `unsure` comes in: after a write that went through unanswered the
handler removes an upload that its row shows. `CatHeldInv`: every image in the
store is shown, or some request still answers for it, or it is one of the
`strays`; it is the only part that speaks of all files, and what makes "nothing
is merely forgotten" inductive.

*`NotificationsInv`.* `PageTypes`: no notification is twice in the cached list or
in an answer on its way, and each of them has a row. `CountInv` and `ListInv`:
what is cached, and what an answer on its way will put there, agrees with the
table, unless an event is on the wire, a click has been answered and its
`onSuccess` has not run, or the query is `behind`. For the list the events are
not enough of an exception: an event about a notification that a fetch has
brought already changes nothing when it arrives, so that the list has to be
right before (`KnownIn`). `OpenInv`: an open dropdown has a list that is not
marked for a fetch, or its fetch is under way, or the list is `behind`; without
it nothing relates
`ScreenCurrent`, which speaks of an open dropdown, to `ListInv`, which speaks of
a cached list. The server's steps are one lemma (`ServerMoves`): a change of the
table sets `behind` unless an event or an answer follows. So are the
invalidations (`InvalidateKeeps`). The list itself rests on `NthRank`: the k-th
smallest element of a finite set of numbers exists and is unique, because the
rank is an injection of the set into as many numbers.

*`SumTheorems`* has what all proofs about quantities need of
`SumFunctionOnSet`: type, one step, removal, update of one entry, monotony,
addition, and that the sum of row sums is the sum of column sums. The community
module folds over a set in an order it chooses; that the order does not matter
(`SumUnique`, `SumStep`) is an induction over finite sets, and is done in first
order, by the smallest set for which it would fail (`MinimalSubset`), because
the induction theorems of the library take an operator as their parameter.

### What is only model-checked

`RequestsFinish` (`StockLedger`) and `BadgeCatchesUp` (`Notifications`): liveness
under fairness is outside what the prover handles. Their runs carry them, on the
instances of section 3. The absence of deadlocks that TLC checks on every run is
an instance of `ENABLED` and stays with TLC as well; what the theorems say
of waiting (`OrderedWaiting`, `LocksTakenUpward`, `DeadlockNeedsTransfer`) they
say of locks.

The two runs that are expected to fail are counterexamples and have no
theorem.

## 5. What is left out, and why

- Numbers are integers. The code mixes Prisma `Decimal` and JavaScript numbers;
  rounding is not modelled.
- Prices, addresses, document numbers, texts and, except in `Packing`, who
  performs an operation. The
  numbers are the latest one plus one: two creations can collide on the unique
  index, which is one of the reasons for a `Rollback`.
- Role and warehouse checks in front of the handlers are stateless and only
  forbid requests; leaving them out admits more behaviours. The same holds for
  the ownership of picking tasks by staff users, and for "You cannot block your
  own account.".
- `BinStock` takes the path of its bins to be active and unchanged; `Structure`
  has the path and no quantities.
- `createWarehouse` and `updateWarehouse` write one row that is never deleted.
  `UserService.assignWarehouse` is a stub that writes nothing.
- Suppliers are single rows checked and written like the rest of the master
  data, with no slug, group or image. Taking a product out of its brand, and
  the SKU and name checks, which only refuse a request earlier, are left out.
- Paging, signing out and the toast of the notification page.
- Deadlocks that the code does not prevent (opposite bin transfers, a pick
  against a transfer) end with PostgreSQL aborting a transaction; the models
  contain the abort as `Rollback`.
- Authentication is the better-auth library's, with a session cache that lets a
  blocked user act for a while; no property is stated about who may act.
- The other pages of the web client call the API and show the answer.

## 6. Plan

Done, in this order: `StockLedger` with `AtomicStock` and its proofs,
`BinStock`, `Fulfilment`, `Procurement`, `Packing`, `Shipping`, `Structure`,
`Accounts`, `Catalog`, `Notifications`; ownership and assignment in `Packing`,
capacities in `BinStock`; the proofs about `Packing`, `Shipping`, `Fulfilment`,
`Procurement`, `Accounts`, `BinStock`, `Structure`, `Catalog` and
`Notifications`. No safety property is left to prove.

To do, extending the model:

1. An abstract specification of an order's way (reserved, picked, packed,
   shipped) and the composition of `Fulfilment`, `Packing` and `Shipping` that
   implements it, with the cancellation at every stage.
2. Several purchase orders on one stock row: `Procurement` composed with
   `StockLedger`.
