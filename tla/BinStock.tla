------------------------------ MODULE BinStock ------------------------------
(***************************************************************************)
(* Where the stock of a warehouse lies: inventory_location_stocks, one row *)
(* per (bin, product), next to the warehouse total in inventory_stocks.    *)
(*   allocate    InventoryLocationService.allocateStock                    *)
(*   deallocate  InventoryLocationService.deallocateStock                  *)
(*   transfer    InventoryLocationService.transferStock                    *)
(*   pick        PickingService.pickItems, the part that touches stock     *)
(* The first three check with plain reads and write with a relative        *)
(* update: a check sees what is committed, the update waits for the row    *)
(* lock and applies to whatever the row then holds.  pickItems locks the   *)
(* stock row of every product and each bin row before it checks.           *)
(*   BinService.updateBin sets a bin's capacity without looking at what    *)
(* lies in it.                                                             *)
(* Every (bin, product) row exists: it has held stock before.  Warehouse,  *)
(* product and bin hierarchy are active.  A change of the warehouse total  *)
(* by another handler is one step (StockLedger shows it is atomic).        *)
(***************************************************************************)
EXTENDS Integers, Sequences, FiniteSetsExt

CONSTANTS
    Sessions,      \* requests that can run at the same time
    Bins,          \* the bins of one warehouse
    Products,      \* products, numbered in localeCompare order
    OpeningCapacity, \* Bin.capacity at the start
    OpeningStock,  \* warehouse total of each product at the start
    OpeningBins,   \* quantity of each (bin, product) at the start
    MaxQty,        \* bound: quantity of one change
    MaxUnits,      \* bound: units of one pick
    MaxCapacity,   \* bound: capacity a bin is given
    MaxRequests,   \* bound: requests of one behaviour
    NoSession      \* nobody holds the row lock

Rows == Bins \X Products

(* allocateStock keeps what the bins hold of a product within its total. *)
ASSUME BinStockAssumption ==
    /\ Products \subseteq Nat /\ IsFiniteSet(Products) /\ IsFiniteSet(Bins)
    /\ OpeningCapacity \in [Bins -> Nat]
    /\ OpeningStock \in [Products -> Nat]
    /\ OpeningBins \in [Rows -> Nat]
    /\ \A p \in Products :
         SumFunctionOnSet([b \in Bins |-> OpeningBins[<<b, p>>]], Bins) <= OpeningStock[p]
    /\ MaxQty \in Nat /\ MaxUnits \in Nat /\ MaxCapacity \in Nat /\ MaxRequests \in Nat
    /\ NoSession \notin Sessions

VARIABLES
    stock,        \* committed inventory_stocks.quantity of each product
    loc,          \* committed inventory_location_stocks.quantity of each row
    capacity,     \* committed Bin.capacity
    audit,        \* net of the committed location movements and allocations
    stockHolder,  \* the session that holds the lock on a product's stock row
    holder,       \* the session that holds the lock on a bin row
    kind,         \* which handler a session runs, "none" between requests
    changes,      \* the changes of the payload, in the order they are written
    done,         \* how many of them are written
    checks,       \* the validations a session has still to make
    total,        \* totalStock of allocateStock
    room,         \* capacity of the destination bin, as read when it was validated
    wanted,       \* products whose stock row a pick has still to lock
    own,          \* a session's view of the bin rows it has locked
    served,       \* requests begun so far
    taken,        \* history: units that manual OUT movements took from each product
    crossed       \* history: bins and products that two open requests named at once

tables == <<stock, loc, capacity, audit>>
locks == <<stockHolder, holder>>
request == <<kind, changes, done, checks, total, room, wanted, own>>
history == <<taken, crossed>>
vars == <<tables, locks, request, served, history>>

Kind == {"none", "allocate", "deallocate", "transfer", "pick"}
Check == {"total", "unallocated", "source", "capacity"}
Change == [row: Rows, by: Int]

-----------------------------------------------------------------------------
(* Requests *)

(* The validations of each handler against the tables, in code order. *)
ChecksOf(handler) ==
    CASE handler = "allocate"   -> <<"total", "unallocated", "capacity">>
      [] handler = "deallocate" -> <<"source">>
      [] handler = "transfer"   -> <<"source", "capacity">>
      [] handler = "pick"       -> <<>>

(* The bins and products that a payload names. *)
Named(cs) == UNION {{cs[i].row[1], cs[i].row[2]} : i \in 1..Len(cs)}
NamedByOpen == UNION {Named(changes[s]) : s \in Sessions}

(* The destination bin is the last one a payload names. *)
Begin(s, handler, cs, ps) ==
    /\ kind[s] = "none"
    /\ served < MaxRequests
    /\ served' = served + 1
    /\ kind' = [kind EXCEPT ![s] = handler]
    /\ changes' = [changes EXCEPT ![s] = cs]
    /\ checks' = [checks EXCEPT ![s] = ChecksOf(handler)]
    /\ wanted' = [wanted EXCEPT ![s] = ps]
    /\ room' = [room EXCEPT ![s] = capacity[cs[Len(cs)].row[1]]]
    /\ crossed' = crossed \union (Named(cs) \intersect NamedByOpen)
    /\ UNCHANGED <<tables, locks, done, total, own, taken>>

BeginAllocate(s) ==
    \E r \in Rows, q \in 1..MaxQty :
        Begin(s, "allocate", <<[row |-> r, by |-> q]>>, {})

BeginDeallocate(s) ==
    \E r \in Rows, q \in 1..MaxQty :
        Begin(s, "deallocate", <<[row |-> r, by |-> -q]>>, {})

(* Source and destination must be different bins. *)
BeginTransfer(s) ==
    \E p \in Products, from, to \in Bins, q \in 1..MaxQty :
        /\ from # to
        /\ Begin(s, "transfer", <<[row |-> <<from, p>>, by |-> -q],
                                  [row |-> <<to, p>>, by |-> q]>>, {})

(* StockRowsOf without the locks taken ahead of the units. *)
StockRowsOf_None(units) == {}

(* StockRowsOf with the unit's bin where its product is meant. *)
StockRowsOf_Bin(units) == {units[i].row[1] : i \in 1..Len(units)}

(* distinctProductIds: the stock rows a pick locks before its first unit. *)
StockRowsOf(units) == {units[i].row[2] : i \in 1..Len(units)}

(* Units that name a bin row of the product their task item is about: a    *)
(* unit that does not is refused when its row is read.                     *)
BeginPick(s) ==
    \E n \in 1..MaxUnits : \E units \in [1..n -> [row: Rows, by: {-q : q \in 1..MaxQty}]] :
        Begin(s, "pick", units, StockRowsOf(units))

-----------------------------------------------------------------------------
(* Validations: plain reads of what is committed *)

Bin(c) == c.row[1]
Product(c) == c.row[2]
First(s) == changes[s][1]
Last(s) == changes[s][Len(changes[s])]

Used(b) == SumFunctionOnSet([p \in Products |-> loc[<<b, p>>]], Products)
Allocated(p) == SumFunctionOnSet([b \in Bins |-> loc[<<b, p>>]], Bins)

ReadTotal(s) ==
    /\ checks[s] # <<>> /\ Head(checks[s]) = "total"
    /\ total' = [total EXCEPT ![s] = stock[Product(First(s))]]
    /\ checks' = [checks EXCEPT ![s] = Tail(@)]
    /\ UNCHANGED <<tables, locks, kind, changes, done, room, wanted, own, served, history>>

(* The check named is next and its condition holds; when it does not, the  *)
(* handler throws, which is a Rollback.                                    *)
Validate(s, check, condition) ==
    /\ checks[s] # <<>> /\ Head(checks[s]) = check
    /\ condition
    /\ checks' = [checks EXCEPT ![s] = Tail(@)]
    /\ UNCHANGED <<tables, locks, kind, changes, done, total, room, wanted, own, served, history>>

(* CheckUnallocated against the warehouse total. *)
CheckUnallocated_Total(s) ==
    Validate(s, "unallocated", First(s).by <= total[s])

CheckUnallocated(s) ==
    Validate(s, "unallocated",
             First(s).by <= total[s] - Allocated(Product(First(s))))

(* CheckSource against what all bins hold of the product. *)
CheckSource_AnyBin(s) ==
    Validate(s, "source", Allocated(Product(First(s))) >= -First(s).by)

CheckSource(s) ==
    Validate(s, "source", loc[First(s).row] >= -First(s).by)

(* CheckCapacity that leaves the new quantity out. *)
CheckCapacity_Before(s) ==
    Validate(s, "capacity", Used(Bin(Last(s))) <= room[s])

CheckCapacity(s) ==
    Validate(s, "capacity", Used(Bin(Last(s))) + Last(s).by <= room[s])

-----------------------------------------------------------------------------
(* Locks and writes *)

NextStockLock(s, p) == p \in wanted[s] /\ \A o \in wanted[s] : p <= o

LockStock(s) ==
    \E p \in Products :
        /\ NextStockLock(s, p)
        /\ stockHolder[p] = NoSession
        /\ stockHolder' = [stockHolder EXCEPT ![p] = s]
        /\ wanted' = [wanted EXCEPT ![s] = @ \ {p}]
        /\ UNCHANGED <<tables, holder, kind, changes, done, checks, total, room, own, served, history>>

(* A bin row as session s reads it: its own write, or the committed one. *)
RowFor(s, r) == IF holder[r] = s THEN own[s][r] ELSE loc[r]

Writing(s) ==
    kind[s] # "none" /\ checks[s] = <<>> /\ wanted[s] = {} /\ done[s] < Len(changes[s])

NextChange(s) == changes[s][done[s] + 1]

(* The effect of a session's first n changes on row r, and on product p. *)
Net(s, r, n) ==
    SumFunctionOnSet([i \in 1..n |-> IF changes[s][i].row = r THEN changes[s][i].by ELSE 0], 1..n)
NetOfProduct(s, p, n) ==
    SumFunctionOnSet([i \in 1..n |-> IF Product(changes[s][i]) = p THEN changes[s][i].by ELSE 0],
                     1..n)

(* Free for a write that does not wait: read, compute, write back. *)
Free_NoWait(s, r) == TRUE

Free(s, r) == holder[r] \in {NoSession, s}

(* quantity: { increment } / { decrement }: the row is locked, then changed *)
(* relative to what it holds.                                              *)
Write(s) ==
    LET c == NextChange(s)
    IN  /\ Free(s, c.row)
        /\ holder' = [holder EXCEPT ![c.row] = s]
        /\ own' = [own EXCEPT ![s][c.row] = RowFor(s, c.row) + c.by]
        /\ done' = [done EXCEPT ![s] = @ + 1]
        /\ UNCHANGED <<tables, stockHolder, kind, changes, checks, total, room, wanted, served, history>>

WriteChange(s) == Writing(s) /\ kind[s] # "pick" /\ Write(s)

(* BinCovers on the row as it was before the payload. *)
BinCovers_Unlocked(s, c) == loc[c.row] >= -c.by

(* Rule 5 of pickItems, read under the bin row's lock. *)
BinCovers(s, c) == RowFor(s, c.row) >= -c.by

(* StockCovers on the row as it was before the payload. *)
StockCovers_EachUnit(s, c) == stock[Product(c)] + c.by >= 0

(* stockTracker never falls below zero. *)
StockCovers(s, c) == stock[Product(c)] + NetOfProduct(s, Product(c), done[s] + 1) >= 0

PickUnit(s) ==
    /\ Writing(s)
    /\ kind[s] = "pick"
    /\ BinCovers(s, NextChange(s))
    /\ StockCovers(s, NextChange(s))
    /\ Write(s)

(* The transaction is over: its locks and its working data are gone. *)
End(s) ==
    /\ stockHolder' = [p \in Products |-> IF stockHolder[p] = s THEN NoSession ELSE stockHolder[p]]
    /\ holder' = [r \in Rows |-> IF holder[r] = s THEN NoSession ELSE holder[r]]
    /\ kind' = [kind EXCEPT ![s] = "none"]
    /\ changes' = [changes EXCEPT ![s] = <<>>]
    /\ done' = [done EXCEPT ![s] = 0]
    /\ checks' = [checks EXCEPT ![s] = <<>>]
    /\ total' = [total EXCEPT ![s] = 0]
    /\ room' = [room EXCEPT ![s] = 0]
    /\ wanted' = [wanted EXCEPT ![s] = {}]
    /\ own' = [own EXCEPT ![s] = [r \in Rows |-> 0]]
    /\ UNCHANGED <<served, history>>

(* The rows come into force together with the movement (or, for a pick,    *)
(* the picking allocations) that names them; a pick also takes its units   *)
(* out of the warehouse total.                                             *)
Commit(s) ==
    /\ kind[s] # "none" /\ checks[s] = <<>> /\ wanted[s] = {} /\ done[s] = Len(changes[s])
    /\ loc' = [r \in Rows |-> RowFor(s, r)]
    /\ audit' = [r \in Rows |-> audit[r] + Net(s, r, done[s])]
    /\ stock' = [p \in Products |->
                   IF kind[s] = "pick" THEN stock[p] + NetOfProduct(s, p, done[s]) ELSE stock[p]]
    /\ End(s)
    /\ UNCHANGED capacity

(* A validation throws, the transaction times out, or the database breaks  *)
(* a deadlock at its expense.                                              *)
Rollback(s) ==
    /\ kind[s] # "none"
    /\ End(s)
    /\ UNCHANGED tables

(* A receipt, or a manual movement: adjustStockTx on the product's row.    *)
PostMovement ==
    \E p \in Products, q \in -MaxQty..MaxQty :
        /\ q # 0
        /\ served < MaxRequests
        /\ served' = served + 1
        /\ stockHolder[p] = NoSession
        /\ stock[p] + q >= 0
        /\ stock' = [stock EXCEPT ![p] = @ + q]
        /\ taken' = [taken EXCEPT ![p] = IF q < 0 THEN @ - q ELSE @]
        /\ UNCHANGED <<loc, capacity, audit, locks, request, crossed>>

(* Any capacity from 0 on is accepted, also one below what the bin holds.  *)
SetCapacity ==
    \E b \in Bins, c \in 0..MaxCapacity :
        /\ served < MaxRequests
        /\ served' = served + 1
        /\ c # capacity[b]
        /\ capacity' = [capacity EXCEPT ![b] = c]
        /\ crossed' = crossed \union ({b} \intersect NamedByOpen)
        /\ UNCHANGED <<stock, loc, audit, locks, request, taken>>

-----------------------------------------------------------------------------
Init ==
    /\ stock = OpeningStock
    /\ loc = OpeningBins
    /\ capacity = OpeningCapacity
    /\ audit = [r \in Rows |-> 0]
    /\ stockHolder = [p \in Products |-> NoSession]
    /\ holder = [r \in Rows |-> NoSession]
    /\ kind = [s \in Sessions |-> "none"]
    /\ changes = [s \in Sessions |-> <<>>]
    /\ done = [s \in Sessions |-> 0]
    /\ checks = [s \in Sessions |-> <<>>]
    /\ total = [s \in Sessions |-> 0]
    /\ room = [s \in Sessions |-> 0]
    /\ wanted = [s \in Sessions |-> {}]
    /\ own = [s \in Sessions |-> [r \in Rows |-> 0]]
    /\ served = 0
    /\ taken = [p \in Products |-> 0]
    /\ crossed = {}

(* Every request the bound allows has been answered. *)
Quiescent ==
    /\ served = MaxRequests
    /\ \A s \in Sessions : kind[s] = "none"
    /\ UNCHANGED vars

Next ==
    \/ \E s \in Sessions :
        \/ BeginAllocate(s) \/ BeginDeallocate(s) \/ BeginTransfer(s) \/ BeginPick(s)
        \/ ReadTotal(s) \/ CheckUnallocated(s) \/ CheckSource(s) \/ CheckCapacity(s)
        \/ LockStock(s) \/ WriteChange(s) \/ PickUnit(s)
        \/ Commit(s) \/ Rollback(s)
    \/ PostMovement
    \/ SetCapacity
    \/ Quiescent

Spec == Init /\ [][Next]_vars

-----------------------------------------------------------------------------
(* Properties *)

(* Every variable has the shape of its table columns or working data. *)
TypeOK ==
    /\ stock \in [Products -> Int]
    /\ loc \in [Rows -> Int]
    /\ capacity \in [Bins -> Nat]
    /\ audit \in [Rows -> Int]
    /\ stockHolder \in [Products -> Sessions \union {NoSession}]
    /\ holder \in [Rows -> Sessions \union {NoSession}]
    /\ kind \in [Sessions -> Kind]
    /\ changes \in [Sessions -> Seq(Change)]
    /\ done \in [Sessions -> Nat]
    /\ checks \in [Sessions -> Seq(Check)]
    /\ total \in [Sessions -> Int]
    /\ room \in [Sessions -> Nat]
    /\ wanted \in [Sessions -> SUBSET Products]
    /\ own \in [Sessions -> [Rows -> Int]]
    /\ served \in Nat
    /\ taken \in [Products -> Nat]
    /\ crossed \subseteq Bins \union Products

(* The committed location movements and picking allocations account for    *)
(* the quantity of every bin row, however the requests interleave: no      *)
(* relative update is lost and none is applied without its audit record.   *)
AuditExplainsBins == \A r \in Rows : loc[r] = OpeningBins[r] + audit[r]

(* Session s waits for a lock that session t holds. *)
Blocks(s, t) ==
    \/ \E p \in Products : NextStockLock(s, p) /\ stockHolder[p] = t
    \/ Writing(s) /\ holder[NextChange(s).row] = t

(* Requests that all wait for one another always have a transfer among     *)
(* them: of any others, some request waits for none.  Picks lock bin rows  *)
(* in payload order, but only under the stock row of the product, and      *)
(* those they take in one order ("deterministic productId ascending lock   *)
(* ordering"); allocations and deallocations hold one row at most.         *)
(* transferStock locks its two rows in the order of the transfer, so with  *)
(* one a circle is possible.                                               *)
OnlyTransfersDeadlock ==
    \A circle \in SUBSET {s \in Sessions : kind[s] # "transfer"} :
        circle # {} => \E s \in circle : \A t \in circle \ {s} : ~Blocks(s, t)

(* "the bin has sufficient stock" (deallocate), "source bin has sufficient *)
(* stock" (transfer): a bin row is never committed below zero unless two   *)
(* requests that were open together named it.  The checks are plain reads, *)
(* so with such a pair it can be.                                          *)
BinsNonNegative ==
    \A r \in Rows : ~({r[1], r[2]} \subseteq crossed) => loc[r] >= 0

(* What the bins hold of a product exceeds the warehouse total at most by  *)
(* what was posted OUT by hand (adjustStock does not look at the bins),    *)
(* unless two requests that were open together named the product.          *)
AllocatedWithinTotal ==
    \A p \in Products \ crossed : Allocated(p) <= stock[p] + taken[p]

(* The warehouse total is never committed negative, although picks of      *)
(* several units and postings by other handlers interleave.                *)
TotalNonNegative == \A p \in Products : stock[p] >= 0

(* The balance rules of bins and totals: where requests do not cross, the  *)
(* plain reads of the allocation handlers are as good as locks, and the    *)
(* warehouse total holds even where they do.                               *)
BalancesSound == BinsNonNegative /\ AllocatedWithinTotal /\ TotalNonNegative

(* A pick never commits a bin below zero, whatever deallocations and       *)
(* transfers run meanwhile and however often its units name the same bin   *)
(* row: it checks under the lock it then writes with (Rule 5).             *)
PickKeepsBins(s) ==
    kind[s] = "pick" /\ kind'[s] = "none" =>
        \A r \in Rows : loc[r] >= 0 => loc'[r] >= 0

(* "bin capacity is not exceeded" (allocate and transfer): a bin is filled *)
(* at most to its capacity, over all products, also after the capacity was *)
(* set below its contents, unless it was named by two requests, or by a    *)
(* request and a change of its capacity, that were open together.          *)
FillsWithinCapacity(b) == b \notin crossed' /\ Used(b)' > Used(b) => Used(b)' <= capacity[b]

(* What a commit may do to the bins. *)
CommitsKeepBins ==
    [][(\A s \in Sessions : PickKeepsBins(s)) /\ (\A b \in Bins : FillsWithinCapacity(b))]_vars
=============================================================================
