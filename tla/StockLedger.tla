---------------------------- MODULE StockLedger ----------------------------
(***************************************************************************)
(* The transactions that touch inventory_stocks, statement by statement:   *)
(*   adjust   InventoryService.adjustStock          (one movement)         *)
(*   receive  PurchaseOrderService.receiveGoods     (IN, one per line)     *)
(*   pick     PickingService.pickItems              (OUT, one per unit)    *)
(*   order    SalesOrderService.createSalesOrder    (locks rows, reads)    *)
(* A session is one request inside prisma.$transaction.  The database runs *)
(* READ COMMITTED: a plain read or SELECT ... FOR UPDATE sees what is      *)
(* committed or its own, a row lock is held until the transaction ends,    *)
(* and FOR UPDATE on a row that does not exist locks nothing.              *)
(***************************************************************************)
EXTENDS Movements

CONSTANTS
    Sessions,     \* requests that can run at the same time
    Keys,         \* stock rows of one warehouse, numbered in localeCompare order
    Opening,      \* committed quantity of each row at the start, or Absent
    MaxQty,       \* bound: quantity of one line
    MaxLines,     \* bound: lines of one payload
    MaxRequests,  \* bound: requests of one behaviour
    Absent,       \* the row does not exist
    NoSession     \* nobody holds the row lock

ASSUME StockLedgerAssumption ==
    /\ Keys \subseteq Nat
    /\ Absent \notin Int
    /\ Opening \in [Keys -> Nat \union {Absent}]
    /\ MaxQty \in Nat /\ MaxLines \in Nat /\ MaxRequests \in Nat
    /\ NoSession \notin Sessions

VARIABLES
    stock,    \* committed inventory_stocks.quantity, or Absent
    ledger,   \* committed stock_movements of each row, in createdAt order
    holder,   \* the session that holds the row lock
    kind,     \* which handler a session runs, "none" between requests
    wanted,   \* rows a session has still to SELECT ... FOR UPDATE
    lines,    \* payload lines a session has still to write
    seen,     \* previousStock / stockTracker: quantity a session works with
    own,      \* quantity a session has written but not committed, or Absent
    draft,    \* movements a session has inserted but not committed
    served    \* requests begun so far

rows == <<stock, ledger>>
request == <<kind, wanted, lines, seen, own, draft>>
vars == <<stock, ledger, holder, kind, wanted, lines, seen, own, draft, served>>

Kind == {"none", "adjust", "receive", "pick", "order"}
Line == [key: Keys, type: MovementType, quantity: Int]

-----------------------------------------------------------------------------
(* Requests *)

ValidQuantity(l) == IF l.type = "ADJUSTMENT" THEN l.quantity # 0 ELSE l.quantity > 0

(* Payloads whose lines all have the given type. *)
Payloads(type) ==
    UNION {[1..n -> [key: Keys, type: {type}, quantity: 1..MaxQty]] : n \in 1..MaxLines}

InLockOrder_PayloadOrder(ls) == TRUE

(* Lines after items.sort((a, b) => a.productId.localeCompare(b.productId)) *)
InLockOrder(ls) == \A i, j \in 1..Len(ls) : i < j => ls[i].key <= ls[j].key

KeysOf(ls) == {ls[i].key : i \in 1..Len(ls)}

Begin(s, handler, locks, ls) ==
    /\ kind[s] = "none"
    /\ served < MaxRequests
    /\ served' = served + 1
    /\ kind' = [kind EXCEPT ![s] = handler]
    /\ wanted' = [wanted EXCEPT ![s] = locks]
    /\ lines' = [lines EXCEPT ![s] = ls]
    /\ UNCHANGED <<rows, holder, seen, own, draft>>

BeginAdjust(s) ==
    \E l \in [key: Keys, type: MovementType, quantity: -MaxQty..MaxQty] :
        /\ ValidQuantity(l)
        /\ Begin(s, "adjust", {l.key}, <<l>>)

(* receiveGoods sorts the lines; a product may be listed twice. *)
BeginReceive(s) ==
    \E ls \in Payloads("IN") :
        /\ InLockOrder(ls)
        /\ Begin(s, "receive", {ls[1].key}, ls)

(* pickItems locks every product of the payload before the first unit and  *)
(* then works through the units in payload order.                          *)
BeginPick(s) ==
    \E ls \in Payloads("OUT") :
        /\ \A k \in KeysOf(ls) : stock[k] # Absent    \* it was reserved, so it exists
        /\ Begin(s, "pick", KeysOf(ls), ls)

BeginOrder(s) ==
    \E ks \in (SUBSET Keys) \ {{}} : Begin(s, "order", ks, <<>>)

-----------------------------------------------------------------------------
(* Statements *)

(* The row as session s reads it: its own write, or the committed one. *)
RowFor(s, k) == IF own[s][k] # Absent THEN own[s][k] ELSE stock[k]

Free(s, k) == holder[k] \in {NoSession, s}

NextLock(s, k) == k \in wanted[s] /\ \A j \in wanted[s] : k <= j

(* LockRow with a plain SELECT in place of FOR UPDATE. *)
LockRow_PlainRead(s) ==
    \E k \in Keys :
        /\ NextLock(s, k)
        /\ seen' = [seen EXCEPT ![s][k] = IF RowFor(s, k) = Absent THEN 0 ELSE RowFor(s, k)]
        /\ wanted' = [wanted EXCEPT ![s] = @ \ {k}]
        /\ UNCHANGED <<rows, holder, kind, lines, own, draft, served>>

(* LockRow without the fall-back to 0 for a row that does not exist. *)
LockRow_NoDefault(s) ==
    \E k \in Keys :
        /\ NextLock(s, k)
        /\ Free(s, k)
        /\ holder' = [holder EXCEPT ![k] = s]
        /\ seen' = [seen EXCEPT ![s][k] = RowFor(s, k)]
        /\ wanted' = [wanted EXCEPT ![s] = @ \ {k}]
        /\ UNCHANGED <<rows, kind, lines, own, draft, served>>

(* SELECT id, quantity FROM inventory_stocks ... FOR UPDATE *)
LockRow(s) ==
    \E k \in Keys :
        /\ NextLock(s, k)
        /\ \/ /\ RowFor(s, k) # Absent
              /\ Free(s, k)
              /\ holder' = [holder EXCEPT ![k] = s]
              /\ seen' = [seen EXCEPT ![s][k] = RowFor(s, k)]
           \/ /\ RowFor(s, k) = Absent
              /\ seen' = [seen EXCEPT ![s][k] = 0]
              /\ UNCHANGED holder
        /\ wanted' = [wanted EXCEPT ![s] = @ \ {k}]
        /\ UNCHANGED <<rows, kind, lines, own, draft, served>>

Writing(s) == lines[s] # <<>> /\ wanted[s] = {}

NewStock(s) == seen[s][Head(lines[s]).key] + Signed(Head(lines[s]))

(* "Insufficient stock." is thrown otherwise. *)
Covers(s) == NewStock(s) >= 0

(* The rows a handler locks before it writes the lines ls. *)
LocksBefore(handler, ls) ==
    IF handler = "receive" /\ ls # <<>> THEN {Head(ls).key} ELSE {}

(* The row is written (an upsert with the computed quantity in             *)
(* adjustStockTx, a relative decrement in pickItems) and the movement      *)
(* inserted.  The write waits for another session's lock on the row.       *)
WriteLine(s) ==
    LET l == Head(lines[s])
        k == l.key
    IN  /\ Writing(s)
        /\ Covers(s)
        /\ Free(s, k)
        /\ holder' = [holder EXCEPT ![k] = s]
        /\ own' = [own EXCEPT ![s][k] =
                     IF kind[s] = "pick" THEN RowFor(s, k) - l.quantity ELSE NewStock(s)]
        /\ draft' = [draft EXCEPT ![s][k] =
                       Append(@, [type |-> l.type, quantity |-> l.quantity,
                                  previousStock |-> seen[s][k], newStock |-> NewStock(s)])]
        /\ seen' = [seen EXCEPT ![s][k] = NewStock(s)]
        /\ lines' = [lines EXCEPT ![s] = Tail(@)]
        /\ wanted' = [wanted EXCEPT ![s] = LocksBefore(kind[s], Tail(lines[s]))]
        /\ UNCHANGED <<rows, kind, served>>

(* The transaction is over: its locks and its working data are gone. *)
End(s) ==
    /\ holder' = [k \in Keys |-> IF holder[k] = s THEN NoSession ELSE holder[k]]
    /\ kind' = [kind EXCEPT ![s] = "none"]
    /\ wanted' = [wanted EXCEPT ![s] = {}]
    /\ lines' = [lines EXCEPT ![s] = <<>>]
    /\ seen' = [seen EXCEPT ![s] = [k \in Keys |-> 0]]
    /\ own' = [own EXCEPT ![s] = [k \in Keys |-> Absent]]
    /\ draft' = [draft EXCEPT ![s] = [k \in Keys |-> <<>>]]
    /\ UNCHANGED served

(* The handler throws and the transaction rolls back. *)
Refuse(s) ==
    /\ Writing(s)
    /\ ~Covers(s)
    /\ End(s)
    /\ UNCHANGED rows

Commit(s) ==
    /\ kind[s] # "none" /\ wanted[s] = {} /\ lines[s] = <<>>
    /\ stock' = [k \in Keys |-> RowFor(s, k)]
    /\ ledger' = [k \in Keys |-> ledger[k] \o draft[s][k]]
    /\ End(s)

(* Rollback with the movement inserted outside the transaction. *)
Rollback_KeepsMovements(s) ==
    /\ kind[s] # "none"
    /\ End(s)
    /\ ledger' = [k \in Keys |-> ledger[k] \o draft[s][k]]
    /\ UNCHANGED stock

(* Any other end: one of the handler's further checks throws, the 20 s     *)
(* timeout of $transaction expires, or the connection is lost.             *)
Rollback(s) ==
    /\ kind[s] # "none"
    /\ End(s)
    /\ UNCHANGED rows

-----------------------------------------------------------------------------
Init ==
    /\ stock = Opening
    /\ ledger = [k \in Keys |-> <<>>]
    /\ holder = [k \in Keys |-> NoSession]
    /\ kind = [s \in Sessions |-> "none"]
    /\ wanted = [s \in Sessions |-> {}]
    /\ lines = [s \in Sessions |-> <<>>]
    /\ seen = [s \in Sessions |-> [k \in Keys |-> 0]]
    /\ own = [s \in Sessions |-> [k \in Keys |-> Absent]]
    /\ draft = [s \in Sessions |-> [k \in Keys |-> <<>>]]
    /\ served = 0

Statement(s) == LockRow(s) \/ WriteLine(s) \/ Refuse(s) \/ Commit(s)

(* Every request the bound allows has been answered. *)
Quiescent ==
    /\ served = MaxRequests
    /\ \A s \in Sessions : kind[s] = "none"
    /\ UNCHANGED vars

Next ==
    \/ \E s \in Sessions :
        \/ BeginAdjust(s) \/ BeginReceive(s) \/ BeginPick(s) \/ BeginOrder(s)
        \/ LockRow(s) \/ WriteLine(s) \/ Refuse(s) \/ Commit(s)
        \/ Rollback(s)
    \/ Quiescent

Spec == Init /\ [][Next]_vars

(* The database runs the next statement of an open transaction as soon as  *)
(* the lock it needs is free; nothing obliges a transaction to time out.   *)
FairSpec == Spec /\ \A s \in Sessions : WF_vars(Statement(s))

-----------------------------------------------------------------------------
(* Properties *)

(* Every variable has the shape of its table columns or working data. *)
TypeOK ==
    /\ stock \in [Keys -> Int \union {Absent}]
    /\ ledger \in [Keys -> Seq(Movement)]
    /\ holder \in [Keys -> Sessions \union {NoSession}]
    /\ kind \in [Sessions -> Kind]
    /\ wanted \in [Sessions -> SUBSET Keys]
    /\ lines \in [Sessions -> Seq(Line)]
    /\ seen \in [Sessions -> [Keys -> Int]]
    /\ own \in [Sessions -> [Keys -> Int \union {Absent}]]
    /\ draft \in [Sessions -> [Keys -> Seq(Movement)]]
    /\ served \in Nat

(* "Enforce invariant: stock quantity must never be negative"              *)
(* (inventory.service.ts, pickItems): no interleaving of adjustments,      *)
(* receipts and picks commits a negative row, although each checks only    *)
(* the value it read.                                                      *)
StockNeverNegative == \A k \in Keys : stock[k] # Absent => stock[k] >= 0

(* For a row that existed when the history began, the committed movements  *)
(* account for the quantity without a gap: no concurrent writer is lost.   *)
MovementsExplainStock ==
    \A k \in Keys : Opening[k] # Absent => Explains(ledger[k], Opening[k], stock[k])

(* The rows that existed when the history began: on these the whole of it  *)
(* looks like AtomicStock, where each transaction changes its rows in one  *)
(* step, together with the movements that explain the change, and history  *)
(* is append-only.                                                         *)
Existing == {k \in Keys : Opening[k] # Absent}
Atomic == INSTANCE AtomicStock WITH
    Keys <- Existing,
    Opening <- [k \in Existing |-> Opening[k]],
    stock <- [k \in Existing |-> stock[k]],
    ledger <- [k \in Existing |-> ledger[k]]
ImplementsAtomicStock == Atomic!Spec

(* The same promise for a row that the requests themselves create, whose   *)
(* history starts from nothing.                                            *)
MovementsExplainNewStock ==
    \A k \in Keys : Opening[k] = Absent /\ stock[k] # Absent =>
        Explains(ledger[k], 0, stock[k])

(* Session s cannot run its next statement before the lock on k is released. *)
WaitsFor(s, k) ==
    /\ \/ NextLock(s, k) /\ RowFor(s, k) # Absent
       \/ Writing(s) /\ Head(lines[s]).key = k /\ Covers(s)
    /\ ~Free(s, k)

(* A session only ever waits for a row above all the rows it has locked    *)
(* ("deterministic lock ordering"), so sessions cannot wait in a circle    *)
(* and PostgreSQL has no stock-row deadlock to break.                      *)
WaitsUpward ==
    \A s \in Sessions, j, k \in Keys : WaitsFor(s, k) /\ holder[j] = s => j < k

(* Every request is answered although nobody times out: each transaction   *)
(* commits or is refused, whatever locks the others take.                  *)
RequestsFinish == \A s \in Sessions : kind[s] # "none" ~> kind[s] = "none"
=============================================================================
