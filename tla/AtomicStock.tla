---------------------------- MODULE AtomicStock ----------------------------
(***************************************************************************)
(* What the warehouse promises about a stock row and its movement history, *)
(* without sessions, locks or statements: every change of inventory_stocks *)
(* happens together with the rows of stock_movements that explain it.      *)
(* The comments over adjustStockTx and adjustStock in inventory.service.ts *)
(* state the promise; StockLedger is the detailed specification.           *)
(***************************************************************************)
EXTENDS Movements

CONSTANTS
    Keys,       \* the stock rows: one per (warehouse, product)
    Opening     \* quantity of each row before the first recorded movement

VARIABLES
    stock,      \* quantity of each row
    ledger      \* the movements of each row, oldest first

vars == <<stock, ledger>>

Init ==
    /\ stock = Opening
    /\ ledger = [k \in Keys |-> <<>>]

(* The movements a step adds to row k. *)
Added(k) == SubSeq(ledger'[k], Len(ledger[k]) + 1, Len(ledger'[k]))

(* One transaction: on every row at once, the recorded history is kept and *)
(* the movements added to it explain the change of the quantity.           *)
Post ==
    /\ stock' \in [Keys -> Int]
    /\ ledger' \in [Keys -> Seq(Movement)]
    /\ \A k \in Keys :
         /\ Len(ledger[k]) <= Len(ledger'[k])
         /\ SubSeq(ledger'[k], 1, Len(ledger[k])) = ledger[k]
         /\ Explains(Added(k), stock[k], stock'[k])

Spec == Init /\ [][Post]_vars
=============================================================================
