----------------------------- MODULE Movements -----------------------------
(* stock_movements rows and what a list of them says about a stock row. *)
EXTENDS Integers, Sequences

MovementType == {"IN", "OUT", "ADJUSTMENT"}

Movement == [type: MovementType, quantity: Int, previousStock: Int, newStock: Int]

(* What a movement does to the quantity: an ADJUSTMENT carries its sign,   *)
(* IN and OUT are recorded with a positive quantity.                       *)
Signed(m) == IF m.type = "OUT" THEN -m.quantity ELSE m.quantity

(* The movements ms lead from quantity a to quantity b: each starts where  *)
(* the one before it ended, none ends below zero.                          *)
Explains(ms, a, b) ==
    /\ ms = <<>> => a = b
    /\ ms # <<>> => ms[1].previousStock = a /\ ms[Len(ms)].newStock = b
    /\ \A i \in 1..Len(ms) :
         /\ ms[i].newStock = ms[i].previousStock + Signed(ms[i])
         /\ ms[i].newStock >= 0
    /\ \A i \in 1..(Len(ms) - 1) : ms[i + 1].previousStock = ms[i].newStock
=============================================================================
