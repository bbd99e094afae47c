--------------------------- MODULE MCStockLedger ---------------------------
(* StockLedger on two sessions and two rows. *)
EXTENDS StockLedger

CONSTANTS s1, s2

MCSessions == {s1, s2}
MCKeys == {1, 2}

(* Three products: one in stock, one sold out, one never in the warehouse. *)
MCKeys3 == 1..3
MCOpening == [k \in MCKeys3 |-> CASE k = 1 -> 1 [] k = 2 -> 0 [] k = 3 -> Absent]

(* The second product has never been in the warehouse. *)
MCOpeningNew == [k \in MCKeys |-> IF k = 1 THEN 1 ELSE Absent]
=============================================================================
