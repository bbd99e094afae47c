---------------------------- MODULE MCFulfilment ----------------------------
(* Fulfilment on two sessions. *)
EXTENDS Fulfilment

CONSTANTS s1, s2, o1, o2

MCSessions == {s1, s2}
MCOrders == {o1, o2}
MCOneProduct == {1}
MCProducts == {1, 2}

MCStock == [p \in MCOneProduct |-> 2]
MCStockTwo == [p \in MCProducts |-> IF p = 1 THEN 2 ELSE Absent]

MCEverything == {"create", "cancel", "createTask", "assign", "start", "pick", "post"}
MCCancelAndPick == {"create", "cancel", "createTask", "pick"}
=============================================================================
