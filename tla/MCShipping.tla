----------------------------- MODULE MCShipping -----------------------------
(* Shipping with two requests at a time, on two items and one package. *)
EXTENDS Shipping

CONSTANTS s1, s2, p1

MCSessions == {s1, s2}
MCOnePackage == {p1}
MCItems == {1, 2}

MCRequired == [i \in MCItems |-> 1]

MCPackAndShip ==
    {"createTask", "start", "cancel", "createPackage", "add", "close", "cancelOrder",
     "ship", "status", "inform"}
=============================================================================
