------------------------------ MODULE MCPacking ------------------------------
(* Packing with two requests at a time, on two items and two packages, by  *)
(* two packers and a manager.  Sessions, packages and packers are alike.   *)
EXTENDS Packing, TLC

CONSTANTS s1, s2, p1, p2, w1, w2

MCSessions == {s1, s2}
MCPackages == {p1, p2}
MCStaff == {w1, w2}
MCSymmetry == Permutations(MCSessions) \union Permutations(MCPackages) \union Permutations(MCStaff)
MCItems == {1, 2}

(* One item takes two units, the other one. *)
MCRequired == [i \in MCItems |-> IF i = 1 THEN 2 ELSE 1]

MCEverything ==
    {"createTask", "start", "cancel", "assign", "createPackage", "close", "add", "cancelOrder"}
=============================================================================
