---------------------------- MODULE MCStructure ----------------------------
(* Structure on two warehouses with one path each down to a shelf, one bin *)
(* and one more of every level to be created.                              *)
EXTENDS Structure, TLC

CONSTANTS s1, s2, w1, w2, z1, z2, z3, a1, a2, a3, h1, h2, h3, b1, b2

MCSessions == {s1, s2}
MCSymmetry == Permutations(MCSessions)
MCWarehouses == {w1, w2}
MCZones == {z1, z2, z3}
MCAisles == {a1, a2, a3}
MCShelves == {h1, h2, h3}
MCBins == {b1, b2}
MCNodes == MCZones \union MCAisles \union MCShelves \union MCBins

(* Two shelves have one code, the other rows one of their own. *)
MCCode == [n \in MCNodes |-> IF n = h3 THEN h1 ELSE n]

MCOpeningUp ==
    [n \in MCNodes |->
       CASE n = z1 -> w1 [] n = a1 -> z1 [] n = h1 -> a1 [] n = b1 -> h1
         [] n = z2 -> w2 [] n = a2 -> z2 [] n = h2 -> a2 [] OTHER -> Nowhere]

(* All requests about the first path and what may come to hang on it. *)
MCRequests ==
    [kind: {"create"}, node: {b2}, to: {h1, h2}]
        \union [kind: {"create"}, node: {z3}, to: {w1}]
        \union [kind: {"create"}, node: {a3}, to: {z1}]
        \union [kind: {"create"}, node: {h3}, to: {a1}]
        \union [kind: {"move"}, node: {b1}, to: {h1, h2}]
        \union [kind: {"move"}, node: {h1}, to: {a2}]
        \union [kind: {"move"}, node: {a1}, to: {z2}]
        \union [kind: {"move"}, node: {z1}, to: {w2}]
        \union [kind: {"status"}, node: {w1, z1, a1, h1, b1}, to: {"INACTIVE"}]
        \union [kind: {"delete"}, node: {z1, a1, h1, b1, b2}, to: {Nowhere}]
        \union [kind: {"allocate"}, node: MCBins, to: MCWarehouses]
=============================================================================
