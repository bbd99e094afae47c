---------------------------- MODULE MCProcurement ----------------------------
(* Procurement with two requests at a time, on two products. *)
EXTENDS Procurement

CONSTANTS s1, s2

MCSessions == {s1, s2}
MCProducts == {1, 2}
=============================================================================
