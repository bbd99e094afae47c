----------------------------- MODULE MCBinStock -----------------------------
(* BinStock on two bins. *)
EXTENDS BinStock

CONSTANTS s1, s2, b1, b2

MCSessions == {s1, s2}
MCBins == {b1, b2}
MCProducts == {1, 2}
MCCapacity == [b \in MCBins |-> 2]

(* Two products share the bins: the first bin is full, the second is not. *)
MCStockTwo == [p \in MCProducts |-> 2]
MCOpeningTwo == [r \in MCBins \X MCProducts |-> IF r = <<b2, 2>> THEN 0 ELSE 1]
=============================================================================
