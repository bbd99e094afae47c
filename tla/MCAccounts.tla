----------------------------- MODULE MCAccounts -----------------------------
(* Accounts with two requests at a time about two employees, one of whom   *)
(* has the address that the seed uses.  Sessions are alike, and so are     *)
(* warehouses.                                                             *)
EXTENDS Accounts, TLC

CONSTANTS s1, s2, admin, clerk, w1, w2

MCSessions == {s1, s2}
MCEmails == {admin, clerk}
MCWarehouses == {w1, w2}
MCSymmetry == Permutations(MCSessions) \union Permutations(MCWarehouses)
=============================================================================
