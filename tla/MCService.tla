----------------------------- MODULE MCService ------------------------------
(* Service with one name, which is registered at the start or not. *)
EXTENDS Service, TLC
CONSTANTS w1, w2, w3, c1, c2, d1, n1, p1
MCTables == {<<>>, << <<n1, p1>> >>}
=============================================================================
