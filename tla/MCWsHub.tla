------------------------------ MODULE MCWsHub ------------------------------
(* Small instances of WsHub; connections are interchangeable. *)
EXTENDS WsHub, TLC

Symmetry == Permutations(Clients)
=============================================================================
