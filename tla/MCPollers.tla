----------------------------- MODULE MCPollers ------------------------------
(* Instances of Pollers for TLC. *)
EXTENDS Pollers

CONSTANTS n1

OneName == {n1}

=============================================================================
