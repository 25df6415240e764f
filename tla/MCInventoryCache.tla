-------------------------- MODULE MCInventoryCache --------------------------
(* Instances of InventoryCache for TLC. *)
EXTENDS InventoryCache, TLC

CONSTANTS r1, r2

AllSystems == DOMAIN Handler

Remote == {"remote"}

TwoReaders == {r1, r2}

\* No definition tells one request from another.
ReaderSymmetry == Permutations(TwoReaders)

=============================================================================
