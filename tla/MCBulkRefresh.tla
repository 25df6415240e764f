--------------------------- MODULE MCBulkRefresh ---------------------------
(* Small instances of BulkRefresh. *)
EXTENDS BulkRefresh, TLC

\* Every scope holds every ExternalSecret, or all but one only the first.
CONSTANT Wide
MCInScope == [s \in Scopes |-> Names]
MCNarrowScopes == [s \in Scopes |-> IF s = Wide THEN Names ELSE {1}]

\* A request may be for any scope, or all but one only for a narrow one.
CONSTANT Asker
MCAsksFor == [r \in Requests |-> Scopes]
MCOneWide == [r \in Requests |-> IF r = Asker THEN {Wide} ELSE Scopes \ {Wide}]

Symmetry == Permutations(Requests)
=============================================================================
