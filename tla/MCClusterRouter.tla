-------------------------- MODULE MCClusterRouter --------------------------
(* Instances of ClusterRouter for TLC. *)
EXTENDS ClusterRouter, TLC

\* A registration with a CA, and one that has none and did not opt out of
\* verification, of which no client is made.
SomeSetups ==
    {[token |-> TRUE, ca |-> "good", insecure |-> FALSE],
     [token |-> TRUE, ca |-> "none", insecure |-> FALSE]}

Symmetry == Permutations(Requests)

=============================================================================
