-------------------------- MODULE MCClusterProber --------------------------
(* Instances of ClusterProber for TLC. *)
EXTENDS ClusterProber

\* A registration with a CA, and an old one without, that never opted in.
SomeSetups ==
    {[token |-> TRUE, ca |-> "good", insecure |-> FALSE],
     [token |-> TRUE, ca |-> "none", insecure |-> FALSE]}

=============================================================================
