----------------------------- MODULE MCSessions -----------------------------
(* Instances of Sessions for TLC: one login of each user.                  *)
EXTENDS Sessions, TLC

\* bob is in the directory, ann in the database or at the identity provider.
MCPlacements == {p \in [Users -> {"local", "ldap", "oidc"}] :
                    \A u \in Users : (p[u] = "ldap") = (u = "bob")}
MCOwner == [l \in Logins |-> l]
MCRefreshTTL == [local |-> 3, ldap |-> 2, oidc |-> 2]

Symmetry == Permutations(Handlers)
=============================================================================
