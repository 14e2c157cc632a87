----------------------------- MODULE MCRbacCache -----------------------------
(* One user, a role of their tenant or of none, two requests at a time.    *)
EXTENDS RbacCache

FeaturesAcl == [isSuperAdmin |-> FALSE, features |-> Features]
SmallAcls == {EmptyAcl, FeaturesAcl, SuperAcl}
SeededAcls == {FeaturesAcl}

\* At first the users have all roles, and these have their ACL rows.
SeededInit ==
  /\ Init
  /\ links = [u \in Users |-> Roles]
  /\ \A r \in Roles, t \in Tenants: roleAcl[r][t] # {}

SeededSpec == SeededInit /\ [][Next]_vars /\ \A k \in Scopes: WF_vars(Passing(k))

=============================================================================
