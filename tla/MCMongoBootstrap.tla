------------------------- MODULE MCMongoBootstrap -------------------------
(***************************************************************************)
(* Configurations for model checking MongoBootstrap: an admin, a cluster   *)
(* admin and an application user, and what an operator may turn them into. *)
(***************************************************************************)
EXTENDS MongoBootstrap

U(n, pw, rs_) == [name |-> n, password |-> pw, roles |-> rs_]
AdminOnly == U("admin", "p1", {"userAdminAnyDatabase"})
AdminOfBoth == U("admin", "p1", {"userAdminAnyDatabase", "clusterAdmin"})
Cluster == U("cluster", "p1", {"clusterAdmin"})
NewPassword == U("cluster", "p2", {"clusterAdmin"})
App == U("app", "p1", {"other"})
AppElse == U("app", "p2", {"clusterAdmin", "other"})

\* As `scaffold` writes it.
Base == [members |-> <<"h1", "h2", "h3">>, users |-> <<AdminOnly, Cluster, App>>]
\* The least the schema allows.
Small == [Base EXCEPT !.users = <<AdminOnly, Cluster>>]
\* A member moved, the application user has other rights and another password.
Moved == [members |-> <<"h1", "h2", "h4">>, users |-> <<AdminOnly, Cluster, AppElse>>]
\* One user is admin of users and cluster, as quick start writes it.
OneAdmin == [members |-> <<"h1", "h2", "h4">>, users |-> <<AdminOfBoth>>]
\* The cluster admin gets another password.
Rotated == [Base EXCEPT !.users[2] = NewPassword]

StableConfigs == {Base, Moved, OneAdmin}
LiveConfigs == {Small, OneAdmin}
RotatedConfigs == {Base, Rotated}

=============================================================================
