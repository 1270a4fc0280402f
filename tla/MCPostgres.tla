----------------------------- MODULE MCPostgres -----------------------------
(***************************************************************************)
(* One server and files that ask for passwords, for SSL or for neither,    *)
(* that change a password and the databases of a user, keep the volume or  *)
(* do not, and list no users.                                              *)
(***************************************************************************)
EXTENDS Postgres

U(name, pw, dbs) == [name |-> name, pw |-> pw, dbs |-> dbs, types |-> {"tcp", "local"}]
Tcp(u) == [u EXCEPT !.types = {"tcp"}]
F(auth, ssl, keep, users, dbs) ==
  [auth |-> auth, ssl |-> ssl, keep |-> keep, users |-> users, dbs |-> dbs]

Open == F(FALSE, FALSE, TRUE, <<U("admin", "", {}), U("app", "", {"*"})>>, <<"d1", "d2">>)
Bare == F(FALSE, FALSE, TRUE, << >>, << >>)
Owner == F(TRUE, FALSE, TRUE, <<U("postgres", "p1", {})>>, <<"d1">>)
Closed == F(TRUE, FALSE, TRUE, <<U("admin", "p1", {}), Tcp(U("app", "p1", {"d2"}))>>, <<"d1", "d2">>)
Secure == F(TRUE, TRUE, FALSE, <<U("admin", "p1", {}), U("app", "p2", {"d1"})>>, <<"d1", "d2">>)

MCConfigs == {Open, Bare, Owner, Closed, Secure}
Symmetry == Permutations(Proc)
=============================================================================
