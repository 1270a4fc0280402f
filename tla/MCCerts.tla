------------------------------ MODULE MCCerts ------------------------------
(***************************************************************************)
(* A replica set of two members or one PostgreSQL server; starts, and      *)
(* commands that overwrite all, the CA, or the configurations and the      *)
(* certificates.                                                           *)
(***************************************************************************)
EXTENDS Certs, TLC

MCServers == "mongo" :> 2 @@ "postgres" :> 1

F(c, a, s) == [config |-> c, ca |-> a, certs |-> s]
MCFlags == {F(FALSE, FALSE, FALSE), F(TRUE, TRUE, TRUE), F(FALSE, TRUE, FALSE),
            F(TRUE, FALSE, TRUE)}

Symmetry == Permutations(Proc)

=============================================================================
