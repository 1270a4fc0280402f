---------------------------- MODULE PostgresConf ----------------------------
(***************************************************************************)
(* The text that the postgres commands generate, recognise and edit: the   *)
(* lines of pg_hba.conf, and what a configuration file asks for.           *)
(*                                                                         *)
(* pg_hba.conf is a set of lines: at most one of those written here fits a *)
(* given connection, so their order decides nothing.  The addresses of a   *)
(* generated line all take in the machine the commands run on, from "any"; *)
(* "self" is the container's own loopback.  Patterns that must match a     *)
(* whole line of the form "host all all ..." never match a generated line, *)
(* which names its user.                                                   *)
(***************************************************************************)
EXTENDS Naturals, Sequences, SequencesExt

CONSTANTS Role, Db, Password   \* names and passwords a file can mention

Method == {"trust", "scram"}
Line == [type : {"local", "host", "hostssl"}, db : Db \union {"all"},
         user : Role \union {"all"}, from : {"any", "self"}, method : Method]

\* Password "" is none; databases {} all of them, as "*" does.
User == [name : Role, pw : Password \union {""},
         dbs : SUBSET (Db \union {"*"}), types : SUBSET {"tcp", "local"} \ {{}}]
Config == [auth : BOOLEAN, ssl : BOOLEAN, keep : BOOLEAN,
           users : Seq(User), dbs : Seq(Db)]

\* What the schema of a configuration file asks of it beyond its type.
Valid(c) ==
  /\ c.auth => c.users # << >> /\ \A u \in ToSet(c.users) : u.pw # ""
  /\ c.dbs # << >> => \A u \in ToSet(c.users) : u.dbs \subseteq ToSet(c.dbs) \union {"*"}

-----------------------------------------------------------------------------
(* The file the image writes when it initialises a volume                  *)

DefaultLines(auth) ==
  LET line(type, from, method) ==
        [type |-> type, db |-> "all", user |-> "all", from |-> from, method |-> method]
  IN {line("local", "any", "trust"), line("host", "self", "trust"),
      line("host", "any", IF auth THEN "scram" ELSE "trust")}

-----------------------------------------------------------------------------
(* What the commands generate                                              *)

generatePgHbaEntriesForUser(u, method, ssl) ==
  LET dbs == IF u.dbs = {} \/ "*" \in u.dbs THEN {"all"} ELSE u.dbs
      types == (IF "tcp" \in u.types THEN {IF ssl THEN "hostssl" ELSE "host"} ELSE {})
               \union (IF "local" \in u.types THEN {"local"} ELSE {})
  IN [type : types, db : dbs, user : {u.name}, from : {"any"}, method : {method}]

generatePgHbaConfContent(c) ==
  UNION {generatePgHbaEntriesForUser(u, IF c.auth THEN "scram" ELSE "trust", c.ssl)
           : u \in ToSet(c.users)}

\* Lines that are there and not expected do not count.
pgHbaConfNeedsUpdate(current, expected) == ~(expected \subseteq current)

-----------------------------------------------------------------------------
(* What they recognise and edit                                            *)

pgHbaUses(hba, method) ==
  \E l \in hba : l.type # "hostssl" /\ l.db = "all" /\ l.user = "all" /\ l.method = method
pgHbaRequiresSSL(hba) == \E l \in hba : l.type = "hostssl"
setPgHbaRequireSSL(hba) ==
  {IF l.type = "host" THEN [l EXCEPT !.type = "hostssl"] ELSE l : l \in hba}

-----------------------------------------------------------------------------
(* Whom the commands connect as, and how                                   *)

getAuthUserFromConfig(c) ==
  LET supers == {k \in DOMAIN c.users : c.users[k].name = "postgres"} IN
  CASE c.users = << >> -> [name |-> "postgres", pw |-> ""]
    [] c.auth /\ supers # {} -> [name |-> "postgres", pw |-> c.users[Min(supers)].pw]
    [] OTHER -> [name |-> Head(c.users).name, pw |-> Head(c.users).pw]

getPostgresConnectionSslModesToTry(c) == IF c.ssl THEN <<FALSE, TRUE>> ELSE <<FALSE>>

\* The databases to manage for a user; "*" is all of the file.
getDatabasesToManage(c, u) == IF "*" \in u.dbs THEN ToSet(c.dbs) ELSE u.dbs

=============================================================================
