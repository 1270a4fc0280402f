------------------------------ MODULE Postgres ------------------------------
(***************************************************************************)
(* The postgres commands start, stop, setup-users and setup-dbs on one     *)
(* container and its volume.                                               *)
(*                                                                         *)
(* The configuration of the server is on the volume and outlives the       *)
(* container: pg_hba.conf, postgresql.conf, the roles.  The server works   *)
(* with what it loaded at its start or at the last reload.  Each command   *)
(* reads and writes these files with calls of their own, so it may be      *)
(* interrupted or overtaken between any two; only the file of the user     *)
(* says what all of them are to agree on.                                  *)
(*                                                                         *)
(* A file is written in one step.  Tables are not modelled: nobody makes   *)
(* any, nor a schema, while a user's privileges are set, and what default  *)
(* privileges give is not followed to the tables made later.  The          *)
(* certificates exist on the host (see Certs).  A volume keeps its name    *)
(* when it is removed and created again.                                   *)
(***************************************************************************)
EXTENDS PostgresConf, FiniteSetsExt

CONSTANTS
  Proc,        \* commands that may run at the same time
  Configs,     \* contents the user gives the configuration file
  MaxLaunches, \* bound: commands started
  MaxEdits,    \* bound: edits of the configuration file
  MaxFaults    \* bound: failing docker calls, killed commands, crashed servers

ASSUME ConfigAssumption == \A c \in Configs : c \in Config /\ Valid(c)
ASSUME NameAssumption ==
  /\ {"postgres", ""} \cap Password = {}
  /\ {"absent", "none", "random"} \cap Password = {}
  /\ "postgres" \in Role \cap Db /\ "all" \notin Role \union Db /\ "*" \notin Db
ASSUME BoundAssumption ==
  MaxLaunches \in Nat /\ MaxEdits \in Nat /\ MaxFaults \in Nat

Stored == Password \union {"absent", "none", "random"}
\* A privilege is on what there is in a database or on the tables and sequences that
\* will be made in it.
Privilege == Role \X Db \X {"existing", "future"}
Volume == [hba : SUBSET Line, ssl : BOOLEAN, scram : BOOLEAN, pw : [Role -> Stored],
           dbs : SUBSET Db, granted : SUBSET Privilege, used : SUBSET Configs]
NoVolume == [state |-> "none"]
Blank(users) == [state |-> "blank", used |-> users]
Kinds == {"start", "setup-users", "setup-dbs", "stop"}
Command == [kind : Kinds \ {"stop"}, cfg : Configs]
           \union [kind : {"stop"}, given : BOOLEAN, cfg : Configs, removeVolume : BOOLEAN]

VARIABLES
  file,       \* the configuration file
  volume,     \* NoVolume, a blank one or the files and catalogs of a server
  container,  \* its state, and whether the certificates are mounted
  live,       \* what the running server has loaded
  connected,  \* commands with a connection to the running server
  pc, cmd,    \* of each command: where it is, what was asked
  run,        \* of each running command: its local variables
  solo,       \* history: neither another one nor a crash came in between
  loaded,     \* history: the server had loaded all lines when it began
  launches, edits, faults   \* how much of each bound is used

vars == <<file, volume, container, live, connected, pc, cmd, run, solo, loaded,
          launches, edits, faults>>
serverVars == <<container, live>>
callVars == <<file, cmd, solo, loaded, launches, edits>>

Steps == {"volumeRemove", "volumeCreate", "inspect", "remove", "run", "ready",
          "alter", "readConf", "writeConf", "syncHba", "writeHba", "reload",
          "readSsl", "writeSslConf", "writeSslHba", "reloadSsl", "restart", "readySsl",
          "connect", "snapshot", "trustHba", "reloadTrust", "sync", "scramHba",
          "scramConf", "updateHba", "reloadUsers", "randomise",
          "connectDbs", "createDbs", "find", "stop", "rm", "volumeRm"}
Resting == {"idle", "done", "failed"}

\* The files as a command read them, and whose work they were; the user or
\* database it has come to; has a start created the container, and has it written
\* postgresql.conf.
Locals == [hba : SUBSET Line, ssl : BOOLEAN, scram : BOOLEAN, seen : SUBSET Configs,
           at : Nat, fresh : BOOLEAN, wrote : BOOLEAN]
NoLocals == [hba |-> {}, ssl |-> FALSE, scram |-> FALSE, seen |-> {}, at |-> 1,
             fresh |-> FALSE, wrote |-> FALSE]

HasData(v) == "hba" \in DOMAIN v
Up == container.state = "running"

\* The types of all variables; a running server has data and only a running
\* server has connections.
TypeOK ==
  /\ file \in Configs
  /\ volume = NoVolume \/ volume \in Volume \/ \E u \in SUBSET Configs : volume = Blank(u)
  /\ container \in [state : {"none", "stopped", "running"}, certs : BOOLEAN]
  /\ Up => HasData(volume)
  /\ live \in [hba : SUBSET Line, ssl : BOOLEAN]
  /\ connected \in SUBSET Proc
  /\ ~Up => connected = {}
  /\ pc \in [Proc -> Steps \union Resting]
  /\ cmd \in [Proc -> Command]
  /\ run \in [Proc -> Locals]
  /\ solo \in [Proc -> BOOLEAN] /\ loaded \in [Proc -> BOOLEAN]
  /\ launches \in 0..MaxLaunches /\ edits \in 0..MaxEdits /\ faults \in 0..MaxFaults

-----------------------------------------------------------------------------
(* The server and the container                                            *)

\* With catalogs v, the server lets a client in by a line that fits, and asks
\* for a password if it says so.
Accepts(v, user, db, ssl) ==
  /\ Up /\ (ssl => live.ssl)
  /\ v.pw[user.name] # "absent" /\ db \in v.dbs
  /\ \E l \in live.hba :
       /\ l.type \in (IF ssl THEN {"host", "hostssl"} ELSE {"host"})
       /\ l.db \in {"all", db} /\ l.user \in {"all", user.name} /\ l.from = "any"
       /\ l.method = "scram" => user.pw # "" /\ user.pw = v.pw[user.name]

\* The modes in which the commands get a client, of those they try.
ModesIn(c, db) ==
  {ssl \in ToSet(getPostgresConnectionSslModesToTry(c)) :
     Accepts(volume, getAuthUserFromConfig(c), db, ssl)}
GetsIn(c, db) == ModesIn(c, db) # {}

\* The image's entrypoint: the first user is the superuser, and without users
\* it is postgres.
buildDockerEnvVars(c, v) ==
  LET su == IF c.users = << >> THEN [name |-> "postgres", pw |-> ""] ELSE Head(c.users) IN
  [hba |-> DefaultLines(c.auth), ssl |-> FALSE, scram |-> FALSE,
   pw |-> [r \in Role |-> IF r # su.name THEN "absent"
                          ELSE IF su.pw = "" THEN "none" ELSE su.pw],
   dbs |-> {"postgres"} \union {c.dbs[k] : k \in DOMAIN c.dbs \cap {1}},
   granted |-> {}, used |-> v.used]

\* A server told to use SSL does not start without certificates.
Boot(v, certs) ==
  /\ volume' = v
  /\ IF v.ssl /\ ~certs
     THEN container' = [state |-> "stopped", certs |-> certs] /\ UNCHANGED live
     ELSE /\ container' = [state |-> "running", certs |-> certs]
          /\ live' = [hba |-> v.hba, ssl |-> v.ssl]

\* A reload that finds no certificates keeps what there was.
pgReloadConf ==
  live' = [hba |-> volume.hba, ssl |-> volume.ssl /\ (container.certs \/ live.ssl)]

-----------------------------------------------------------------------------
(* Commands begin                                                          *)

Running(p) == pc[p] \notin Resting
Fault == faults < MaxFaults /\ faults' = faults + 1
Cfg(p) == cmd[p].cfg
Expected(p) == generatePgHbaConfContent(Cfg(p))
Uses(v, c) == IF v = NoVolume THEN v ELSE [v EXCEPT !.used = @ \union {c}]

\* A command goes on to its next step; its client ends with it.
Goes(p, next, locals) ==
  /\ pc' = [pc EXCEPT ![p] = next]
  /\ run' = [run EXCEPT ![p] = IF next \in Resting THEN NoLocals ELSE locals]
GoTo(p, next) == Goes(p, next, run[p])
KeepsClient(p) ==
  connected' = IF pc'[p] \in Resting THEN connected \ {p} ELSE connected

FirstStep(kind) ==
  CASE kind = "start" -> "volumeRemove"
    [] kind = "setup-users" -> "connect"
    [] kind = "setup-dbs" -> "connectDbs"
    [] OTHER -> "find"

\* History: a volume has in `used` the files that the commands on it worked with.
Launch(p) ==
  /\ ~Running(p)
  /\ launches < MaxLaunches
  /\ launches' = launches + 1
  /\ \E c \in {c \in Command : c.cfg = file} :
       /\ cmd' = [cmd EXCEPT ![p] = c]
       /\ GoTo(p, FirstStep(c.kind))
       /\ volume' = IF c.kind = "stop" THEN volume ELSE Uses(volume, file)
  /\ solo' = [q \in Proc |-> IF q = p THEN \A r \in Proc \ {p} : ~Running(r)
                             ELSE solo[q] /\ ~Running(q)]
  /\ loaded' = [loaded EXCEPT ![p] = Up => live.hba = volume.hba]
  /\ UNCHANGED <<file, serverVars, connected, edits, faults>>

-----------------------------------------------------------------------------
(* start: volume and container                                             *)

\* A volume that a container refers to, running or not, cannot be removed: that
\* is only a warning, and the data stay.
VolumeRemove(p) ==
  /\ pc[p] = "volumeRemove"
  /\ GoTo(p, "volumeCreate")
  /\ \/ /\ volume' = IF ~Cfg(p).keep /\ container.state = "none" THEN NoVolume ELSE volume
        /\ UNCHANGED faults
     \/ ~Cfg(p).keep /\ Fault /\ UNCHANGED volume
  /\ UNCHANGED <<serverVars, connected, callVars>>

\* A command that is still running may write to the new volume what it read on the
\* old one.
Setters == {q \in Proc : Running(q) /\ cmd[q].kind # "stop"}
NewVolume == Blank({Cfg(q) : q \in Setters} \union UNION {run[q].seen : q \in Setters})

VolumeCreate(p) ==
  /\ pc[p] = "volumeCreate"
  /\ GoTo(p, "inspect")
  /\ volume' = IF volume = NoVolume THEN NewVolume ELSE volume
  /\ UNCHANGED <<serverVars, connected, callVars, faults>>

Inspect(p) ==
  /\ pc[p] = "inspect"
  /\ GoTo(p, IF Up THEN "ready" ELSE "remove")
  /\ UNCHANGED <<volume, serverVars, connected, callVars, faults>>

\* Mutant: a stopped container is left where it is.
RemoveContainerNot(p) ==
  /\ pc[p] = "remove"
  /\ GoTo(p, IF Up THEN "failed" ELSE "run")
  /\ UNCHANGED <<volume, serverVars, connected, callVars, faults>>

\* Docker refuses to remove a running container.
RemoveContainer(p) ==
  /\ pc[p] = "remove"
  /\ GoTo(p, IF Up THEN "failed" ELSE "run")
  /\ container' = IF Up THEN container ELSE [state |-> "none", certs |-> FALSE]
  /\ UNCHANGED <<volume, live, connected, callVars, faults>>

\* The name may be taken by now; a missing volume is created.
RunContainer(p) ==
  /\ pc[p] = "run"
  /\ IF container.state # "none"
     THEN GoTo(p, "failed") /\ UNCHANGED <<volume, serverVars>>
     ELSE LET v == IF volume = NoVolume THEN NewVolume ELSE volume IN
          /\ Boot(IF HasData(v) THEN v ELSE buildDockerEnvVars(Cfg(p), v), Cfg(p).ssl)
          /\ Goes(p, "ready", [run[p] EXCEPT !.fresh = TRUE])
  /\ UNCHANGED <<connected, callVars, faults>>

FirstDb(c) == IF c.dbs = << >> THEN "postgres" ELSE Head(c.dbs)
InUsers(c, name) == \E u \in ToSet(c.users) : u.name = name

AfterAuthorization(c) == IF c.ssl THEN "readSsl" ELSE "done"

\* Mutant: postgres gets a random password whoever is in the file.
AfterReadyAlways(c) ==
  IF c.users = << >> THEN AfterAuthorization(c) ELSE IF c.auth THEN "alter" ELSE "syncHba"

AfterReady(c) ==
  IF c.users = << >> THEN AfterAuthorization(c)
  ELSE IF ~c.auth THEN "syncHba"
  ELSE IF InUsers(c, "postgres") THEN "readConf" ELSE "alter"

\* The first mode that works for the first database is used for the client,
\* which is of the database postgres.
WaitForReady(p) ==
  /\ pc[p] = "ready"
  /\ LET modes == ModesIn(Cfg(p), FirstDb(Cfg(p)))
         ssl == FALSE \notin modes
     IN IF modes # {} /\ Accepts(volume, getAuthUserFromConfig(Cfg(p)), "postgres", ssl)
        THEN GoTo(p, AfterReady(Cfg(p)))
        ELSE GoTo(p, "failed")
  /\ connected' = IF Running(p)' THEN connected \union {p} ELSE connected \ {p}
  /\ UNCHANGED <<volume, serverVars, callVars, faults>>

-----------------------------------------------------------------------------
(* start: authorization                                                    *)

\* A statement of the client; without the server the command fails.
Query(p, next) == GoTo(p, IF p \in connected THEN next ELSE "failed") /\ KeepsClient(p)
Randomised(p) ==
  volume' = IF p \in connected /\ volume.pw["postgres"] # "absent"
            THEN [volume EXCEPT !.pw["postgres"] = "random"] ELSE volume

AlterPostgres(p) ==
  /\ pc[p] = "alter"
  /\ Query(p, "readConf")
  /\ Randomised(p)
  /\ UNCHANGED <<serverVars, callVars, faults>>

\* A call into the container; without it the command fails.
Exec(p, next, locals) ==
  /\ IF Up THEN Goes(p, next, locals) ELSE GoTo(p, "failed")
  /\ KeepsClient(p)
  /\ UNCHANGED <<serverVars, callVars, faults>>
Reads(p) == [run[p] EXCEPT !.ssl = volume.ssl, !.scram = volume.scram, !.hba = volume.hba,
                          !.seen = volume.used]
WritesHba(hba) == volume' = IF Up THEN [volume EXCEPT !.hba = hba] ELSE volume
WritesConf(ssl, scram) ==
  volume' = IF Up THEN [volume EXCEPT !.ssl = ssl, !.scram = scram] ELSE volume

ReadConf(p) ==
  /\ pc[p] = "readConf"
  /\ Exec(p, IF volume.scram THEN "syncHba" ELSE "writeConf", Reads(p))
  /\ UNCHANGED volume

WriteConf(p) ==
  /\ pc[p] = "writeConf"
  /\ Exec(p, "syncHba", [run[p] EXCEPT !.wrote = TRUE])
  /\ WritesConf(run[p].ssl, TRUE)

\* Users done: the password of a postgres that the file does not list.
AfterUsers(c) == IF c.auth /\ ~InUsers(c, "postgres") THEN "randomise" ELSE "done"

\* Without missing lines the file stays as it is.
SyncHba(p) ==
  /\ pc[p] = "syncHba"
  /\ Exec(p, IF pgHbaConfNeedsUpdate(volume.hba, Expected(p)) THEN "writeHba"
             ELSE IF run[p].wrote THEN "reload" ELSE AfterAuthorization(Cfg(p)), run[p])
  /\ UNCHANGED volume

\* Mutant: only a changed postgresql.conf is loaded.
WriteHbaUnloaded(p) ==
  /\ pc[p] = "writeHba"
  /\ Exec(p, IF run[p].wrote THEN "reload" ELSE AfterAuthorization(Cfg(p)), run[p])
  /\ WritesHba(Expected(p))

WriteHba(p) ==
  /\ pc[p] = "writeHba"
  /\ Exec(p, "reload", run[p])
  /\ WritesHba(Expected(p))

Reload(p) ==
  /\ pc[p] \in {"reload", "reloadSsl", "reloadTrust", "reloadUsers"}
  /\ Query(p, CASE pc[p] = "reload" -> AfterAuthorization(Cfg(p))
                [] pc[p] = "reloadSsl" -> "done"
                [] pc[p] = "reloadTrust" -> "sync"
                [] OTHER -> AfterUsers(Cfg(p)))
  /\ IF p \in connected THEN pgReloadConf ELSE UNCHANGED live
  /\ UNCHANGED <<volume, container, callVars, faults>>

-----------------------------------------------------------------------------
(* start: SSL                                                              *)

hbaWithSSL(hba) == IF pgHbaRequiresSSL(hba) THEN hba ELSE setPgHbaRequireSSL(hba)

\* SSL in postgresql.conf takes a restart, which only a start that created the
\* container makes.
AfterSsl(p, wrote) == IF wrote /\ run[p].fresh THEN "restart" ELSE "done"

ReadSsl(p) ==
  /\ pc[p] = "readSsl"
  /\ Exec(p, IF ~volume.ssl THEN "writeSslConf"
             ELSE IF hbaWithSSL(volume.hba) # volume.hba THEN "writeSslHba" ELSE "done",
          [Reads(p) EXCEPT !.wrote = FALSE])
  /\ UNCHANGED volume

WriteSslConf(p) ==
  /\ pc[p] = "writeSslConf"
  /\ Exec(p, IF hbaWithSSL(run[p].hba) # run[p].hba THEN "writeSslHba" ELSE AfterSsl(p, TRUE),
          [run[p] EXCEPT !.wrote = TRUE])
  /\ WritesConf(TRUE, run[p].scram)

WriteSslHba(p) ==
  /\ pc[p] = "writeSslHba"
  /\ Exec(p, IF run[p].wrote THEN AfterSsl(p, TRUE) ELSE "reloadSsl", run[p])
  /\ WritesHba(hbaWithSSL(run[p].hba))

\* The client is closed; docker restarts a stopped container too.
Restart(p) ==
  /\ pc[p] = "restart"
  /\ connected' = {}
  /\ IF container.state = "none"
     THEN GoTo(p, "failed") /\ UNCHANGED <<volume, serverVars>>
     ELSE GoTo(p, "readySsl") /\ Boot(volume, container.certs)
  /\ UNCHANGED <<callVars, faults>>

WaitForReadySsl(p) ==
  /\ pc[p] = "readySsl"
  /\ GoTo(p, IF Accepts(volume, getAuthUserFromConfig(Cfg(p)), FirstDb(Cfg(p)), TRUE)
             THEN "done" ELSE "failed")
  /\ UNCHANGED <<volume, serverVars, connected, callVars, faults>>

-----------------------------------------------------------------------------
(* setup-users                                                             *)

\* The client of the file's first user, with SSL if and only if it says so.
getPostgresClient(p, next) ==
  IF Accepts(volume, getAuthUserFromConfig(Cfg(p)), "postgres", Cfg(p).ssl)
  THEN GoTo(p, next) /\ connected' = connected \union {p}
  ELSE GoTo(p, "failed") /\ UNCHANGED connected

ConnectForUsers(p) ==
  /\ pc[p] = "connect"
  /\ IF Cfg(p).users = << >>
     THEN GoTo(p, "done") /\ UNCHANGED connected
     ELSE getPostgresClient(p, "snapshot")
  /\ UNCHANGED <<volume, serverVars, callVars, faults>>

ToTrust(p, hba) == ~Cfg(p).auth /\ pgHbaUses(hba, "scram")
ToScram(p, hba) == Cfg(p).auth /\ pgHbaUses(hba, "trust")

\* What is decided below is decided by this copy.  Files that cannot be read
\* count as empty.
ReadSnapshot(p) ==
  /\ pc[p] = "snapshot"
  /\ LET seen == IF Up THEN Reads(p) ELSE NoLocals IN
     Goes(p, IF ToTrust(p, seen.hba) THEN "trustHba" ELSE "sync",
          seen)
  /\ UNCHANGED <<volume, serverVars, connected, callVars, faults>>

WriteUsersHba(p) ==
  /\ pc[p] \in {"trustHba", "scramHba", "updateHba"}
  /\ Exec(p, CASE pc[p] = "trustHba" -> "reloadTrust"
                [] pc[p] = "scramHba" -> "scramConf"
                [] OTHER -> "reloadUsers", run[p])
  /\ WritesHba(Expected(p))

WriteUsersConf(p) ==
  /\ pc[p] = "scramConf"
  /\ Exec(p, "reloadUsers", run[p])
  /\ WritesConf(run[p].ssl, TRUE)

\* The databases that exist and take the command's client.
Reachable(p, v) ==
  {d \in v.dbs : Accepts(v, getAuthUserFromConfig(Cfg(p)), d, Cfg(p).ssl)}

\* What users are given in databases, schema by schema: a grant alters the default
\* privileges too, a revoke does not.
RevokedPrivileges(names, dbs) == names \X dbs \X {"existing"}
GrantedPrivileges(names, dbs) == names \X dbs \X {"existing", "future"}

\* A statement for one database that fails is a warning.
revokeDatabasePermissions(p, v, names, dbs) ==
  [v EXCEPT !.granted = @ \ RevokedPrivileges(names, dbs \cap Reachable(p, v))]
grantDatabasePermissions(p, v, names, dbs) ==
  [v EXCEPT !.granted = @ \union GrantedPrivileges(names, dbs \cap Reachable(p, v))]

\* Mutant: what a user had is not taken back.
syncDatabasePermissionsGrant(p, v, u) ==
  LET wanted == getDatabasesToManage(Cfg(p), u) IN
  IF wanted = {} THEN v ELSE grantDatabasePermissions(p, v, {u.name}, wanted)

\* Anybody may connect to a database that exists, as far as privileges go, so
\* all of the file's are looked at.
syncDatabasePermissions(p, v, u) ==
  LET wanted == getDatabasesToManage(Cfg(p), u) IN
  IF wanted = {} THEN v
  ELSE grantDatabasePermissions(p,
         revokeDatabasePermissions(p, v, {u.name}, ToSet(Cfg(p).dbs) \ wanted), {u.name}, wanted)

\* Mutant: a password once set is not touched.
PasswordAfterSyncOnce(u, old) ==
  IF old = "absent" THEN (IF u.pw # "" THEN u.pw ELSE "none") ELSE old

PasswordAfterSync(u, old) ==
  IF u.pw # "" THEN u.pw ELSE IF old = "absent" THEN "none" ELSE old

\* One user: role and password, then the databases, with a client of their
\* own that needs the new password already.
SyncUser(p) ==
  /\ pc[p] = "sync"
  /\ run[p].at \in DOMAIN Cfg(p).users
  /\ IF p \notin connected
     THEN GoTo(p, "failed") /\ UNCHANGED <<volume, connected>>
     ELSE LET u == Cfg(p).users[run[p].at]
              v == [volume EXCEPT !.pw[u.name] = PasswordAfterSync(u, @)]
              lost == /\ getDatabasesToManage(Cfg(p), u) # {}
                      /\ "postgres" \notin Reachable(p, v)
          IN IF lost
             THEN GoTo(p, "failed") /\ volume' = v /\ connected' = connected \ {p}
             ELSE /\ volume' = syncDatabasePermissions(p, v, u)
                  /\ Goes(p, "sync", [run[p] EXCEPT !.at = @ + 1])
                  /\ UNCHANGED connected
  /\ UNCHANGED <<serverVars, callVars, faults>>

UsersSynced(p) ==
  /\ pc[p] = "sync"
  /\ run[p].at \notin DOMAIN Cfg(p).users
  /\ GoTo(p, IF ToScram(p, run[p].hba) THEN "scramHba"
             ELSE IF pgHbaConfNeedsUpdate(run[p].hba, Expected(p)) THEN "updateHba"
             ELSE AfterUsers(Cfg(p)))
  /\ KeepsClient(p)
  /\ UNCHANGED <<volume, serverVars, callVars, faults>>

RandomisePostgres(p) ==
  /\ pc[p] = "randomise"
  /\ Query(p, "done")
  /\ Randomised(p)
  /\ UNCHANGED <<serverVars, callVars, faults>>

-----------------------------------------------------------------------------
(* setup-dbs                                                               *)

\* The first database is the image's.
ConnectForDbs(p) ==
  /\ pc[p] = "connectDbs"
  /\ IF Len(Cfg(p).dbs) < 2
     THEN GoTo(p, "done") /\ UNCHANGED connected
     ELSE IF Accepts(volume, getAuthUserFromConfig(Cfg(p)), "postgres", Cfg(p).ssl)
          THEN /\ Goes(p, "createDbs", [run[p] EXCEPT !.at = 2])
               /\ connected' = connected \union {p}
          ELSE GoTo(p, "failed") /\ UNCHANGED connected
  /\ UNCHANGED <<volume, serverVars, callVars, faults>>

\* A grant to a role that does not exist is a warning.
CreateDatabase(p) ==
  /\ pc[p] = "createDbs"
  /\ IF p \notin connected
     THEN GoTo(p, "failed") /\ UNCHANGED volume
     ELSE LET d == Cfg(p).dbs[run[p].at]
              v == [volume EXCEPT !.dbs = @ \union {d}]
              users == {u \in ToSet(Cfg(p).users) : d \in getDatabasesToManage(Cfg(p), u)}
              lost == users # {} /\ "postgres" \notin Reachable(p, v)
              roles == {u.name : u \in {u \in users : v.pw[u.name] # "absent"}}
          IN IF lost
             THEN GoTo(p, "failed") /\ volume' = v
             ELSE /\ volume' = grantDatabasePermissions(p, v, roles, {d})
                  /\ Goes(p, IF run[p].at = Len(Cfg(p).dbs) THEN "done" ELSE "createDbs",
                          [run[p] EXCEPT !.at = @ + 1])
  /\ KeepsClient(p)
  /\ UNCHANGED <<serverVars, callVars, faults>>

-----------------------------------------------------------------------------
(* stop                                                                    *)

FindContainer(p) ==
  /\ pc[p] = "find"
  /\ GoTo(p, CASE container.state = "none" -> "done"
               [] Up -> "stop"
               [] OTHER -> "rm")
  /\ UNCHANGED <<volume, serverVars, connected, callVars, faults>>

\* Mutant: a client outlives its server.
StopContainerClients(p) ==
  /\ pc[p] = "stop"
  /\ IF container.state = "none"
     THEN GoTo(p, "failed") /\ UNCHANGED container
     ELSE /\ GoTo(p, "rm")
          /\ container' = [container EXCEPT !.state = "stopped"]
  /\ UNCHANGED <<volume, live, connected, callVars, faults>>

StopContainer(p) ==
  /\ pc[p] = "stop"
  /\ IF container.state = "none"
     THEN GoTo(p, "failed") /\ UNCHANGED <<container, connected>>
     ELSE /\ GoTo(p, "rm")
          /\ container' = [container EXCEPT !.state = "stopped"]
          /\ connected' = {}
  /\ UNCHANGED <<volume, live, callVars, faults>>

\* Without a file the volume goes only if the command is told so.
ShouldRemoveVolume(c) == c.removeVolume \/ (c.given /\ ~c.cfg.keep)

\* A container that cannot be removed is left, and so is a volume.
RemoveStopped(p) ==
  /\ pc[p] = "rm"
  /\ GoTo(p, IF ShouldRemoveVolume(cmd[p]) THEN "volumeRm" ELSE "done")
  /\ \/ /\ container' = IF Up THEN container ELSE [state |-> "none", certs |-> FALSE]
        /\ UNCHANGED faults
     \/ Fault /\ UNCHANGED container
  /\ UNCHANGED <<volume, live, connected, callVars>>

RemoveVolume(p) ==
  /\ pc[p] = "volumeRm"
  /\ GoTo(p, "done")
  /\ \/ /\ volume' = IF container.state = "none" THEN NoVolume ELSE volume
        /\ UNCHANGED faults
     \/ Fault /\ UNCHANGED volume
  /\ UNCHANGED <<serverVars, connected, callVars>>

-----------------------------------------------------------------------------
(* The user, and what may go wrong                                         *)

Edit ==
  /\ edits < MaxEdits
  /\ edits' = edits + 1
  /\ \E c \in Configs \ {file} : file' = c
  /\ UNCHANGED <<volume, serverVars, connected, pc, cmd, run, solo, loaded, launches, faults>>

\* A command is killed, or a call of it fails that it does not survive.
Kill(p) ==
  /\ Running(p)
  /\ Fault
  /\ GoTo(p, "failed")
  /\ connected' = connected \ {p}
  /\ UNCHANGED <<volume, serverVars, callVars>>

\* The machine or the server goes down; containers are not started again.
Crash ==
  /\ Up
  /\ Fault
  /\ container' = [container EXCEPT !.state = "stopped"]
  /\ connected' = {}
  /\ solo' = [p \in Proc |-> solo[p] /\ ~Running(p)]
  /\ UNCHANGED <<file, volume, live, pc, cmd, run, loaded, launches, edits>>

-----------------------------------------------------------------------------
Init ==
  /\ file \in Configs
  /\ volume = NoVolume
  /\ container = [state |-> "none", certs |-> FALSE]
  /\ live = [hba |-> {}, ssl |-> FALSE]
  /\ connected = {}
  /\ pc = [p \in Proc |-> "idle"]
  /\ cmd \in [Proc -> {[kind |-> "start", cfg |-> file]}]
  /\ run = [p \in Proc |-> NoLocals]
  /\ solo = [p \in Proc |-> TRUE] /\ loaded = [p \in Proc |-> TRUE]
  /\ launches = 0 /\ edits = 0 /\ faults = 0

Start(p) ==
  \/ VolumeRemove(p) \/ VolumeCreate(p) \/ Inspect(p) \/ RemoveContainer(p)
  \/ RunContainer(p) \/ WaitForReady(p)
  \/ AlterPostgres(p) \/ ReadConf(p) \/ WriteConf(p) \/ SyncHba(p) \/ WriteHba(p)
  \/ ReadSsl(p) \/ WriteSslConf(p) \/ WriteSslHba(p) \/ Restart(p) \/ WaitForReadySsl(p)
SetupUsers(p) ==
  \/ ConnectForUsers(p) \/ ReadSnapshot(p) \/ WriteUsersHba(p) \/ WriteUsersConf(p)
  \/ SyncUser(p) \/ UsersSynced(p) \/ RandomisePostgres(p)
SetupDbs(p) == ConnectForDbs(p) \/ CreateDatabase(p)
Stop(p) == FindContainer(p) \/ StopContainer(p) \/ RemoveStopped(p) \/ RemoveVolume(p)

Next ==
  \/ \E p \in Proc :
       \/ Launch(p) \/ Start(p) \/ Reload(p) \/ SetupUsers(p) \/ SetupDbs(p)
       \/ Stop(p) \/ Kill(p)
  \/ Edit \/ Crash

Spec == Init /\ [][Next]_vars

-----------------------------------------------------------------------------
(* What the commands promise                                               *)

\* A file keeps its own commands out if they connect as another user than the one
\* the image makes, or as one listed with several passwords, or as one whose lines
\* leave out a database they connect to.
Administers(c) ==
  LET admin == getAuthUserFromConfig(c) IN
  c.users # << >> =>
    /\ admin.name = Head(c.users).name
    /\ c.auth => \A u \in ToSet(c.users) : u.name = admin.name => u.pw = admin.pw
    /\ \A db \in {"postgres", FirstDb(c)} : \E l \in generatePgHbaConfContent(c) :
         l.type # "local" /\ l.db \in {"all", db} /\ l.user = admin.name

\* A file that lists each name once, and one whose lines let in an administrator of
\* that name everywhere.
ListsOnce(c) == \A u, w \in ToSet(c.users) : u.name = w.name => u = w
AdministersAll(c, name) ==
  c.users # << >> => \E l \in generatePgHbaConfContent(c) :
    l.type # "local" /\ l.db = "all" /\ l.user = name

\* While the commands on a volume have all worked with one and the same file,
\* the user they connect as is let in whenever the server runs, however they
\* overlap and wherever they are interrupted.  The exception is the switch to
\* SSL: until the server has loaded it, the lines written first may let nobody
\* in.
AdminGetsIn ==
  \A c \in Configs :
    Up /\ volume.used = {c} /\ Administers(c) =>
      GetsIn(c, "postgres") \/ (c.ssl /\ ~live.ssl)

UserGetsIn(c, u) ==
  \E db \in volume.dbs, ssl \in BOOLEAN :
    (u.dbs = {} \/ db \in getDatabasesToManage(c, u)) /\ Accepts(volume, u, db, ssl)

\* No step of a setup-users that runs alone shuts out a user of the file who could
\* connect with the password the file gives, unless the file keeps them to the
\* socket: "sync users first (so we don't lock out)".  An overlapping command may,
\* even one with the same file: it can put a copy of postgresql.conf back that it
\* read before SSL was on.  So the server is to have no more SSL than the volume.
SetupKeepsAccess ==
  [][\A p \in Proc :
       /\ <<pc'[p], run'[p]>> # <<pc[p], run[p]>>
       /\ Running(p) /\ cmd[p].kind = "setup-users" /\ Up
       /\ solo[p] /\ (live.ssl => volume.ssl)
       /\ ListsOnce(Cfg(p))
       => \A u \in ToSet(Cfg(p).users) :
            "tcp" \in u.types /\ UserGetsIn(Cfg(p), u) => UserGetsIn(Cfg(p), u)']_vars

Reports(p) == pc[p] # "done" /\ pc'[p] = "done"

\* A start or setup-users that ran alone, on a server that had loaded all lines
\* when it began, and reports success has the server work with lines of the file:
\* the users' are among them, and nobody comes in over the network without a
\* password if it asks for them, nor without SSL.  A reload that an earlier run
\* did not live or have the connection to make is not made up for.
DoneAsConfigured ==
  [][\A p \in Proc :
       /\ Reports(p) /\ solo[p] /\ loaded[p]
       /\ cmd[p].kind \in {"start", "setup-users"}
       /\ Cfg(p).users # << >> /\ Administers(Cfg(p))
       => /\ Expected(p) \subseteq live'.hba
          /\ \A l \in live'.hba : l.from = "any" /\ l.type # "local" =>
               /\ Cfg(p).auth => l.method = "scram"
               /\ Cfg(p).ssl => l.type = "hostssl"
          /\ run[p].fresh /\ Cfg(p).ssl => live'.ssl]_vars

\* After a setup-users that ran alone each user has privileges on what there is in the
\* databases the file gives them, of those that exist, and on nothing in any other
\* one of the file, if the lines on the volume have always let the administrator in
\* everywhere.  For the tables made later it is half of that: the file's databases
\* are among those the user will have them in, but a database once given stays one,
\* for no revoke alters the default privileges back.
GrantsAsConfigured ==
  [][\A p \in Proc :
       /\ Reports(p) /\ solo[p] /\ Up
       /\ cmd[p].kind = "setup-users" /\ ListsOnce(Cfg(p))
       /\ \A c \in volume.used : AdministersAll(c, getAuthUserFromConfig(Cfg(p)).name)
       => \A u \in ToSet(Cfg(p).users) :
            LET wanted == getDatabasesToManage(Cfg(p), u)
                dbs == ToSet(Cfg(p).dbs) \cap volume.dbs
                for(when) == {d \in dbs : <<u.name, d, when>> \in volume.granted}
            IN wanted # {} =>
                 /\ for("existing") = wanted \cap dbs
                 /\ wanted \cap dbs \subseteq for("future")]_vars

\* A start that runs alone fails only if an earlier run has worked with
\* another file, or was interrupted before the server had loaded SSL: after a
\* stop, a crash or any other interruption a start can be repeated.
StartRepeats ==
  [][\A p \in Proc :
       /\ pc[p] # "failed" /\ pc'[p] = "failed" /\ cmd[p].kind = "start"
       /\ solo[p] /\ faults' = faults /\ Administers(Cfg(p))
       => \/ volume.used # {Cfg(p)}
          \/ Cfg(p).ssl /\ ~live.ssl]_vars
=============================================================================
