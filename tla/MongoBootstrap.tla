-------------------------- MODULE MongoBootstrap --------------------------
(***************************************************************************)
(* `mongo start` and `mongo setup-users` on a set whose containers run:    *)
(* the second half of startMongoMain, setupReplicaSet and setupMongoUsers. *)
(*                                                                         *)
(* A run reads the configuration file once and then asks mongod step by    *)
(* step: which credential may look at the replica set, is it initiated,    *)
(* are its members the configured ones, which users exist and with which   *)
(* roles.  Nothing locks the set: several runs may go on at once, each     *)
(* acting on what it read earlier, and any of them may be interrupted and  *)
(* repeated while the operator edits the file.                             *)
(*                                                                         *)
(* Authorization is enabled.  A name stands for user and authDb, a member  *)
(* for host and port.  Durations are abstracted: a wait ends when its      *)
(* condition holds, and running out of time is one of the faults.          *)
(***************************************************************************)
EXTENDS Naturals, Sequences

CONSTANTS
  Proc,         \* runs of the command that can be going on at once
  Name, Password, Host,
  Configs,      \* the configurations the operator may write
  First,        \* the one the containers were first started with
  MaxEdits,     \* bound: edits of the configuration file
  MaxFaults     \* bound: interruptions, lost primaries, waits that time out

Role == {"root", "userAdminAnyDatabase", "clusterAdmin", "other"}
ConfigUser == [name : Name, password : Password, roles : SUBSET Role]
NoUser == "no user"

\* `users.find`: the user at k is the first one with role r.
IsFirstWith(c, r, k) ==
  /\ r \in c.users[k].roles
  /\ \A j \in DOMAIN c.users : r \in c.users[j].roles => k <= j

\* What mongoRunConfigSchema demands, and that no user is listed twice.
IsConfig(c) ==
  /\ c \in [members : Seq(Host), users : Seq(ConfigUser)]
  /\ c.members # << >>
  /\ \A r \in {"userAdminAnyDatabase", "clusterAdmin"} :
       \E k \in DOMAIN c.users : IsFirstWith(c, r, k)
  /\ \A j, k \in DOMAIN c.users :
       c.users[j].name = c.users[k].name => j = k

ASSUME ProcAssumption == Proc # {}
ASSUME ConfigsAssumption == First \in Configs /\ \A c \in Configs : IsConfig(c)
ASSUME PasswordAssumption == NoUser \notin Password
ASSUME BoundsAssumption == MaxEdits \in Nat /\ MaxFaults \in Nat

\* start, start --setup-users, setup-users
Modes == {"start", "startUsers", "users"}

VARIABLES
  file,        \* the configuration file
  rs,          \* members in the set's persisted configuration, or none
  primary,     \* does the set have a primary
  password,    \* password of each user of the database, or NoUser
  roles,       \* roles of each user of the database
  pc, mode, cfg, \* of each run: where it is, what it does, what it read
  probe,       \* credential that could look at the set
  snapUsers,   \* existing: names getExistingUsers returned
  snapRoles,   \*           and their roles
  at,          \* index of the user being set up
  left,        \* users still to be removed
  solo,        \* history: no other run has overlapped with this one
  calm,        \* history: no fault since this run began
  edits, faults  \* how much of each bound is used

setVars  == <<rs, primary>>
userVars == <<password, roles>>
runVars  == <<cfg, probe, snapUsers, snapRoles, at, left>>
procVars == <<pc, mode, runVars>>
histVars == <<solo, calm>>
boundVars == <<edits, faults>>
vars == <<file, setVars, userVars, procVars, histVars, boundVars>>

NoMembers == << >>
NoRoles == [n \in Name |-> {}]
Resting == {"idle", "done", "failed"}
SetSteps == {"probe", "members", "reconfig", "initiate", "primary", "ready"}
UserSteps == {"checkCluster", "createCluster", "snapshot", "sync", "create",
              "revoke", "password", "remove"}

SetTypeOK ==
  /\ file \in Configs
  /\ rs \in Seq(Host)
  /\ primary \in BOOLEAN

UserTypeOK ==
  /\ password \in [Name -> Password \union {NoUser}]
  /\ roles \in [Name -> SUBSET Role]

RunTypeOK ==
  /\ pc \in [Proc -> Resting \union SetSteps \union UserSteps]
  /\ mode \in [Proc -> Modes]
  /\ cfg \in [Proc -> Configs]
  /\ probe \in [Proc -> {"cluster-admin", "admin"}]
  /\ snapUsers \in [Proc -> SUBSET Name]
  /\ snapRoles \in [Proc -> [Name -> SUBSET Role]]
  /\ at \in [Proc -> Nat]
  /\ left \in [Proc -> SUBSET Name]

HistTypeOK ==
  /\ solo \in [Proc -> BOOLEAN]
  /\ calm \in [Proc -> BOOLEAN]

BoundTypeOK ==
  /\ edits \in 0..MaxEdits
  /\ faults \in 0..MaxFaults

\* While a run sets up a user it is at one of the configured ones.
AtSomeUser ==
  \A p \in Proc : pc[p] \in {"sync", "create", "revoke", "password"}
                    => at[p] \in DOMAIN cfg[p].users

\* Every variable holds a value the code can give it.
TypeOK ==
  SetTypeOK /\ UserTypeOK /\ RunTypeOK /\ HistTypeOK /\ BoundTypeOK /\ AtSomeUser

-----------------------------------------------------------------------------
(***************************************************************************)
(* Users of the configuration and what mongod lets a user do.              *)
(***************************************************************************)

\* findAdminUser and findClusterAdminUser: the first user with the role.
FirstWith(c, r) ==
  c.users[CHOOSE k \in DOMAIN c.users : IsFirstWith(c, r, k)]
AdminUser(c) == FirstWith(c, "userAdminAnyDatabase")
ClusterAdminUser(c) == FirstWith(c, "clusterAdmin")
ConfigNames(c) == {c.users[k].name : k \in DOMAIN c.users}

Authenticates(u) == password[u.name] = u.password
MayManageUsers(n) == roles[n] \intersect {"root", "userAdminAnyDatabase"} # {}
MayManageSet(u) ==
  Authenticates(u) /\ roles[u.name] \intersect {"root", "clusterAdmin"} # {}

\* The credential of the mongosh calls of run p.
Credential(p) ==
  IF probe[p] = "cluster-admin" THEN ClusterAdminUser(cfg[p]) ELSE AdminUser(cfg[p])

\* A client connects as the admin of the configuration; once connected, only
\* the roles of that user matter.
Session(p) == MayManageUsers(AdminUser(cfg[p]).name)
Login(p) == Authenticates(AdminUser(cfg[p])) /\ Session(p)

\* The containers have been started: the entry point of the mongo image made
\* the admin of the configuration a user with role root.
Init ==
  /\ file = First
  /\ rs = NoMembers
  /\ primary = FALSE
  /\ password = [n \in Name |-> IF n = AdminUser(First).name
                                THEN AdminUser(First).password ELSE NoUser]
  /\ roles = [n \in Name |-> IF n = AdminUser(First).name THEN {"root"} ELSE {}]
  /\ pc = [p \in Proc |-> "idle"]
  /\ mode = [p \in Proc |-> "start"]
  /\ cfg = [p \in Proc |-> First]
  /\ probe = [p \in Proc |-> "cluster-admin"]
  /\ snapUsers = [p \in Proc |-> {}]
  /\ snapRoles = [p \in Proc |-> NoRoles]
  /\ at = [p \in Proc |-> 0]
  /\ left = [p \in Proc |-> {}]
  /\ solo = [p \in Proc |-> TRUE]
  /\ calm = [p \in Proc |-> TRUE]
  /\ edits = 0
  /\ faults = 0

-----------------------------------------------------------------------------
(***************************************************************************)
(* Shared pieces.                                                          *)
(***************************************************************************)

\* Run p is at step q next.
GoTo(p, q) == pc' = [pc EXCEPT ![p] = q]

\* Run p is over: what it held goes with the process.
End(p, outcome) ==
  /\ GoTo(p, outcome)
  /\ cfg' = [cfg EXCEPT ![p] = First]
  /\ probe' = [probe EXCEPT ![p] = "cluster-admin"]
  /\ snapUsers' = [snapUsers EXCEPT ![p] = {}]
  /\ snapRoles' = [snapRoles EXCEPT ![p] = NoRoles]
  /\ at' = [at EXCEPT ![p] = 0]
  /\ left' = [left EXCEPT ![p] = {}]
  /\ UNCHANGED mode

Fail(p) == End(p, "failed")

\* Something goes wrong that no run is responsible for.
UseFault ==
  /\ faults < MaxFaults
  /\ faults' = faults + 1
  /\ calm' = [p \in Proc |-> FALSE]
  /\ UNCHANGED <<solo, edits>>

NoFault == UNCHANGED <<histVars, boundVars>>

\* The command is given: it reads the file.  setup-users begins at the users.
Launch(p, m) ==
  /\ pc[p] \in Resting
  /\ GoTo(p, IF m = "users" THEN "snapshot" ELSE "probe")
  /\ mode' = [mode EXCEPT ![p] = m]
  /\ cfg' = [cfg EXCEPT ![p] = file]
  /\ LET others == {q \in Proc \ {p} : pc[q] \notin Resting}
     IN  solo' = [q \in Proc |-> IF q = p THEN others = {}
                                 ELSE solo[q] /\ q \notin others]
  /\ calm' = [calm EXCEPT ![p] = TRUE]
  /\ UNCHANGED <<file, setVars, userVars, probe, snapUsers, snapRoles, at,
                 left, boundVars>>

-----------------------------------------------------------------------------
(***************************************************************************)
(* setupReplicaSet.  Every mongosh call opens a connection of its own.     *)
(***************************************************************************)

\* probeReplicaSetWithCredentialFallback: the credential can read the set.
ProbeAnswers(p) ==
  /\ pc[p] = "probe"
  /\ MayManageSet(Credential(p))
  /\ GoTo(p, IF rs = NoMembers THEN "initiate" ELSE "members")
  /\ UNCHANGED <<file, setVars, userVars, mode, runVars>>
  /\ NoFault

\* Mutant of ProbeUnavailable: the first refusal is final.
ProbeGivesUp(p) ==
  /\ pc[p] = "probe"
  /\ ~MayManageSet(Credential(p))
  /\ Fail(p)
  /\ UNCHANGED <<file, setVars, userVars>>
  /\ NoFault

\* It cannot; the admin is tried next, and then nobody.
ProbeUnavailable(p) ==
  /\ pc[p] = "probe"
  /\ ~MayManageSet(Credential(p))
  /\ IF probe[p] = "cluster-admin"
     THEN /\ probe' = [probe EXCEPT ![p] = "admin"]
          /\ UNCHANGED <<pc, mode, cfg, snapUsers, snapRoles, at, left>>
     ELSE Fail(p)
  /\ UNCHANGED <<file, setVars, userVars>>
  /\ NoFault

\* Mutant of MembersMatch: only the number of members is compared.
SameSize(expected, actual) == Len(expected) = Len(actual)

\* replicaSetMembersMatch: the same hosts under the same ids.
MembersMatch(expected, actual) == expected = actual

\* reconfigReplicaSetIfMembersChanged reads the persisted members.
CompareMembers(p) ==
  /\ pc[p] = "members"
  /\ MayManageSet(Credential(p))
  /\ GoTo(p, IF MembersMatch(cfg[p].members, rs) THEN "primary" ELSE "reconfig")
  /\ UNCHANGED <<file, setVars, userVars, mode, runVars>>
  /\ NoFault

\* rs.reconfig with force: the primary may not be a member any more.
Reconfig(p) ==
  /\ pc[p] = "reconfig"
  /\ MayManageSet(Credential(p))
  /\ rs' = cfg[p].members
  /\ primary' \in {primary, FALSE}
  /\ GoTo(p, "primary")
  /\ UNCHANGED <<file, userVars, mode, runVars>>
  /\ NoFault

\* The initiate script of the admin returns quietly when there is a config,
\* whichever it is.
Initiate(p) ==
  /\ pc[p] = "initiate"
  /\ MayManageSet(AdminUser(cfg[p]))
  /\ rs' = IF rs = NoMembers THEN cfg[p].members ELSE rs
  /\ GoTo(p, "primary")
  /\ UNCHANGED <<file, primary, userVars, mode, runVars>>
  /\ NoFault

\* mongosh is refused while the set is being set up: the run throws.
SetRefused(p) ==
  /\ \/ pc[p] \in {"members", "reconfig"} /\ ~MayManageSet(Credential(p))
     \/ pc[p] = "initiate" /\ ~MayManageSet(AdminUser(cfg[p]))
  /\ Fail(p)
  /\ UNCHANGED <<file, setVars, userVars>>
  /\ NoFault

\* waitForReplicaSetPrimary with the credential the probe settled on.
PrimarySeen(p) ==
  /\ pc[p] = "primary"
  /\ MayManageSet(Credential(p))
  /\ primary
  /\ GoTo(p, "ready")
  /\ UNCHANGED <<file, setVars, userVars, mode, runVars>>
  /\ NoFault

\* assertMongoReplicaSetReady: a client of the admin connects to the primary.
Ready(p) ==
  /\ pc[p] = "ready"
  /\ Authenticates(AdminUser(cfg[p]))
  /\ primary
  /\ GoTo(p, "checkCluster")
  /\ UNCHANGED <<file, setVars, userVars, mode, runVars>>
  /\ NoFault

\* Errors are polled away, so a refusal ends in a timeout like a late election.
WaitTimesOut(p) ==
  /\ \/ pc[p] = "primary" /\ (MayManageSet(Credential(p)) => ~primary)
     \/ pc[p] = "ready" /\ (Authenticates(AdminUser(cfg[p])) => ~primary)
  /\ IF primary THEN NoFault ELSE UseFault
  /\ Fail(p)
  /\ UNCHANGED <<file, setVars, userVars>>

-----------------------------------------------------------------------------
(***************************************************************************)
(* setupUser for the cluster admin, as startMongoMain calls it: look, then *)
(* create.  A user that exists is left as it is.                           *)
(***************************************************************************)

\* createUser; the command fails when the user exists.
CreateUser(u) ==
  /\ password[u.name] = NoUser
  /\ password' = [password EXCEPT ![u.name] = u.password]
  /\ roles' = [roles EXCEPT ![u.name] = u.roles]

\* `start` is done here; with --setup-users the rest follows.
AfterClusterAdmin(p) ==
  IF mode[p] = "start"
  THEN End(p, "done")
  ELSE GoTo(p, "snapshot") /\ UNCHANGED <<mode, runVars>>

ClusterAdminExists(p) ==
  /\ pc[p] = "checkCluster"
  /\ primary /\ Login(p)
  /\ password[ClusterAdminUser(cfg[p]).name] # NoUser
  /\ AfterClusterAdmin(p)
  /\ UNCHANGED <<file, setVars, userVars>>
  /\ NoFault

ClusterAdminMissing(p) ==
  /\ pc[p] = "checkCluster"
  /\ primary /\ Login(p)
  /\ password[ClusterAdminUser(cfg[p]).name] = NoUser
  /\ GoTo(p, "createCluster")
  /\ UNCHANGED <<file, setVars, userVars, mode, runVars>>
  /\ NoFault

CreateClusterAdmin(p) ==
  /\ pc[p] = "createCluster"
  /\ primary /\ Session(p)
  /\ CreateUser(ClusterAdminUser(cfg[p]))
  /\ AfterClusterAdmin(p)
  /\ UNCHANGED <<file, setVars>>
  /\ NoFault

-----------------------------------------------------------------------------
(***************************************************************************)
(* setupMongoUsers: one snapshot of the users, then the configured users   *)
(* in order, then the users the configuration does not list.               *)
(***************************************************************************)

User(p) == cfg[p].users[at[p]]
Existing(p) == User(p).name \in snapUsers[p]
RolesToAdd(p) == User(p).roles \ snapRoles[p][User(p).name]
RolesToRemove(p) == snapRoles[p][User(p).name] \ User(p).roles

\* The admins of the configuration.
ConfigAdmins(c) ==
  {k \in DOMAIN c.users : "userAdminAnyDatabase" \in c.users[k].roles}

\* Mutant of ToDelete: users the file no longer lists stay.
NothingToDelete(p) == {}

\* A user who may administer users is kept when the configuration has no admin.
ToDelete(p) ==
  {n \in snapUsers[p] \ ConfigNames(cfg[p]) :
     "userAdminAnyDatabase" \in snapRoles[p][n] => ConfigAdmins(cfg[p]) # {}}

\* getMongoClient and getExistingUsers.
TakeSnapshot(p) ==
  /\ pc[p] = "snapshot"
  /\ primary /\ Login(p)
  /\ snapUsers' = [snapUsers EXCEPT ![p] = {n \in Name : password[n] # NoUser}]
  /\ snapRoles' = [snapRoles EXCEPT ![p] = roles]
  /\ at' = [at EXCEPT ![p] = 1]
  /\ GoTo(p, "sync")
  /\ UNCHANGED <<file, setVars, userVars, mode, cfg, probe, left>>
  /\ NoFault

\* Mutant of NextUser: the loop runs one user too far.
NextUserTooFar(p) ==
  /\ IF at[p] <= Len(cfg[p].users)
     THEN /\ at' = [at EXCEPT ![p] = @ + 1]
          /\ GoTo(p, "sync")
          /\ UNCHANGED left
     ELSE /\ at' = [at EXCEPT ![p] = 0]
          /\ GoTo(p, "remove")
          /\ left' = [left EXCEPT ![p] = ToDelete(p)]
  /\ UNCHANGED <<mode, cfg, probe, snapUsers, snapRoles>>

\* The loop goes on with the next configured user, or the removals begin.
NextUser(p) ==
  /\ IF at[p] < Len(cfg[p].users)
     THEN /\ at' = [at EXCEPT ![p] = @ + 1]
          /\ GoTo(p, "sync")
          /\ UNCHANGED left
     ELSE /\ at' = [at EXCEPT ![p] = 0]
          /\ GoTo(p, "remove")
          /\ left' = [left EXCEPT ![p] = ToDelete(p)]
  /\ UNCHANGED <<mode, cfg, probe, snapUsers, snapRoles>>

\* A user the snapshot lacks: setupUser looks again before it creates.
UserAppeared(p) ==
  /\ pc[p] = "sync"
  /\ primary /\ Session(p)
  /\ ~Existing(p)
  /\ password[User(p).name] # NoUser
  /\ NextUser(p)
  /\ UNCHANGED <<file, setVars, userVars>>
  /\ NoFault

UserMissing(p) ==
  /\ pc[p] = "sync"
  /\ primary /\ Session(p)
  /\ ~Existing(p)
  /\ password[User(p).name] = NoUser
  /\ GoTo(p, "create")
  /\ UNCHANGED <<file, setVars, userVars, mode, runVars>>
  /\ NoFault

CreateMissing(p) ==
  /\ pc[p] = "create"
  /\ primary /\ Session(p)
  /\ CreateUser(User(p))
  /\ NextUser(p)
  /\ UNCHANGED <<file, setVars>>
  /\ NoFault

\* grantRolesToUser, before anything is revoked.
GrantRoles(p) ==
  /\ pc[p] = "sync"
  /\ primary /\ Session(p)
  /\ Existing(p)
  /\ RolesToAdd(p) # {}
  /\ password[User(p).name] # NoUser
  /\ roles' = [roles EXCEPT ![User(p).name] = @ \union RolesToAdd(p)]
  /\ GoTo(p, "revoke")
  /\ UNCHANGED <<file, setVars, password, mode, runVars>>
  /\ NoFault

\* Mutant of RolesGranted: nothing is granted before roles are revoked.
RevokeAtOnce(p) == pc[p] \in {"sync", "revoke"}

RolesGranted(p) ==
  \/ pc[p] = "revoke"
  \/ pc[p] = "sync" /\ RolesToAdd(p) = {}

\* revokeRolesFromUser.
RevokeRoles(p) ==
  /\ pc[p] \in {"sync", "revoke"}
  /\ primary /\ Session(p)
  /\ Existing(p)
  /\ RolesGranted(p)
  /\ RolesToRemove(p) # {}
  /\ password[User(p).name] # NoUser
  /\ roles' = [roles EXCEPT ![User(p).name] = @ \ RolesToRemove(p)]
  /\ GoTo(p, "password")
  /\ UNCHANGED <<file, setVars, password, mode, runVars>>
  /\ NoFault

\* updateUser sets the password whether or not it changed.
SetPassword(p) ==
  /\ \/ pc[p] = "password"
     \/ /\ pc[p] \in {"sync", "revoke"}
        /\ RolesGranted(p)
        /\ RolesToRemove(p) = {}
  /\ primary /\ Session(p)
  /\ Existing(p)
  /\ password[User(p).name] # NoUser
  /\ password' = [password EXCEPT ![User(p).name] = User(p).password]
  /\ NextUser(p)
  /\ UNCHANGED <<file, setVars, roles>>
  /\ NoFault

RemoveUser(p, n) ==
  /\ pc[p] = "remove"
  /\ n \in left[p]
  /\ primary /\ Session(p)
  /\ password[n] # NoUser
  /\ password' = [password EXCEPT ![n] = NoUser]
  /\ roles' = [roles EXCEPT ![n] = {}]
  /\ left' = [left EXCEPT ![p] = @ \ {n}]
  /\ UNCHANGED <<file, setVars, pc, mode, cfg, probe, snapUsers, snapRoles, at>>
  /\ NoFault

Finish(p) ==
  /\ pc[p] = "remove"
  /\ left[p] = {}
  /\ End(p, "done")
  /\ UNCHANGED <<file, setVars, userVars>>
  /\ NoFault

\* The login is refused, the session lost its rights, the user to create is
\* there, or the user to change is gone: the run throws.
UserStepRefused(p) ==
  /\ primary
  /\ \/ pc[p] \in {"checkCluster", "snapshot"} /\ ~Login(p)
     \/ pc[p] \in UserSteps \ {"checkCluster", "snapshot"} /\ ~Session(p)
        /\ (pc[p] = "remove" => left[p] # {})
     \/ /\ pc[p] = "createCluster"
        /\ password[ClusterAdminUser(cfg[p]).name] # NoUser
     \/ pc[p] = "create" /\ password[User(p).name] # NoUser
     \/ /\ pc[p] \in {"sync", "revoke", "password"}
        /\ Existing(p)
        /\ password[User(p).name] = NoUser
     \/ pc[p] = "remove" /\ \E n \in left[p] : password[n] = NoUser
  /\ Fail(p)
  /\ UNCHANGED <<file, setVars, userVars>>
  /\ NoFault

\* No primary within the server selection timeout.  setup-users on a set that
\* was never initiated never finds one.
NoPrimaryInTime(p) ==
  /\ pc[p] \in UserSteps
  /\ pc[p] = "remove" => left[p] # {}
  /\ ~primary
  /\ IF rs = NoMembers THEN NoFault ELSE UseFault
  /\ Fail(p)
  /\ UNCHANGED <<file, setVars, userVars>>

-----------------------------------------------------------------------------
(***************************************************************************)
(* The set and the operator.                                               *)
(***************************************************************************)

Elect ==
  /\ rs # NoMembers
  /\ ~primary
  /\ primary' = TRUE
  /\ UNCHANGED <<file, rs, userVars, procVars>>
  /\ NoFault

LosePrimary ==
  /\ primary
  /\ primary' = FALSE
  /\ UseFault
  /\ UNCHANGED <<file, rs, userVars, procVars>>

\* Control-C, or an answer of mongod that got lost after it acted.
Interrupt(p) ==
  /\ pc[p] \notin Resting
  /\ UseFault
  /\ Fail(p)
  /\ UNCHANGED <<file, setVars, userVars>>

Edit(c) ==
  /\ c # file
  /\ edits < MaxEdits
  /\ edits' = edits + 1
  /\ file' = c
  /\ UNCHANGED <<setVars, userVars, procVars, histVars, faults>>

-----------------------------------------------------------------------------

SetupSet(p) ==
  \/ ProbeAnswers(p) \/ ProbeUnavailable(p)
  \/ CompareMembers(p) \/ Reconfig(p) \/ Initiate(p) \/ SetRefused(p)
  \/ PrimarySeen(p) \/ Ready(p) \/ WaitTimesOut(p)

SetupClusterAdmin(p) ==
  ClusterAdminExists(p) \/ ClusterAdminMissing(p) \/ CreateClusterAdmin(p)

SetupUsers(p) ==
  \/ TakeSnapshot(p)
  \/ UserAppeared(p) \/ UserMissing(p) \/ CreateMissing(p)
  \/ GrantRoles(p) \/ RevokeRoles(p) \/ SetPassword(p)
  \/ \E n \in Name : RemoveUser(p, n)
  \/ Finish(p)
  \/ UserStepRefused(p) \/ NoPrimaryInTime(p)

Run(p) == SetupSet(p) \/ SetupClusterAdmin(p) \/ SetupUsers(p)

Environment ==
  \/ Elect \/ LosePrimary
  \/ \E p \in Proc : Interrupt(p)
  \/ \E p \in Proc, m \in Modes : Launch(p, m)
  \/ \E c \in Configs : Edit(c)

Next == Environment \/ \E p \in Proc : Run(p)

Spec == Init /\ [][Next]_vars

\* A run takes its next step, an initiated set elects, and the operator keeps
\* giving both commands, whatever became of the previous ones.
Fairness ==
  /\ WF_vars(Elect)
  /\ \A p \in Proc :
       /\ WF_vars(Run(p))
       /\ \A m \in {"startUsers", "users"} : SF_vars(Launch(p, m))

FairSpec == Spec /\ Fairness

-----------------------------------------------------------------------------
(***************************************************************************)
(* Safety.                                                                 *)
(***************************************************************************)

\* The operator never changes the name or the password of the admin.
SameAdmin ==
  \A c \in Configs : /\ AdminUser(c).name = AdminUser(First).name
                     /\ AdminUser(c).password = AdminUser(First).password

\* As long as the file names the same admin, that user can log in and manage
\* users in every state: no order of grants, revocations, removals of any
\* number of runs, and no interruption, locks the operator out.
AdminKeepsRights ==
  SameAdmin => /\ Authenticates(AdminUser(First))
               /\ MayManageUsers(AdminUser(First).name)

\* The users of the database are those of configuration c.
UsersAre(c) ==
  /\ \A n \in Name : password[n] # NoUser => n \in ConfigNames(c)
  /\ \A k \in DOMAIN c.users :
       /\ Authenticates(c.users[k])
       /\ roles[c.users[k].name] = c.users[k].roles

Ends(p, outcome) == pc[p] \notin Resting /\ pc'[p] = outcome

\* A run that had the set to itself and reports success leaves it as the file
\* it read says, whatever earlier runs left behind.
FinishedAsConfigured ==
  [][\A p \in Proc, c \in Configs : Ends(p, "done") /\ solo[p] /\ cfg[p] = c =>
       /\ mode[p] # "start" => UsersAre(c)'
       /\ mode[p] # "users" => rs' = c.members]_vars

\* As long as the file names the same admin, a run nothing disturbed fails only
\* where the code cannot know better: start has no credential that may look at the
\* set, or setup-users finds no set.
OnlyStuckRunsFail ==
  [][\A p \in Proc : SameAdmin /\ Ends(p, "failed") /\ solo[p] /\ calm'[p] =>
       \/ mode[p] = "users" /\ rs = NoMembers
       \/ /\ mode[p] # "users"
          /\ ~MayManageSet(ClusterAdminUser(cfg[p]))
          /\ ~MayManageSet(AdminUser(cfg[p]))]_vars

\* Of runs of `start` that get in each other's way one goes on.
RaceHasWinner ==
  faults = 0 /\ edits = 0 =>
    \E p \in Proc : pc[p] # "failed" \/ mode[p] = "users"

\* "Will create/sync them as part of startup": after a start that succeeded
\* undisturbed, the cluster admin of the file can log in and has the role.
StartSyncsAdmins ==
  [][\A p \in Proc, c \in Configs :
       Ends(p, "done") /\ mode[p] = "start" /\ solo[p] /\ calm'[p] /\ cfg[p] = c
         => MayManageSet(ClusterAdminUser(c))']_vars

-----------------------------------------------------------------------------
(***************************************************************************)
(* Liveness.                                                               *)
(***************************************************************************)

\* An operator who repeats both commands gets the set and the users the file
\* describes, and later runs keep them.
EventuallyConfigured == <>[](rs = file.members /\ UsersAre(file))

=============================================================================
