----------------------- MODULE MongoBootstrapProofs -----------------------
(***************************************************************************)
(* Theorems about MongoBootstrap, for any number of concurrent runs, any   *)
(* configurations and any number of edits and faults.                      *)
(***************************************************************************)
EXTENDS MongoBootstrap, SequenceTheorems, TLAPS

-----------------------------------------------------------------------------
(***************************************************************************)
(* Configurations.                                                         *)
(***************************************************************************)

\* What `users.find` returns is a configured user with the role.
LEMMA FirstWithIsUser ==
  ASSUME NEW c \in Configs, NEW r \in {"userAdminAnyDatabase", "clusterAdmin"}
  PROVE  \E k \in DOMAIN c.users : /\ FirstWith(c, r) = c.users[k]
                                   /\ r \in c.users[k].roles
<1>1. \E k \in DOMAIN c.users : IsFirstWith(c, r, k)
  BY ConfigsAssumption DEF IsConfig
<1>2. IsFirstWith(c, r, CHOOSE k \in DOMAIN c.users : IsFirstWith(c, r, k))
  BY <1>1
<1> QED BY <1>1, <1>2 DEF FirstWith, IsFirstWith

LEMMA UsersType ==
  ASSUME NEW c \in Configs
  PROVE  /\ c.members \in Seq(Host)
         /\ c.members # << >>
         /\ c.users \in Seq(ConfigUser)
         /\ Len(c.users) \in Nat
         /\ DOMAIN c.users = 1..Len(c.users)
         /\ \A k \in DOMAIN c.users : c.users[k] \in ConfigUser
BY ConfigsAssumption DEF IsConfig

LEMMA FirstWithType ==
  ASSUME NEW c \in Configs, NEW r \in {"userAdminAnyDatabase", "clusterAdmin"}
  PROVE  FirstWith(c, r) \in ConfigUser
BY FirstWithIsUser, UsersType

LEMMA SomeUser == ASSUME NEW c \in Configs PROVE 1 \in DOMAIN c.users
<1>1. PICK k \in DOMAIN c.users : TRUE
  BY FirstWithIsUser
<1> QED BY <1>1, UsersType

-----------------------------------------------------------------------------
(***************************************************************************)
(* Type correctness.                                                       *)
(***************************************************************************)

LEMMA InitType == Init => TypeOK
<1> SUFFICES ASSUME Init PROVE TypeOK
  OBVIOUS
<1>1. First \in Configs /\ AdminUser(First) \in ConfigUser
  BY ConfigsAssumption, FirstWithType DEF AdminUser
<1>2. SetTypeOK
  BY <1>1, EmptySeq DEF Init, SetTypeOK, NoMembers
<1>3. UserTypeOK
  BY <1>1 DEF Init, UserTypeOK, ConfigUser, Role
<1>4. RunTypeOK
  BY <1>1 DEF Init, RunTypeOK, Resting, Modes, NoRoles
<1>5. HistTypeOK /\ BoundTypeOK
  BY BoundsAssumption DEF Init, HistTypeOK, BoundTypeOK
<1>6. AtSomeUser
  BY DEF Init, AtSomeUser
<1> QED BY <1>2, <1>3, <1>4, <1>5, <1>6 DEF TypeOK

LEMMA SetKept == ASSUME SetTypeOK, UNCHANGED <<file, setVars>> PROVE SetTypeOK'
BY DEF SetTypeOK, setVars

LEMMA UsersKept == ASSUME UserTypeOK, UNCHANGED userVars PROVE UserTypeOK'
BY DEF UserTypeOK, userVars

LEMMA NoFaultType ==
  ASSUME HistTypeOK, BoundTypeOK, NoFault PROVE HistTypeOK' /\ BoundTypeOK'
BY DEF HistTypeOK, BoundTypeOK, NoFault, histVars, boundVars

LEMMA UseFaultType ==
  ASSUME HistTypeOK, BoundTypeOK, UseFault PROVE HistTypeOK' /\ BoundTypeOK'
BY BoundsAssumption DEF HistTypeOK, BoundTypeOK, UseFault

LEMMA EndType ==
  ASSUME NEW p \in Proc, NEW o \in Resting, RunTypeOK, AtSomeUser, End(p, o)
  PROVE  RunTypeOK' /\ AtSomeUser'
<1>1. First \in Configs
  BY ConfigsAssumption
<1>2. RunTypeOK'
  BY <1>1 DEF RunTypeOK, End, GoTo, NoRoles
<1>3. AtSomeUser'
  BY DEF RunTypeOK, AtSomeUser, End, GoTo, Resting
<1> QED BY <1>2, <1>3

LEMMA GoToType ==
  ASSUME NEW p \in Proc, RunTypeOK, AtSomeUser,
         NEW q \in SetSteps \union UserSteps, GoTo(p, q),
         UNCHANGED <<mode, runVars>>,
         q \in {"create", "revoke", "password"} => pc[p] \in {"sync", "revoke"},
         q # "sync"
  PROVE  RunTypeOK' /\ AtSomeUser'
<1>1. RunTypeOK'
  BY DEF RunTypeOK, GoTo, runVars
<1>2. AtSomeUser'
  BY DEF RunTypeOK, AtSomeUser, GoTo, runVars
<1> QED BY <1>1, <1>2

LEMMA CreateUserType ==
  ASSUME NEW u \in ConfigUser, UserTypeOK, CreateUser(u) PROVE UserTypeOK'
BY DEF UserTypeOK, CreateUser, ConfigUser

LEMMA CurrentUserType ==
  ASSUME NEW p \in Proc, RunTypeOK, AtSomeUser,
         pc[p] \in {"sync", "create", "revoke", "password"}
  PROVE  User(p) \in ConfigUser
<1>1. cfg[p] \in Configs /\ at[p] \in DOMAIN cfg[p].users
  BY DEF RunTypeOK, AtSomeUser
<1> QED BY <1>1, UsersType DEF User

LEMMA NextUserType ==
  ASSUME NEW p \in Proc, RunTypeOK, AtSomeUser, NextUser(p),
         pc[p] \in {"sync", "create", "revoke", "password"}
  PROVE  RunTypeOK' /\ AtSomeUser'
<1>1. /\ cfg[p] \in Configs
      /\ at[p] \in 1..Len(cfg[p].users)
      /\ Len(cfg[p].users) \in Nat
      /\ DOMAIN cfg[p].users = 1..Len(cfg[p].users)
  BY UsersType DEF RunTypeOK, AtSomeUser
<1>2. CASE at[p] < Len(cfg[p].users)
  <2>1. RunTypeOK'
    <3>1. /\ at' = [at EXCEPT ![p] = at[p] + 1]
          /\ pc' = [pc EXCEPT ![p] = "sync"]
          /\ left' = left
          /\ UNCHANGED <<mode, cfg, probe, snapUsers, snapRoles>>
      BY <1>2 DEF NextUser, GoTo
    <3>2. at' \in [Proc -> Nat]
      BY <1>1, <3>1 DEF RunTypeOK
    <3>3. pc' \in [Proc -> Resting \union SetSteps \union UserSteps]
      BY <3>1 DEF RunTypeOK, UserSteps
    <3> QED BY <3>1, <3>2, <3>3 DEF RunTypeOK
  <2>2. AtSomeUser'
    <3>1. /\ at'[p] = at[p] + 1 /\ cfg' = cfg
          /\ \A q \in Proc \ {p} : at'[q] = at[q] /\ pc'[q] = pc[q]
      BY <1>2 DEF NextUser, GoTo, RunTypeOK
    <3>2. at'[p] \in DOMAIN cfg'[p].users
      BY <1>1, <1>2, <3>1 DEF RunTypeOK
    <3> QED BY <3>1, <3>2 DEF AtSomeUser
  <2> QED BY <2>1, <2>2
<1>3. CASE ~(at[p] < Len(cfg[p].users))
  <2>1. ToDelete(p) \in SUBSET Name
    BY DEF ToDelete, RunTypeOK
  <2>2. RunTypeOK'
    <3>1. /\ at' = [at EXCEPT ![p] = 0]
          /\ pc' = [pc EXCEPT ![p] = "remove"]
          /\ left' = [left EXCEPT ![p] = ToDelete(p)]
          /\ UNCHANGED <<mode, cfg, probe, snapUsers, snapRoles>>
      BY <1>3 DEF NextUser, GoTo
    <3>2. at' \in [Proc -> Nat] /\ left' \in [Proc -> SUBSET Name]
      BY <2>1, <3>1 DEF RunTypeOK
    <3>3. pc' \in [Proc -> Resting \union SetSteps \union UserSteps]
      BY <3>1 DEF RunTypeOK, UserSteps
    <3> QED BY <3>1, <3>2, <3>3 DEF RunTypeOK
  <2>3. AtSomeUser'
    BY <1>1, <1>3 DEF RunTypeOK, AtSomeUser, NextUser, GoTo
  <2> QED BY <2>2, <2>3
<1> QED BY <1>2, <1>3

\* The steps of setupReplicaSet.
LEMMA SetupSetType ==
  ASSUME NEW p \in Proc, TypeOK, SetupSet(p) PROVE TypeOK'
<1> USE DEF TypeOK
<1>1. cfg[p] \in Configs /\ cfg[p].members \in Seq(Host)
  BY UsersType DEF RunTypeOK
<1>2. CASE ProbeAnswers(p)
  <2>1. PICK q \in {"initiate", "members"} : GoTo(p, q)
    BY <1>2 DEF ProbeAnswers
  <2>2. RunTypeOK' /\ AtSomeUser'
    BY <1>2, <2>1, GoToType DEF ProbeAnswers, SetSteps
  <2> QED BY <1>2, <2>2, SetKept, UsersKept, NoFaultType DEF ProbeAnswers
<1>3. CASE ProbeUnavailable(p)
  <2>1. CASE probe[p] = "cluster-admin"
    <3>1. RunTypeOK' /\ AtSomeUser'
      BY <1>3, <2>1 DEF ProbeUnavailable, RunTypeOK, AtSomeUser
    <3> QED BY <1>3, <3>1, SetKept, UsersKept, NoFaultType DEF ProbeUnavailable
  <2>2. CASE probe[p] # "cluster-admin"
    <3>1. RunTypeOK' /\ AtSomeUser'
      BY <1>3, <2>2, EndType DEF ProbeUnavailable, Fail, Resting
    <3> QED BY <1>3, <3>1, SetKept, UsersKept, NoFaultType DEF ProbeUnavailable
  <2> QED BY <2>1, <2>2
<1>4. CASE CompareMembers(p)
  <2>1. PICK q \in {"primary", "reconfig"} : GoTo(p, q)
    BY <1>4 DEF CompareMembers
  <2>2. RunTypeOK' /\ AtSomeUser'
    BY <1>4, <2>1, GoToType DEF CompareMembers, SetSteps
  <2> QED BY <1>4, <2>2, SetKept, UsersKept, NoFaultType DEF CompareMembers
<1>5. CASE Reconfig(p)
  <2>1. RunTypeOK' /\ AtSomeUser'
    BY <1>5, GoToType DEF Reconfig, SetSteps
  <2>2. SetTypeOK'
    BY <1>1, <1>5 DEF Reconfig, SetTypeOK
  <2> QED BY <1>5, <2>1, <2>2, UsersKept, NoFaultType DEF Reconfig
<1>6. CASE Initiate(p)
  <2>1. RunTypeOK' /\ AtSomeUser'
    BY <1>6, GoToType DEF Initiate, SetSteps
  <2>2. SetTypeOK'
    BY <1>1, <1>6 DEF Initiate, SetTypeOK
  <2> QED BY <1>6, <2>1, <2>2, UsersKept, NoFaultType DEF Initiate
<1>7. CASE SetRefused(p)
  <2>1. RunTypeOK' /\ AtSomeUser'
    BY <1>7, EndType DEF SetRefused, Fail, Resting
  <2> QED BY <1>7, <2>1, SetKept, UsersKept, NoFaultType DEF SetRefused
<1>8. CASE PrimarySeen(p)
  <2>1. RunTypeOK' /\ AtSomeUser'
    BY <1>8, GoToType DEF PrimarySeen, SetSteps
  <2> QED BY <1>8, <2>1, SetKept, UsersKept, NoFaultType DEF PrimarySeen
<1>9. CASE Ready(p)
  <2>1. RunTypeOK' /\ AtSomeUser'
    BY <1>9, GoToType DEF Ready, UserSteps
  <2> QED BY <1>9, <2>1, SetKept, UsersKept, NoFaultType DEF Ready
<1>10. CASE WaitTimesOut(p)
  <2>1. RunTypeOK' /\ AtSomeUser'
    BY <1>10, EndType DEF WaitTimesOut, Fail, Resting
  <2>2. HistTypeOK' /\ BoundTypeOK'
    BY <1>10, NoFaultType, UseFaultType DEF WaitTimesOut
  <2> QED BY <1>10, <2>1, <2>2, SetKept, UsersKept DEF WaitTimesOut
<1> QED BY <1>2, <1>3, <1>4, <1>5, <1>6, <1>7, <1>8, <1>9, <1>10 DEF SetupSet

\* setupUser for the cluster admin.
LEMMA SetupClusterAdminType ==
  ASSUME NEW p \in Proc, TypeOK, SetupClusterAdmin(p) PROVE TypeOK'
<1> USE DEF TypeOK
<1>1. ClusterAdminUser(cfg[p]) \in ConfigUser
  BY FirstWithType DEF RunTypeOK, ClusterAdminUser
<1>2. AfterClusterAdmin(p) => RunTypeOK' /\ AtSomeUser'
  BY EndType, GoToType DEF AfterClusterAdmin, Resting, UserSteps
<1>3. CASE ClusterAdminExists(p)
  BY <1>2, <1>3, SetKept, UsersKept, NoFaultType DEF ClusterAdminExists
<1>4. CASE ClusterAdminMissing(p)
  <2>1. RunTypeOK' /\ AtSomeUser'
    BY <1>4, GoToType DEF ClusterAdminMissing, UserSteps
  <2> QED BY <1>4, <2>1, SetKept, UsersKept, NoFaultType DEF ClusterAdminMissing
<1>5. CASE CreateClusterAdmin(p)
  BY <1>1, <1>2, <1>5, SetKept, CreateUserType, NoFaultType DEF CreateClusterAdmin
<1> QED BY <1>3, <1>4, <1>5 DEF SetupClusterAdmin

\* setupMongoUsers.
LEMMA SetupUsersType ==
  ASSUME NEW p \in Proc, TypeOK, SetupUsers(p) PROVE TypeOK'
<1> USE DEF TypeOK
<1>1. cfg[p] \in Configs /\ 1 \in DOMAIN cfg[p].users
  BY SomeUser DEF RunTypeOK
<1>2. pc[p] \in {"sync", "create", "revoke", "password"} => User(p) \in ConfigUser
  BY CurrentUserType
<1>3. CASE TakeSnapshot(p)
  <2>1. RunTypeOK'
    <3>1. /\ snapUsers' \in [Proc -> SUBSET Name]
          /\ at' \in [Proc -> Nat]
      BY <1>3 DEF TakeSnapshot, RunTypeOK
    <3>2. snapRoles' \in [Proc -> [Name -> SUBSET Role]]
      BY <1>3 DEF TakeSnapshot, RunTypeOK, UserTypeOK
    <3>3. pc' \in [Proc -> Resting \union SetSteps \union UserSteps]
      BY <1>3 DEF TakeSnapshot, RunTypeOK, GoTo, UserSteps
    <3> QED BY <1>3, <3>1, <3>2, <3>3 DEF TakeSnapshot, RunTypeOK
  <2>2. AtSomeUser'
    BY <1>1, <1>3 DEF TakeSnapshot, RunTypeOK, AtSomeUser, GoTo
  <2> QED BY <1>3, <2>1, <2>2, SetKept, UsersKept, NoFaultType DEF TakeSnapshot
<1>4. CASE UserAppeared(p)
  <2>1. RunTypeOK' /\ AtSomeUser'
    BY <1>4, NextUserType DEF UserAppeared
  <2> QED BY <1>4, <2>1, SetKept, UsersKept, NoFaultType DEF UserAppeared
<1>5. CASE UserMissing(p)
  <2>1. RunTypeOK' /\ AtSomeUser'
    BY <1>5, GoToType DEF UserMissing, UserSteps
  <2> QED BY <1>5, <2>1, SetKept, UsersKept, NoFaultType DEF UserMissing
<1>6. CASE CreateMissing(p)
  <2>1. RunTypeOK' /\ AtSomeUser'
    BY <1>6, NextUserType DEF CreateMissing
  <2>2. UserTypeOK'
    BY <1>2, <1>6, CreateUserType DEF CreateMissing
  <2> QED BY <1>6, <2>1, <2>2, SetKept, NoFaultType DEF CreateMissing
<1>7. CASE GrantRoles(p)
  <2>1. RunTypeOK' /\ AtSomeUser'
    BY <1>7, GoToType DEF GrantRoles, UserSteps
  <2>2. UserTypeOK'
    <3>1. RolesToAdd(p) \in SUBSET Role /\ User(p).name \in Name
      BY <1>2, <1>7 DEF GrantRoles, RolesToAdd, ConfigUser
    <3> QED BY <1>7, <3>1 DEF GrantRoles, UserTypeOK
  <2> QED BY <1>7, <2>1, <2>2, SetKept, NoFaultType DEF GrantRoles
<1>8. CASE RevokeRoles(p)
  <2>1. RunTypeOK' /\ AtSomeUser'
    BY <1>8, GoToType DEF RevokeRoles, UserSteps
  <2>2. UserTypeOK'
    BY <1>8 DEF RevokeRoles, UserTypeOK
  <2> QED BY <1>8, <2>1, <2>2, SetKept, NoFaultType DEF RevokeRoles
<1>9. CASE SetPassword(p)
  <2>1. pc[p] \in {"sync", "create", "revoke", "password"}
    BY <1>9 DEF SetPassword
  <2>2. RunTypeOK' /\ AtSomeUser'
    BY <1>9, <2>1, NextUserType DEF SetPassword
  <2>3. UserTypeOK'
    BY <1>2, <1>9, <2>1 DEF SetPassword, UserTypeOK, ConfigUser
  <2> QED BY <1>9, <2>2, <2>3, SetKept, NoFaultType DEF SetPassword
<1>10. CASE \E n \in Name : RemoveUser(p, n)
  <2> PICK n \in Name : RemoveUser(p, n)
    BY <1>10
  <2>1. RunTypeOK' /\ AtSomeUser'
    BY DEF RemoveUser, RunTypeOK, AtSomeUser
  <2>2. UserTypeOK'
    BY DEF RemoveUser, UserTypeOK
  <2> QED BY <2>1, <2>2, SetKept, NoFaultType DEF RemoveUser
<1>11. CASE Finish(p)
  <2>1. RunTypeOK' /\ AtSomeUser'
    BY <1>11, EndType DEF Finish, Resting
  <2> QED BY <1>11, <2>1, SetKept, UsersKept, NoFaultType DEF Finish
<1>12. CASE UserStepRefused(p)
  <2>1. RunTypeOK' /\ AtSomeUser'
    BY <1>12, EndType DEF UserStepRefused, Fail, Resting
  <2> QED BY <1>12, <2>1, SetKept, UsersKept, NoFaultType DEF UserStepRefused
<1>13. CASE NoPrimaryInTime(p)
  <2>1. RunTypeOK' /\ AtSomeUser'
    BY <1>13, EndType DEF NoPrimaryInTime, Fail, Resting
  <2>2. HistTypeOK' /\ BoundTypeOK'
    BY <1>13, NoFaultType, UseFaultType DEF NoPrimaryInTime
  <2> QED BY <1>13, <2>1, <2>2, SetKept, UsersKept DEF NoPrimaryInTime
<1> QED BY <1>3, <1>4, <1>5, <1>6, <1>7, <1>8, <1>9, <1>10, <1>11, <1>12, <1>13
        DEF SetupUsers

LEMMA EnvironmentType == TypeOK /\ Environment => TypeOK'
<1> SUFFICES ASSUME TypeOK, Environment PROVE TypeOK'
  OBVIOUS
<1> USE DEF TypeOK
<1>1. UNCHANGED procVars => RunTypeOK' /\ AtSomeUser'
  BY DEF procVars, runVars, RunTypeOK, AtSomeUser
<1>2. CASE Elect
  <2>1. SetTypeOK'
    BY <1>2 DEF Elect, SetTypeOK
  <2> QED BY <1>1, <1>2, <2>1, UsersKept, NoFaultType DEF Elect
<1>3. CASE LosePrimary
  <2>1. SetTypeOK'
    BY <1>3 DEF LosePrimary, SetTypeOK
  <2> QED BY <1>1, <1>3, <2>1, UsersKept, UseFaultType DEF LosePrimary
<1>4. CASE \E p \in Proc : Interrupt(p)
  <2> PICK p \in Proc : Interrupt(p)
    BY <1>4
  <2>1. RunTypeOK' /\ AtSomeUser'
    BY EndType DEF Interrupt, Fail, Resting
  <2> QED BY <2>1, SetKept, UsersKept, UseFaultType DEF Interrupt
<1>5. CASE \E p \in Proc, m \in Modes : Launch(p, m)
  <2> PICK p \in Proc, m \in Modes : Launch(p, m)
    BY <1>5
  <2>1. RunTypeOK' /\ AtSomeUser'
    BY DEF Launch, GoTo, RunTypeOK, AtSomeUser, SetTypeOK, SetSteps, UserSteps
  <2>2. HistTypeOK' /\ BoundTypeOK'
    BY DEF Launch, HistTypeOK, BoundTypeOK, boundVars
  <2> QED BY <2>1, <2>2, SetKept, UsersKept DEF Launch
<1>6. CASE \E c \in Configs : Edit(c)
  <2> PICK c \in Configs : Edit(c)
    BY <1>6
  <2>1. SetTypeOK' /\ HistTypeOK' /\ BoundTypeOK'
    BY BoundsAssumption
    DEF Edit, SetTypeOK, HistTypeOK, BoundTypeOK, setVars, histVars
  <2> QED BY <1>1, <2>1, UsersKept DEF Edit
<1> QED BY <1>2, <1>3, <1>4, <1>5, <1>6 DEF Environment

\* Every state of every run of the commands is well typed, and a run that sets
\* up users is at one of the configured ones.
THEOREM TypeCorrect == Spec => []TypeOK
<1>1. TypeOK /\ [Next]_vars => TypeOK'
  <2> SUFFICES ASSUME TypeOK, [Next]_vars PROVE TypeOK'
    OBVIOUS
  <2>1. CASE Environment
    BY <2>1, EnvironmentType
  <2>2. CASE \E p \in Proc : Run(p)
    BY <2>2, SetupSetType, SetupClusterAdminType, SetupUsersType DEF Run
  <2>3. CASE UNCHANGED vars
    BY <2>3 DEF vars, setVars, userVars, procVars, runVars, histVars, boundVars,
                TypeOK, SetTypeOK, UserTypeOK, RunTypeOK, HistTypeOK,
                BoundTypeOK, AtSomeUser
  <2> QED BY <2>1, <2>2, <2>3 DEF Next
<1> QED BY <1>1, InitType, PTL DEF Spec

-----------------------------------------------------------------------------
(***************************************************************************)
(* The admin keeps its rights.  AdminKeepsRights is not inductive: it says *)
(* nothing of what the runs hold.  AdminInv adds that every snapshot lists *)
(* the admin, that a snapshot showing userAdminAnyDatabase is still right  *)
(* about it, that a run about to revoke roles of the admin has granted     *)
(* that role first, and that no run is about to remove the admin.          *)
(***************************************************************************)

Root == AdminUser(First)
Granted == "userAdminAnyDatabase" \in roles[Root.name]

AdminCanLogIn ==
  /\ Authenticates(Root)
  /\ MayManageUsers(Root.name)

\* What run p relies on while it changes users.
RunIsSafe(p) ==
  /\ pc[p] \in {"sync", "create", "revoke", "password", "remove"} =>
       /\ Root.name \in snapUsers[p]
       /\ "userAdminAnyDatabase" \in snapRoles[p][Root.name] => Granted
  /\ pc[p] = "revoke" /\ User(p).name = Root.name => Granted
  /\ Root.name \notin left[p]

AdminInv == AdminCanLogIn /\ \A p \in Proc : RunIsSafe(p)

LEMMA RootType == Root \in ConfigUser /\ Root.password # NoUser
BY FirstWithType, ConfigsAssumption, PasswordAssumption
DEF Root, AdminUser, ConfigUser

\* The configured user with the name of the admin is the admin.
LEMMA ConfiguredAdmin ==
  ASSUME SameAdmin, NEW c \in Configs
  PROVE  /\ Root.name \in ConfigNames(c)
         /\ \A k \in DOMAIN c.users : c.users[k].name = Root.name =>
              /\ c.users[k].password = Root.password
              /\ "userAdminAnyDatabase" \in c.users[k].roles
<1>1. PICK a \in DOMAIN c.users : /\ AdminUser(c) = c.users[a]
                                  /\ "userAdminAnyDatabase" \in c.users[a].roles
  BY FirstWithIsUser DEF AdminUser
<1>2. c.users[a].name = Root.name /\ c.users[a].password = Root.password
  BY <1>1 DEF SameAdmin, Root
<1>3. \A k \in DOMAIN c.users : c.users[k].name = Root.name => k = a
  BY <1>2, ConfigsAssumption DEF IsConfig
<1> QED BY <1>1, <1>2, <1>3 DEF ConfigNames

LEMMA InitAdminInv == Init => AdminInv
<1> SUFFICES ASSUME Init PROVE AdminInv
  OBVIOUS
<1>1. AdminCanLogIn
  BY RootType DEF Init, AdminCanLogIn, Authenticates, MayManageUsers, Root, ConfigUser
<1>2. \A p \in Proc : RunIsSafe(p)
  BY DEF Init, RunIsSafe
<1> QED BY <1>1, <1>2 DEF AdminInv

\* A step of p that leaves the users as they are and p safe.
LEMMA OthersStaySafe ==
  ASSUME AdminInv, NEW p \in Proc, RunTypeOK,
         password'[Root.name] = password[Root.name],
         MayManageUsers(Root.name)', Granted => Granted',
         \A q \in Proc \ {p} :
           /\ pc'[q] = pc[q] /\ cfg'[q] = cfg[q] /\ at'[q] = at[q]
           /\ snapUsers'[q] = snapUsers[q] /\ snapRoles'[q] = snapRoles[q]
           /\ left'[q] = left[q],
         RunIsSafe(p)'
  PROVE  AdminInv'
<1>1. AdminCanLogIn'
  BY DEF AdminInv, AdminCanLogIn, Authenticates, Root
<1>2. ASSUME NEW q \in Proc, q # p PROVE RunIsSafe(q)'
  BY <1>2 DEF AdminInv, RunIsSafe, User, Root
<1> QED BY <1>1, <1>2 DEF AdminInv

LEMMA UsersUntouched ==
  ASSUME AdminInv, UNCHANGED userVars
  PROVE  /\ password'[Root.name] = password[Root.name]
         /\ MayManageUsers(Root.name)'
         /\ Granted' = Granted
BY DEF AdminInv, AdminCanLogIn, MayManageUsers, Granted, Root, userVars

LEMMA EndSafe ==
  ASSUME AdminInv, NEW p \in Proc, NEW o \in Resting, RunTypeOK, End(p, o),
         password'[Root.name] = password[Root.name],
         MayManageUsers(Root.name)', Granted => Granted'
  PROVE  AdminInv'
<1>1. RunIsSafe(p)'
  BY DEF End, GoTo, RunTypeOK, RunIsSafe, Resting, Root
<1> QED BY <1>1, OthersStaySafe DEF End, GoTo, RunTypeOK

\* A step to a place where nothing of the snapshot is used.
LEMMA QuietStepSafe ==
  ASSUME AdminInv, NEW p \in Proc, RunTypeOK,
         NEW q \in SetSteps \union {"checkCluster", "createCluster", "snapshot"},
         GoTo(p, q), UNCHANGED <<userVars, cfg, snapUsers, snapRoles, at, left>>
  PROVE  AdminInv'
<1>1. RunIsSafe(p)'
  BY DEF AdminInv, GoTo, RunTypeOK, RunIsSafe, SetSteps, Root
<1> QED BY <1>1, UsersUntouched, OthersStaySafe DEF GoTo, RunTypeOK

\* The loop over the configured users goes on.
LEMMA NextUserSafe ==
  ASSUME SameAdmin, AdminInv, NEW p \in Proc, RunTypeOK, NextUser(p),
         pc[p] \in {"sync", "create", "revoke", "password"},
         password'[Root.name] = password[Root.name],
         MayManageUsers(Root.name)', Granted => Granted'
  PROVE  AdminInv'
<1>1. Root.name \notin ToDelete(p)
  BY ConfiguredAdmin DEF ToDelete, RunTypeOK
<1>2. RunIsSafe(p)'
  <2>1. CASE at[p] < Len(cfg[p].users)
    BY <2>1 DEF AdminInv, RunIsSafe, NextUser, GoTo, RunTypeOK, Root
  <2>2. CASE ~(at[p] < Len(cfg[p].users))
    BY <1>1, <2>2 DEF AdminInv, RunIsSafe, NextUser, GoTo, RunTypeOK, Root
  <2> QED BY <2>1, <2>2
<1> QED BY <1>2, OthersStaySafe DEF NextUser, GoTo, RunTypeOK

\* A user that does not exist is not the admin.
LEMMA CreateOther ==
  ASSUME AdminInv, UserTypeOK, NEW u \in ConfigUser, CreateUser(u)
  PROVE  /\ password'[Root.name] = password[Root.name]
         /\ MayManageUsers(Root.name)'
         /\ Granted' = Granted
<1>1. u.name # Root.name
  BY RootType DEF AdminInv, AdminCanLogIn, Authenticates, CreateUser
<1>2. /\ password'[Root.name] = password[Root.name]
      /\ roles'[Root.name] = roles[Root.name]
  BY <1>1, RootType DEF CreateUser, UserTypeOK, ConfigUser
<1> QED BY <1>2 DEF AdminInv, AdminCanLogIn, MayManageUsers, Granted, Root

LEMMA SetupSetSafe ==
  ASSUME TypeOK, AdminInv, NEW p \in Proc, SetupSet(p) PROVE AdminInv'
<1> USE DEF TypeOK
<1>1. UNCHANGED userVars
  BY DEF SetupSet, ProbeAnswers, ProbeUnavailable, CompareMembers, Reconfig,
         Initiate, SetRefused, PrimarySeen, Ready, WaitTimesOut
<1>2. CASE Fail(p)
  BY <1>1, <1>2, EndSafe, UsersUntouched DEF Fail, Resting
<1>3. CASE /\ \E q \in SetSteps \union {"checkCluster"} : GoTo(p, q)
           /\ UNCHANGED <<cfg, snapUsers, snapRoles, at, left>>
  BY <1>1, <1>3, QuietStepSafe
<1>4. CASE UNCHANGED <<pc, mode, cfg, snapUsers, snapRoles, at, left>>
  <2>1. RunIsSafe(p)'
    BY <1>1, <1>4 DEF AdminInv, RunIsSafe, User, Granted, Root, userVars
  <2> QED BY <1>1, <1>4, <2>1, OthersStaySafe, UsersUntouched
<1> QED BY <1>2, <1>3, <1>4
        DEF SetupSet, ProbeAnswers, ProbeUnavailable, CompareMembers, Reconfig,
            Initiate, SetRefused, PrimarySeen, Ready, WaitTimesOut, SetSteps, runVars

LEMMA SetupClusterAdminSafe ==
  ASSUME TypeOK, AdminInv, NEW p \in Proc, SetupClusterAdmin(p) PROVE AdminInv'
<1> USE DEF TypeOK
<1>1. ClusterAdminUser(cfg[p]) \in ConfigUser
  BY FirstWithType DEF RunTypeOK, ClusterAdminUser
<1>2. /\ password'[Root.name] = password[Root.name]
      /\ MayManageUsers(Root.name)'
      /\ Granted' = Granted
  BY <1>1, CreateOther, UsersUntouched
  DEF SetupClusterAdmin, ClusterAdminExists, ClusterAdminMissing, CreateClusterAdmin
<1>3. CASE End(p, "done")
  BY <1>2, <1>3, EndSafe DEF Resting
<1>4. CASE /\ \E q \in {"createCluster", "snapshot"} : GoTo(p, q)
           /\ UNCHANGED runVars
  <2>1. RunIsSafe(p)'
    BY <1>4 DEF AdminInv, GoTo, RunTypeOK, RunIsSafe, Root, runVars
  <2> QED BY <1>2, <1>4, <2>1, OthersStaySafe DEF GoTo, RunTypeOK, runVars
<1> QED BY <1>3, <1>4
        DEF SetupClusterAdmin, ClusterAdminExists, ClusterAdminMissing,
            CreateClusterAdmin, AfterClusterAdmin

LEMMA SetupUsersSafe ==
  ASSUME SameAdmin, TypeOK, AdminInv, NEW p \in Proc, SetupUsers(p)
  PROVE  AdminInv'
<1> USE DEF TypeOK
<1>1. cfg[p] \in Configs
  BY DEF RunTypeOK
<1>2. ASSUME pc[p] \in {"sync", "create", "revoke", "password"}
      PROVE  /\ User(p) \in ConfigUser
             /\ User(p).name = Root.name =>
                  /\ User(p).password = Root.password
                  /\ "userAdminAnyDatabase" \in User(p).roles
  BY <1>1, <1>2, CurrentUserType, ConfiguredAdmin DEF AtSomeUser, User
<1>3. CASE TakeSnapshot(p)
  <2>1. Root.name \in snapUsers'[p] /\ snapRoles'[p] = roles
    BY <1>3, RootType
    DEF TakeSnapshot, RunTypeOK, AdminInv, AdminCanLogIn, Authenticates, ConfigUser
  <2>2. pc'[p] = "sync" /\ left' = left
    BY <1>3 DEF TakeSnapshot, GoTo, RunTypeOK
  <2>3. roles' = roles /\ Root.name \notin left[p]
    BY <1>3 DEF TakeSnapshot, userVars, AdminInv, RunIsSafe
  <2>4. RunIsSafe(p)'
    BY <2>1, <2>2, <2>3 DEF RunIsSafe, Granted, Root
  <2>5. UNCHANGED userVars /\ RunTypeOK
    BY <1>3 DEF TakeSnapshot, TypeOK
  <2>6. \A q \in Proc \ {p} :
          /\ pc'[q] = pc[q] /\ cfg'[q] = cfg[q] /\ at'[q] = at[q]
          /\ snapUsers'[q] = snapUsers[q] /\ snapRoles'[q] = snapRoles[q]
          /\ left'[q] = left[q]
    BY <1>3 DEF TakeSnapshot, GoTo, RunTypeOK
  <2> QED BY <2>4, <2>5, <2>6, OthersStaySafe, UsersUntouched
<1>4. CASE UserAppeared(p)
  BY <1>4, NextUserSafe, UsersUntouched DEF UserAppeared
<1>5. CASE UserMissing(p)
  <2>1. RunIsSafe(p)'
    BY <1>5 DEF UserMissing, AdminInv, RunIsSafe, Granted, Root, GoTo,
                RunTypeOK, runVars, userVars
  <2>2. UNCHANGED <<userVars, runVars>> /\ pc' = [pc EXCEPT ![p] = "create"]
    BY <1>5 DEF UserMissing, GoTo
  <2> QED BY <2>1, <2>2, OthersStaySafe, UsersUntouched DEF RunTypeOK, runVars
<1>6. CASE CreateMissing(p)
  BY <1>2, <1>6, NextUserSafe, CreateOther DEF CreateMissing
<1>7. CASE GrantRoles(p)
  <2>1. /\ password' = password
        /\ roles' = [roles EXCEPT ![User(p).name] = @ \union RolesToAdd(p)]
        /\ pc' = [pc EXCEPT ![p] = "revoke"]
        /\ pc[p] = "sync"
        /\ UNCHANGED runVars
    BY <1>7 DEF GrantRoles, GoTo
  <2>2. roles[Root.name] \subseteq roles'[Root.name]
    BY <1>2, <2>1, RootType DEF UserTypeOK, ConfigUser
  <2>3. MayManageUsers(Root.name)' /\ (Granted => Granted')
    BY <2>2 DEF AdminInv, AdminCanLogIn, MayManageUsers, Granted, Root
  <2>4. User(p).name = Root.name => Granted'
    BY <1>2, <2>1, <2>3, RootType
    DEF AdminInv, RunIsSafe, RolesToAdd, Granted, UserTypeOK, ConfigUser, Root
  <2>5. RunIsSafe(p)'
    BY <2>1, <2>3, <2>4
    DEF AdminInv, RunIsSafe, RunTypeOK, runVars, User, Root
  <2> QED BY <2>1, <2>3, <2>5, OthersStaySafe DEF RunTypeOK, runVars
<1>8. CASE RevokeRoles(p)
  <2>1. /\ password' = password
        /\ roles' = [roles EXCEPT ![User(p).name] = @ \ RolesToRemove(p)]
        /\ pc' = [pc EXCEPT ![p] = "password"]
        /\ pc[p] \in {"sync", "revoke"}
        /\ UNCHANGED runVars
    BY <1>8 DEF RevokeRoles, GoTo
  <2>2. User(p).name = Root.name => Granted
    BY <1>2, <1>8, <2>1
    DEF RevokeRoles, RolesGranted, RolesToAdd, AdminInv, RunIsSafe
  <2>3. Granted => Granted'
    BY <1>2, <2>1, RootType
    DEF Granted, RolesToRemove, UserTypeOK, ConfigUser, Root
  <2>4. MayManageUsers(Root.name)'
    <3>1. CASE User(p).name = Root.name
      BY <2>2, <2>3, <3>1 DEF Granted, MayManageUsers, Root
    <3>2. CASE User(p).name # Root.name
      <4>1. roles'[Root.name] = roles[Root.name]
        BY <2>1, <3>2, RootType DEF UserTypeOK, ConfigUser
      <4> QED BY <4>1 DEF AdminInv, AdminCanLogIn, MayManageUsers, Root
    <3> QED BY <3>1, <3>2
  <2>5. RunIsSafe(p)'
    BY <2>1, <2>3 DEF AdminInv, RunIsSafe, RunTypeOK, runVars, User, Root
  <2> QED BY <2>1, <2>3, <2>4, <2>5, OthersStaySafe DEF RunTypeOK, runVars
<1>9. CASE SetPassword(p)
  <2>1. pc[p] \in {"sync", "create", "revoke", "password"}
    BY <1>9 DEF SetPassword
  <2>2. password'[Root.name] = password[Root.name]
    BY <1>2, <1>9, <2>1, RootType
    DEF SetPassword, UserTypeOK, ConfigUser, AdminInv, AdminCanLogIn, Authenticates
  <2>3. MayManageUsers(Root.name)' /\ Granted' = Granted
    BY <1>9 DEF SetPassword, AdminInv, AdminCanLogIn, MayManageUsers, Granted, Root
  <2> QED BY <1>9, <2>1, <2>2, <2>3, NextUserSafe DEF SetPassword
<1>10. CASE \E n \in Name : RemoveUser(p, n)
  <2> PICK n \in Name : RemoveUser(p, n)
    BY <1>10
  <2>1. n # Root.name
    BY DEF RemoveUser, AdminInv, RunIsSafe
  <2>2. /\ password'[Root.name] = password[Root.name]
        /\ roles'[Root.name] = roles[Root.name]
    BY <2>1, RootType DEF RemoveUser, UserTypeOK, ConfigUser
  <2>3. MayManageUsers(Root.name)' /\ Granted' = Granted
    BY <2>2 DEF AdminInv, AdminCanLogIn, MayManageUsers, Granted, Root
  <2>4. RunIsSafe(p)'
    BY <2>3 DEF RemoveUser, AdminInv, RunIsSafe, RunTypeOK, User, Root
  <2> QED BY <2>2, <2>3, <2>4, OthersStaySafe DEF RemoveUser, RunTypeOK
<1>11. CASE Finish(p)
  BY <1>11, EndSafe, UsersUntouched DEF Finish, Resting
<1>12. CASE UserStepRefused(p)
  BY <1>12, EndSafe, UsersUntouched DEF UserStepRefused, Fail, Resting
<1>13. CASE NoPrimaryInTime(p)
  BY <1>13, EndSafe, UsersUntouched DEF NoPrimaryInTime, Fail, Resting
<1> QED BY <1>3, <1>4, <1>5, <1>6, <1>7, <1>8, <1>9, <1>10, <1>11, <1>12, <1>13
        DEF SetupUsers

LEMMA EnvironmentSafe == TypeOK /\ AdminInv /\ Environment => AdminInv'
<1> SUFFICES ASSUME TypeOK, AdminInv, Environment PROVE AdminInv'
  OBVIOUS
<1> USE DEF TypeOK
<1>1. UNCHANGED <<userVars, procVars>> => AdminInv'
  BY DEF userVars, procVars, runVars, AdminInv, AdminCanLogIn, Authenticates,
         MayManageUsers, RunIsSafe, Granted, User, Root
<1>2. CASE Elect \/ LosePrimary \/ \E c \in Configs : Edit(c)
  BY <1>1, <1>2 DEF Elect, LosePrimary, Edit
<1>3. CASE \E p \in Proc : Interrupt(p)
  BY <1>3, EndSafe, UsersUntouched DEF Interrupt, Fail, Resting
<1>4. CASE \E p \in Proc, m \in Modes : Launch(p, m)
  <2> PICK p \in Proc, m \in Modes : Launch(p, m)
    BY <1>4
  <2>1. RunIsSafe(p)'
    BY DEF Launch, GoTo, AdminInv, RunIsSafe, RunTypeOK, Root
  <2>2. UNCHANGED userVars
    BY DEF Launch
  <2>3. \A q \in Proc \ {p} :
          /\ pc'[q] = pc[q] /\ cfg'[q] = cfg[q] /\ at'[q] = at[q]
          /\ snapUsers'[q] = snapUsers[q] /\ snapRoles'[q] = snapRoles[q]
          /\ left'[q] = left[q]
    BY DEF Launch, GoTo, RunTypeOK
  <2> QED BY <2>1, <2>2, <2>3, OthersStaySafe, UsersUntouched
<1> QED BY <1>2, <1>3, <1>4 DEF Environment

\* As long as every configuration names the same admin, that user can log in
\* and manage users in every state of any number of concurrent, interrupted
\* and repeated runs of `start` and `setup-users`.
THEOREM AdminNeverLockedOut == Spec => []AdminKeepsRights
<1>1. CASE SameAdmin
  <2>1. TypeOK /\ AdminInv /\ [Next]_vars => AdminInv'
    <3> SUFFICES ASSUME TypeOK, AdminInv, [Next]_vars PROVE AdminInv'
      OBVIOUS
    <3>1. CASE Environment
      BY <3>1, EnvironmentSafe
    <3>2. CASE \E p \in Proc : Run(p)
      BY <1>1, <3>2, SetupSetSafe, SetupClusterAdminSafe, SetupUsersSafe DEF Run
    <3>3. CASE UNCHANGED vars
      BY <3>3 DEF vars, userVars, procVars, runVars, AdminInv, AdminCanLogIn,
                  Authenticates, MayManageUsers, RunIsSafe, Granted, User, Root
    <3> QED BY <3>1, <3>2, <3>3 DEF Next
  <2>2. AdminInv => AdminKeepsRights
    BY DEF AdminInv, AdminCanLogIn, AdminKeepsRights, Root
  <2> QED BY <2>1, <2>2, InitAdminInv, TypeCorrect, PTL DEF Spec
<1>2. CASE ~SameAdmin
  <2>1. AdminKeepsRights
    BY <1>2 DEF AdminKeepsRights
  <2>2. Spec => []AdminKeepsRights
    BY <2>1, PTL
  <2> QED BY <2>2
<1> QED BY <1>1, <1>2

-----------------------------------------------------------------------------
(***************************************************************************)
(* Of starts that race one goes on.  A run is doomed when what it has read *)
(* is no longer so and its next step will be refused.  Dooming another run *)
(* takes a step, creating a user or revoking a role, after which the run   *)
(* that took it is well; so there is always one that is.  A start that     *)
(* begins is well unless nobody may look at the set; then a setup-users is *)
(* on its way to create the cluster admin.                                 *)
(***************************************************************************)

Undisturbed == faults = 0 /\ edits = 0
ClusterAdmin == ClusterAdminUser(First)
Listed == {First.users[k] : k \in DOMAIN First.users}
Exists(n) == password[n] # NoUser
Looping == {"sync", "create", "revoke", "password"}

OneFile == file = First /\ \A p \in Proc : cfg[p] = First

\* The users that exist are those of the file; only the first one, which the image
\* created, may still have root instead of its roles, and has before there is a set.
DbAsListed ==
  /\ Authenticates(Root)
  /\ \A n \in Name : Exists(n) => \E u \in Listed : n = u.name
  /\ \A u \in Listed : Exists(u.name) =>
       /\ Authenticates(u)
       /\ u.roles \subseteq roles[u.name] \/ (u = Root /\ "root" \in roles[u.name])
  /\ rs = NoMembers => "root" \in roles[Root.name] /\ ~primary

\* What run p has read or done is still so.
RunHolds(p) ==
  /\ pc[p] \in Looping =>
       /\ \A n \in snapUsers[p] : Exists(n)
       /\ \A u \in Listed : u.roles \intersect snapRoles[p][u.name] \subseteq roles[u.name]
       /\ \A k \in DOMAIN First.users : k < at[p] => Exists(First.users[k].name)
  /\ pc[p] = "revoke" => User(p).roles \subseteq roles[User(p).name]
  /\ pc[p] = "remove" => \A u \in Listed : Exists(u.name)
  /\ left[p] = {}
  /\ pc[p] \in Resting => probe[p] = "cluster-admin"
  /\ mode[p] # "users" /\ pc[p] \in UserSteps => rs # NoMembers
  /\ mode[p] # "users" /\ pc[p] \in Looping \union {"snapshot", "remove"} =>
       Exists(ClusterAdmin.name)

\* The next step of run p will be refused.
Doomed(p) ==
  \/ /\ pc[p] = "probe" /\ ~MayManageSet(Root)
     /\ probe[p] = "cluster-admin" => ~MayManageSet(ClusterAdmin)
  \/ pc[p] \in {"members", "reconfig", "initiate", "primary"} /\ ~MayManageSet(Credential(p))
  \/ pc[p] = "initiate" /\ ~MayManageSet(Root)
  \/ pc[p] = "createCluster" /\ Exists(ClusterAdmin.name)
  \/ pc[p] = "create" /\ Exists(User(p).name)

Well(p) == mode[p] = "users" \/ (pc[p] # "failed" /\ ~Doomed(p))

\* Nobody may look at the set, and who is about to change that.
Closed == ~MayManageSet(Root) /\ ~MayManageSet(ClusterAdmin)
Opening(p) == mode[p] = "users" /\ pc[p] \in Looping /\ ~Doomed(p)

Held == OneFile /\ DbAsListed /\ \A p \in Proc : RunHolds(p)
Winner == (\E p \in Proc : Well(p)) /\ (Closed => \E p \in Proc : Opening(p))
RaceInv == Undisturbed => Held /\ Winner

LEMMA ListedFacts ==
  /\ Listed \subseteq ConfigUser
  /\ Root \in Listed /\ "userAdminAnyDatabase" \in Root.roles
  /\ ClusterAdmin \in Listed /\ "clusterAdmin" \in ClusterAdmin.roles
  /\ \A u, v \in Listed : u.name = v.name => u = v
  /\ \A u \in Listed : u.password # NoUser /\ u.name \in Name /\ u.roles \in SUBSET Role
<1>1. First \in Configs
  BY ConfigsAssumption
<1>2. Listed \subseteq ConfigUser
  BY <1>1, UsersType DEF Listed
<1>3. Root \in Listed /\ "userAdminAnyDatabase" \in Root.roles
  BY <1>1, FirstWithIsUser DEF Root, AdminUser, Listed
<1>4. ClusterAdmin \in Listed /\ "clusterAdmin" \in ClusterAdmin.roles
  BY <1>1, FirstWithIsUser DEF ClusterAdmin, ClusterAdminUser, Listed
<1>5. \A u, v \in Listed : u.name = v.name => u = v
  BY ConfigsAssumption DEF IsConfig, Listed
<1>6. \A u \in Listed : u.password # NoUser /\ u.name \in Name /\ u.roles \in SUBSET Role
  BY <1>2, PasswordAssumption DEF ConfigUser
<1> QED BY <1>2, <1>3, <1>4, <1>5, <1>6

\* The admin may manage the users; the cluster admin, once there, the set.
AdminsRule ==
  /\ Authenticates(Root) /\ MayManageUsers(Root.name) /\ Exists(Root.name)
  /\ MayManageSet(ClusterAdmin) <=> Exists(ClusterAdmin.name)
  /\ rs = NoMembers => ~Closed /\ ~primary
  /\ Closed => ~Exists(ClusterAdmin.name)

LEMMA Rights == DbAsListed => AdminsRule
<1> SUFFICES ASSUME DbAsListed PROVE AdminsRule
  OBVIOUS
<1>1. Authenticates(Root) /\ Exists(Root.name)
  BY ListedFacts DEF DbAsListed, Exists, Authenticates
<1>2. MayManageUsers(Root.name)
  BY <1>1, ListedFacts DEF DbAsListed, MayManageUsers
<1>3. ASSUME Exists(ClusterAdmin.name) PROVE MayManageSet(ClusterAdmin)
  BY <1>3, ListedFacts DEF DbAsListed, MayManageSet
<1>4. ASSUME MayManageSet(ClusterAdmin) PROVE Exists(ClusterAdmin.name)
  BY <1>4, ListedFacts DEF MayManageSet, Authenticates, Exists
<1>5. "root" \in roles[Root.name] => MayManageSet(Root)
  BY <1>1 DEF MayManageSet
<1> QED BY <1>1, <1>2, <1>3, <1>4, <1>5 DEF Closed, DbAsListed, AdminsRule

LEMMA RightsNext == DbAsListed' => AdminsRule'
BY Rights, PTL

LEMMA InitRaceInv == Init => RaceInv
<1> SUFFICES ASSUME Init PROVE Held /\ Winner
  BY DEF RaceInv
<1>1. OneFile
  BY DEF Init, OneFile
<1>2. DbAsListed
  <2>1. \A n \in Name : Exists(n) => n = Root.name
    BY DEF Init, Exists, Root
  <2>2. Root.name \in Name /\ Authenticates(Root) /\ "root" \in roles[Root.name]
    BY ListedFacts DEF Init, Authenticates, Root
  <2> QED BY <2>1, <2>2, ListedFacts DEF DbAsListed, Init
<1>3. \A p \in Proc : RunHolds(p)
  BY DEF Init, RunHolds, Looping, UserSteps
<1>4. \A p \in Proc : Well(p)
  BY DEF Init, Well, Doomed
<1>5. ~Closed
  BY <1>2, Rights DEF Init, AdminsRule
<1> QED BY <1>1, <1>2, <1>3, <1>4, <1>5, ProcAssumption DEF Held, Winner

-----------------------------------------------------------------------------
\* A step of p leaves what the other runs hold.
OthersKept(p) ==
  \A q \in Proc \ {p} :
    /\ pc'[q] = pc[q] /\ mode'[q] = mode[q] /\ cfg'[q] = cfg[q]
    /\ probe'[q] = probe[q] /\ at'[q] = at[q] /\ left'[q] = left[q]
    /\ snapUsers'[q] = snapUsers[q] /\ snapRoles'[q] = snapRoles[q]

\* No user and no configured role of one is lost.
Grows ==
  /\ \A n \in Name : Exists(n) => password'[n] = password[n]
  /\ \A u \in Listed : u.roles \intersect roles[u.name] \subseteq roles'[u.name]
  /\ rs # NoMembers => rs' # NoMembers

\* Nothing another run has read changes, but roles it may gain.
Spares ==
  /\ password' = password
  /\ \A n \in Name : roles[n] \subseteq roles'[n]
  /\ rs # NoMembers => rs' # NoMembers

\* Who a run with the one file acts as and on.
LEMMA Whose ==
  ASSUME NEW p \in Proc, cfg[p] = First
  PROVE  /\ AdminUser(cfg[p]) = Root /\ ClusterAdminUser(cfg[p]) = ClusterAdmin
         /\ probe[p] = "cluster-admin" => Credential(p) = ClusterAdmin
         /\ probe[p] # "cluster-admin" => Credential(p) = Root
BY DEF Root, ClusterAdmin, Credential

LEMMA UserIsListed ==
  ASSUME TypeOK, OneFile, NEW p \in Proc, pc[p] \in Looping
  PROVE  /\ User(p) \in Listed /\ User(p) = First.users[at[p]]
         /\ at[p] \in DOMAIN First.users
BY DEF TypeOK, AtSomeUser, OneFile, Looping, User, Listed

LEMMA SparesGrows ==
  ASSUME Spares, Listed \subseteq ConfigUser PROVE Grows
BY DEF Spares, Grows, ConfigUser

LEMMA HeldByOthers ==
  ASSUME TypeOK, Held, NEW p \in Proc, OthersKept(p), Grows, OneFile', DbAsListed',
         RunHolds(p)'
  PROVE  Held'
<1> SUFFICES ASSUME NEW q \in Proc \ {p} PROVE RunHolds(q)'
  BY DEF Held
<1>1. RunHolds(q) /\ cfg[q] = First
  BY DEF Held, OneFile
<1>2. \A n \in Name : Exists(n) => Exists(n)'
  BY DEF Grows, Exists
<1>3. snapUsers[q] \subseteq Name /\ ClusterAdmin.name \in Name
  BY ListedFacts DEF TypeOK, RunTypeOK
<1>4. \A u \in Listed : Exists(u.name) => Exists(u.name)'
  BY <1>2, ListedFacts
<1>5. \A k \in DOMAIN First.users : First.users[k] \in Listed
  BY DEF Listed
<1>6. CASE pc[q] \in Looping
  <2>1. User(q) \in Listed /\ User(q)' = User(q)
    BY <1>6, UserIsListed DEF Held, OthersKept, User
  <2>2. \A n \in snapUsers[q] : Exists(n)'
    BY <1>1, <1>2, <1>3, <1>6 DEF RunHolds
  <2>3. \A u \in Listed : u.roles \intersect snapRoles[q][u.name] \subseteq roles'[u.name]
    BY <1>1, <1>6 DEF RunHolds, Grows
  <2>4. \A k \in DOMAIN First.users : k < at[q] => Exists(First.users[k].name)'
    BY <1>1, <1>4, <1>5, <1>6 DEF RunHolds
  <2>5. pc[q] = "revoke" => User(q).roles \subseteq roles'[User(q).name]
    BY <1>1, <2>1 DEF RunHolds, Grows
  <2>6. Exists(ClusterAdmin.name) => Exists(ClusterAdmin.name)'
    BY <1>2, <1>3
  <2> QED BY <1>1, <1>6, <2>1, <2>2, <2>3, <2>4, <2>5, <2>6
          DEF RunHolds, OthersKept, Looping, Resting, Grows
<1>7. CASE pc[q] \notin Looping
  <2>1. Exists(ClusterAdmin.name) => Exists(ClusterAdmin.name)'
    BY <1>2, <1>3
  <2>2. pc[q] = "remove" => \A u \in Listed : Exists(u.name)'
    BY <1>1, <1>4 DEF RunHolds
  <2> QED BY <1>1, <1>7, <2>1, <2>2 DEF RunHolds, OthersKept, Looping, Grows
<1> QED BY <1>6, <1>7

\* What a sparing step leaves of the others.
LEMMA SparedOthers ==
  ASSUME TypeOK, Held, NEW p \in Proc, OthersKept(p), Spares, NEW q \in Proc \ {p}
  PROVE  /\ Well(q) => Well(q)'
         /\ Opening(q) => Opening(q)'
<1>1. cfg[q] = First /\ cfg'[q] = First
  BY DEF Held, OneFile, OthersKept
<1>2. \A u \in Listed : MayManageSet(u) => MayManageSet(u)'
  BY ListedFacts DEF Spares, MayManageSet, Authenticates
<1>3. Credential(q)' = Credential(q) /\ Credential(q) \in Listed
  BY <1>1, Whose, ListedFacts DEF Credential, OthersKept
<1>4. MayManageSet(Root) => MayManageSet(Root)'
  BY <1>2, ListedFacts
<1>5. MayManageSet(ClusterAdmin) => MayManageSet(ClusterAdmin)'
  BY <1>2, ListedFacts
<1>6. MayManageSet(Credential(q)) => MayManageSet(Credential(q))'
  BY <1>2, <1>3 DEF MayManageSet, Authenticates
<1>7. Exists(ClusterAdmin.name)' => Exists(ClusterAdmin.name)
  BY DEF Exists, Spares
<1>8. Exists(User(q).name)' => Exists(User(q).name)
  BY <1>1 DEF Exists, Spares, User, OthersKept
<1>9. Doomed(q)' => Doomed(q)
  BY <1>4, <1>5, <1>6, <1>7, <1>8 DEF Doomed, OthersKept
<1> QED BY <1>9 DEF Well, Opening, OthersKept

\* A step of p that costs no other run anything, and p neither.
LEMMA SparingStep ==
  ASSUME TypeOK, Held, Winner, NEW p \in Proc, OthersKept(p), Spares,
         OneFile', DbAsListed', RunHolds(p)',
         Well(p) => Well(p)', Closed' /\ Opening(p) => Opening(p)'
  PROVE  Held' /\ Winner'
<1>1. Held'
  BY HeldByOthers, SparesGrows, ListedFacts
<1>2. \E q \in Proc : Well(q)'
  BY SparedOthers DEF Winner
<1>3. \A u \in Listed : MayManageSet(u) => MayManageSet(u)'
  BY ListedFacts DEF Spares, MayManageSet, Authenticates
<1>4. Closed' => Closed
  BY <1>3, ListedFacts DEF Closed
<1>5. Closed' => \E q \in Proc : Opening(q)'
  BY <1>4, SparedOthers DEF Winner
<1> QED BY <1>1, <1>2, <1>5 DEF Winner

\* A step of p that may doom others, but after which p itself is well.
LEMMA ClaimingStep ==
  ASSUME TypeOK, Held, NEW p \in Proc, OthersKept(p), Grows,
         OneFile', DbAsListed', RunHolds(p)',
         Well(p)', Closed' => Opening(p)'
  PROVE  Held' /\ Winner'
<1>1. Held'
  BY HeldByOthers
<1> QED BY <1>1 DEF Winner

-----------------------------------------------------------------------------
\* The users stay, and the set is kept or has members.
LEMMA DbKept ==
  ASSUME DbAsListed, UNCHANGED userVars,
         rs' # NoMembers \/ UNCHANGED setVars
  PROVE  DbAsListed'
<1>1. password' = password /\ roles' = roles
  BY DEF userVars
<1>2. rs' = NoMembers => rs = NoMembers /\ primary' = primary
  BY DEF setVars
<1> QED BY <1>1, <1>2 DEF DbAsListed, Authenticates, Exists, Root

LEMMA QuietSpares ==
  ASSUME UNCHANGED userVars, rs' = rs \/ rs' # NoMembers PROVE Spares
BY DEF Spares, userVars

LEMMA GoToFrame ==
  ASSUME RunTypeOK, OneFile, NEW p \in Proc, NEW q, GoTo(p, q),
         UNCHANGED <<file, mode, runVars>>
  PROVE  OthersKept(p) /\ OneFile' /\ pc'[p] = q
BY DEF RunTypeOK, OneFile, GoTo, runVars, OthersKept

LEMMA EndFrame ==
  ASSUME RunTypeOK, OneFile, NEW p \in Proc, NEW o, End(p, o), UNCHANGED file
  PROVE  /\ OthersKept(p) /\ OneFile' /\ pc'[p] = o /\ mode' = mode
         /\ left'[p] = {} /\ probe'[p] = "cluster-admin"
<1>1. /\ pc' = [pc EXCEPT ![p] = o] /\ cfg' = [cfg EXCEPT ![p] = First]
      /\ probe' = [probe EXCEPT ![p] = "cluster-admin"]
      /\ left' = [left EXCEPT ![p] = {}]
      /\ snapUsers' = [snapUsers EXCEPT ![p] = {}]
      /\ snapRoles' = [snapRoles EXCEPT ![p] = NoRoles]
      /\ at' = [at EXCEPT ![p] = 0] /\ mode' = mode
  BY DEF End, GoTo
<1>2. OthersKept(p)
  BY <1>1 DEF RunTypeOK, OthersKept
<1>3. OneFile'
  BY <1>1 DEF RunTypeOK, OneFile
<1> QED BY <1>1, <1>2, <1>3 DEF RunTypeOK

\* A run that has ended holds nothing and is not doomed.
LEMMA RestingHolds ==
  ASSUME NEW p \in Proc, pc'[p] \in Resting, left'[p] = {},
         probe'[p] = "cluster-admin"
  PROVE  RunHolds(p)' /\ ~Doomed(p)' /\ ~Opening(p)'
BY DEF RunHolds, Doomed, Opening, Looping, Resting, UserSteps

\* A run ends that need not have gone on.
LEMMA EndStep ==
  ASSUME TypeOK, Held, Winner, NEW p \in Proc, NEW o \in {"done", "failed"},
         End(p, o), UNCHANGED <<file, setVars, userVars>>,
         o = "done" \/ ~Well(p) \/ mode[p] = "users",
         Closed' => ~Opening(p)
  PROVE  Held' /\ Winner'
<1>1. /\ OthersKept(p) /\ OneFile' /\ pc'[p] = o /\ mode' = mode
      /\ left'[p] = {} /\ probe'[p] = "cluster-admin"
  BY EndFrame DEF TypeOK, Held
<1>2. RunHolds(p)' /\ ~Doomed(p)'
  BY <1>1, RestingHolds DEF Resting
<1>3. DbAsListed' /\ Spares
  BY DbKept, QuietSpares DEF Held, setVars
<1>4. Well(p) => Well(p)'
  BY <1>1, <1>2 DEF Well
<1> QED BY <1>1, <1>2, <1>3, <1>4, SparingStep

\* A step outside the loop over the users, to a place where p is well.
LEMMA GoOnStep ==
  ASSUME TypeOK, Held, Winner, NEW p \in Proc, NEW q, GoTo(p, q),
         UNCHANGED <<file, userVars, mode, runVars>>,
         rs' # NoMembers \/ UNCHANGED setVars,
         q \in SetSteps \union {"checkCluster", "createCluster", "snapshot"},
         pc[p] \notin Looping,
         mode[p] # "users" /\ q \notin SetSteps => rs' # NoMembers,
         mode[p] # "users" /\ q = "snapshot" => Exists(ClusterAdmin.name),
         Well(p) => ~Doomed(p)'
  PROVE  Held' /\ Winner'
<1>1. OthersKept(p) /\ OneFile' /\ pc'[p] = q /\ mode' = mode /\ left' = left
  BY GoToFrame DEF TypeOK, Held, runVars
<1>2. DbAsListed' /\ Spares
  BY DbKept, QuietSpares DEF Held, setVars
<1>3. RunHolds(p)'
  <2>1. left[p] = {}
    BY DEF Held, RunHolds
  <2>2. Exists(ClusterAdmin.name)' = Exists(ClusterAdmin.name)
    BY DEF Exists, userVars, ClusterAdmin
  <2> QED BY <1>1, <2>1, <2>2 DEF RunHolds, Looping, SetSteps, UserSteps, Resting
<1>4. Well(p) => Well(p)'
  BY <1>1 DEF Well, SetSteps
<1>5. ~Opening(p)
  BY DEF Opening
<1> QED BY <1>1, <1>2, <1>3, <1>4, <1>5, SparingStep

\* The loop goes on with p well: it is at work on the users still, or they all exist.
LEMMA LoopStep ==
  ASSUME TypeOK, Held, NEW p \in Proc, pc[p] \in Looping, NextUser(p), Grows,
         UNCHANGED <<file, setVars>>, DbAsListed', password'[User(p).name] # NoUser
  PROVE  Held' /\ Winner'
<1>1. /\ cfg[p] = First /\ file = First /\ RunHolds(p) /\ DbAsListed
      /\ User(p) = First.users[at[p]] /\ at[p] \in 1..Len(First.users)
      /\ Len(First.users) \in Nat /\ DOMAIN First.users = 1..Len(First.users)
  BY UserIsListed, UsersType, ConfigsAssumption DEF Held, OneFile
<1>2. /\ mode' = mode /\ cfg' = cfg /\ probe' = probe
      /\ snapUsers' = snapUsers /\ snapRoles' = snapRoles
      /\ \A q \in Proc \ {p} : at'[q] = at[q] /\ pc'[q] = pc[q] /\ left'[q] = left[q]
  BY DEF NextUser, GoTo, TypeOK, RunTypeOK
<1>3. OthersKept(p) /\ OneFile'
  BY <1>1, <1>2 DEF OthersKept, OneFile, Held
<1>4. \A n \in Name : Exists(n) => Exists(n)'
  BY DEF Grows, Exists
<1>5. \A k \in DOMAIN First.users : First.users[k] \in Listed /\ First.users[k].name \in Name
  BY ListedFacts DEF Listed
<1>6. \A k \in DOMAIN First.users : k <= at[p] => Exists(First.users[k].name)'
  <2>1. \A k \in DOMAIN First.users : k < at[p] => Exists(First.users[k].name)'
    BY <1>1, <1>4, <1>5 DEF RunHolds
  <2>2. \A k \in DOMAIN First.users : k = at[p] => Exists(First.users[k].name)'
    BY <1>1 DEF Exists
  <2> QED BY <1>1, <2>1, <2>2
<1>7. Exists(ClusterAdmin.name) => ~Closed'
  BY <1>4, ListedFacts, RightsNext DEF AdminsRule
<1>8. CASE at[p] < Len(First.users)
  <2>1. at'[p] = at[p] + 1 /\ pc'[p] = "sync" /\ left'[p] = left[p]
    BY <1>1, <1>8 DEF NextUser, GoTo, TypeOK, RunTypeOK
  <2>2. \A n \in snapUsers[p] : Exists(n)'
    BY <1>1, <1>4 DEF RunHolds, TypeOK, RunTypeOK
  <2>3. \A u \in Listed : u.roles \intersect snapRoles[p][u.name] \subseteq roles'[u.name]
    BY <1>1 DEF RunHolds, Grows
  <2>4. \A k \in DOMAIN First.users : k < at'[p] => Exists(First.users[k].name)'
    BY <1>1, <1>6, <2>1
  <2>5. mode[p] # "users" => Exists(ClusterAdmin.name) /\ rs # NoMembers
    BY <1>1 DEF RunHolds, Looping, UserSteps
  <2>6. mode[p] # "users" => Exists(ClusterAdmin.name)' /\ rs' # NoMembers
    BY <1>4, <2>5, ListedFacts DEF setVars
  <2>7. RunHolds(p)'
    BY <1>1, <1>2, <2>1, <2>2, <2>3, <2>4, <2>6 DEF RunHolds, Looping, Resting
  <2>8. ~Doomed(p)'
    BY <2>1 DEF Doomed
  <2>9. Well(p)' /\ (Closed' => Opening(p)')
    BY <1>2, <1>7, <2>1, <2>5, <2>8 DEF Well, Opening, Looping
  <2> QED BY <1>3, <2>7, <2>9, ClaimingStep
<1>9. CASE ~(at[p] < Len(First.users))
  <2>1. pc'[p] = "remove" /\ left'[p] = ToDelete(p)
    BY <1>1, <1>9 DEF NextUser, GoTo, TypeOK, RunTypeOK
  <2>2. \A u \in Listed : Exists(u.name)'
    BY <1>1, <1>6, <1>9 DEF Listed
  <2>3. ToDelete(p) = {}
    <3>1. \A n \in snapUsers[p] : n \in Name /\ Exists(n)
      BY <1>1 DEF RunHolds, TypeOK, RunTypeOK
    <3>2. \A n \in snapUsers[p] : n \in ConfigNames(First)
      BY <1>1, <3>1 DEF DbAsListed, Listed, ConfigNames
    <3> QED BY <1>1, <3>2 DEF ToDelete
  <2>4. mode[p] # "users" => rs # NoMembers
    BY <1>1 DEF RunHolds, Looping, UserSteps
  <2>5. RunHolds(p)'
    BY <1>2, <2>1, <2>2, <2>3, <2>4, ListedFacts
    DEF RunHolds, Looping, Resting, setVars
  <2>6. ~Closed'
    BY <2>2, ListedFacts, RightsNext DEF AdminsRule
  <2>7. Well(p)'
    BY <2>1 DEF Well, Doomed
  <2> QED BY <1>3, <2>5, <2>6, <2>7, ClaimingStep
<1> QED BY <1>8, <1>9

-----------------------------------------------------------------------------
\* The steps of setupReplicaSet.
LEMMA SetupSetRace ==
  ASSUME TypeOK, Held, Winner, Undisturbed', NEW p \in Proc, SetupSet(p)
  PROVE  Held' /\ Winner'
<1>0. /\ cfg[p] = First /\ RunHolds(p) /\ DbAsListed /\ AdminsRule
      /\ AdminUser(cfg[p]) = Root /\ faults \in Nat
      /\ probe[p] = "cluster-admin" => Credential(p) = ClusterAdmin
      /\ probe[p] # "cluster-admin" => Credential(p) = Root
  BY Rights, Whose DEF Held, OneFile, TypeOK, BoundTypeOK
<1>1. CASE ProbeAnswers(p)
  <2>1. MayManageSet(Credential(p)) /\ UNCHANGED <<file, setVars, userVars, mode, runVars>>
    BY <1>1 DEF ProbeAnswers
  <2>2. CASE rs = NoMembers
    <3>1. MayManageSet(Root)
      BY <1>0, <2>2 DEF DbAsListed, MayManageSet, AdminsRule
    <3>2. GoTo(p, "initiate") /\ pc'[p] = "initiate"
      BY <1>1, <2>2 DEF ProbeAnswers, GoTo, TypeOK, RunTypeOK
    <3>3. ~Doomed(p)'
      BY <2>1, <3>1, <3>2
      DEF Doomed, MayManageSet, Authenticates, Credential, userVars, runVars, Root
    <3> QED BY <1>1, <2>1, <3>2, <3>3, GoOnStep DEF ProbeAnswers, SetSteps, Looping
  <2>3. CASE rs # NoMembers
    <3>1. GoTo(p, "members") /\ pc'[p] = "members"
      BY <1>1, <2>3 DEF ProbeAnswers, GoTo, TypeOK, RunTypeOK
    <3>2. ~Doomed(p)'
      BY <2>1, <3>1
      DEF Doomed, MayManageSet, Authenticates, Credential, userVars, runVars
    <3> QED BY <1>1, <2>1, <3>1, <3>2, GoOnStep DEF ProbeAnswers, SetSteps, Looping
  <2> QED BY <2>2, <2>3
<1>2. CASE ProbeUnavailable(p)
  <2>1. /\ pc[p] = "probe" /\ ~MayManageSet(Credential(p))
        /\ UNCHANGED <<file, setVars, userVars>>
    BY <1>2 DEF ProbeUnavailable
  <2>2. CASE probe[p] = "cluster-admin"
    <3>1. /\ probe' = [probe EXCEPT ![p] = "admin"]
          /\ UNCHANGED <<pc, mode, cfg, snapUsers, snapRoles, at, left>>
      BY <1>2, <2>2 DEF ProbeUnavailable
    <3>2. OthersKept(p) /\ OneFile' /\ probe'[p] = "admin"
      BY <2>1, <3>1 DEF OthersKept, OneFile, Held, TypeOK, RunTypeOK
    <3>3. RunHolds(p)'
      BY <1>0, <2>1, <3>1, <3>2 DEF RunHolds, Looping, Resting, UserSteps
    <3>4. ~Doomed(p) => MayManageSet(Root)
      BY <1>0, <2>1, <2>2 DEF Doomed
    <3>5. MayManageSet(Root) => ~Doomed(p)'
      BY <2>1, <3>1, <3>2 DEF Doomed, MayManageSet, Authenticates, userVars, Root
    <3>6. Well(p) => Well(p)'
      BY <2>1, <3>1, <3>4, <3>5 DEF Well
    <3>7. ~Opening(p)
      BY <2>1 DEF Opening, Looping
    <3>8. DbAsListed' /\ Spares
      BY <1>0, <2>1, DbKept, QuietSpares DEF setVars
    <3> QED BY <3>2, <3>3, <3>6, <3>7, <3>8, SparingStep
  <2>3. CASE probe[p] # "cluster-admin"
    <3>1. End(p, "failed")
      BY <1>2, <2>3 DEF ProbeUnavailable, Fail
    <3>2. Doomed(p)
      BY <1>0, <2>1, <2>3 DEF Doomed
    <3> QED BY <2>1, <3>1, <3>2, EndStep DEF Well, Opening
  <2> QED BY <2>2, <2>3
<1>3. CASE CompareMembers(p)
  <2>1. /\ MayManageSet(Credential(p)) /\ pc[p] = "members"
        /\ UNCHANGED <<file, setVars, userVars, mode, runVars>>
    BY <1>3 DEF CompareMembers
  <2>2. PICK q \in {"primary", "reconfig"} : GoTo(p, q)
    BY <1>3 DEF CompareMembers
  <2>3. pc'[p] = q
    BY <2>2 DEF GoTo, TypeOK, RunTypeOK
  <2>4. ~Doomed(p)'
    BY <2>1, <2>3
    DEF Doomed, MayManageSet, Authenticates, Credential, userVars, runVars
  <2> QED BY <2>1, <2>2, <2>4, GoOnStep DEF SetSteps, Looping
<1>4. CASE Reconfig(p)
  <2>1. /\ MayManageSet(Credential(p)) /\ pc[p] = "reconfig" /\ GoTo(p, "primary")
        /\ UNCHANGED <<file, userVars, mode, runVars>> /\ pc'[p] = "primary"
    BY <1>4 DEF Reconfig, GoTo, TypeOK, RunTypeOK
  <2>2. rs' # NoMembers
    BY <1>0, <1>4, UsersType, ConfigsAssumption DEF Reconfig, NoMembers
  <2>3. ~Doomed(p)'
    BY <2>1 DEF Doomed, MayManageSet, Authenticates, Credential, userVars, runVars
  <2> QED BY <2>1, <2>2, <2>3, GoOnStep DEF SetSteps, Looping
<1>5. CASE Initiate(p)
  <2>1. /\ MayManageSet(Root) /\ pc[p] = "initiate" /\ GoTo(p, "primary")
        /\ UNCHANGED <<file, userVars, mode, runVars>> /\ pc'[p] = "primary"
    BY <1>0, <1>5 DEF Initiate, GoTo, TypeOK, RunTypeOK
  <2>2. rs' # NoMembers
    BY <1>0, <1>5, UsersType, ConfigsAssumption DEF Initiate, NoMembers
  <2>3. MayManageSet(Credential(p)) => ~Doomed(p)'
    BY <2>1 DEF Doomed, MayManageSet, Authenticates, Credential, userVars, runVars
  <2>4. ~Doomed(p) => MayManageSet(Credential(p))
    BY <2>1 DEF Doomed
  <2>5. CASE mode[p] = "users"
    <3>1. /\ OthersKept(p) /\ OneFile' /\ DbAsListed' /\ Spares
          /\ mode' = mode /\ left' = left
      BY <1>0, <2>1, <2>2, GoToFrame, DbKept, QuietSpares DEF Held, TypeOK, runVars
    <3>2. RunHolds(p)'
      BY <1>0, <2>1, <3>1 DEF RunHolds, Looping, Resting, UserSteps
    <3> QED BY <2>1, <2>5, <3>1, <3>2, SparingStep DEF Well, Opening, Looping
  <2>6. CASE mode[p] # "users"
    BY <2>1, <2>2, <2>3, <2>4, <2>6, GoOnStep DEF SetSteps, Looping, Well
  <2> QED BY <2>5, <2>6
<1>6. CASE SetRefused(p)
  <2>1. Doomed(p)
    BY <1>0, <1>6 DEF SetRefused, Doomed
  <2> QED BY <1>6, <2>1, EndStep DEF SetRefused, Fail, Well, Opening
<1>7. CASE PrimarySeen(p)
  <2>1. /\ pc[p] = "primary" /\ GoTo(p, "ready") /\ pc'[p] = "ready"
        /\ UNCHANGED <<file, setVars, userVars, mode, runVars>>
    BY <1>7 DEF PrimarySeen, GoTo, TypeOK, RunTypeOK
  <2>2. ~Doomed(p)'
    BY <2>1 DEF Doomed
  <2> QED BY <2>1, <2>2, GoOnStep DEF SetSteps, Looping
<1>8. CASE Ready(p)
  <2>1. /\ pc[p] = "ready" /\ GoTo(p, "checkCluster") /\ pc'[p] = "checkCluster"
        /\ UNCHANGED <<file, setVars, userVars, mode, runVars>> /\ primary
    BY <1>8 DEF Ready, GoTo, TypeOK, RunTypeOK
  <2>2. ~Doomed(p)'
    BY <2>1 DEF Doomed
  <2>3. rs' # NoMembers
    BY <1>0, <2>1 DEF AdminsRule, setVars
  <2> QED BY <2>1, <2>2, <2>3, GoOnStep DEF Looping
<1>9. CASE WaitTimesOut(p)
  <2>1. primary
    BY <1>0, <1>9 DEF WaitTimesOut, UseFault, Undisturbed
  <2>2. Doomed(p)
    BY <1>0, <1>9, <2>1 DEF WaitTimesOut, Doomed, AdminsRule
  <2> QED BY <1>9, <2>2, EndStep DEF WaitTimesOut, Fail, Well, Opening
<1> QED BY <1>1, <1>2, <1>3, <1>4, <1>5, <1>6, <1>7, <1>8, <1>9 DEF SetupSet

-----------------------------------------------------------------------------
\* Creating a configured user loses nothing.
LEMMA CreateHolds ==
  ASSUME TypeOK, DbAsListed, NEW u \in Listed, CreateUser(u),
         UNCHANGED setVars
  PROVE  /\ Grows /\ DbAsListed' /\ password'[u.name] # NoUser
<1>1. /\ u.name \in Name /\ u.password # NoUser /\ u.roles \in SUBSET Role
      /\ \A n \in Name : n # u.name => password'[n] = password[n] /\ roles'[n] = roles[n]
      /\ password'[u.name] = u.password /\ roles'[u.name] = u.roles
      /\ password[u.name] = NoUser
  BY ListedFacts DEF CreateUser, TypeOK, UserTypeOK
<1>2. Grows
  BY <1>1, ListedFacts DEF Grows, Exists, setVars
<1>3. u # Root
  BY <1>1, Rights DEF AdminsRule, Exists
<1>4. u.name # Root.name
  BY <1>3, ListedFacts
<1>5. DbAsListed'
  <2>1. Authenticates(Root)'
    BY <1>1, <1>4, ListedFacts DEF DbAsListed, Authenticates, Root
  <2>2. \A n \in Name : Exists(n)' => \E v \in Listed : n = v.name
    BY <1>1 DEF DbAsListed, Exists
  <2>3. ASSUME NEW v \in Listed, Exists(v.name)'
        PROVE  /\ Authenticates(v)'
               /\ v.roles \subseteq roles'[v.name] \/ (v = Root /\ "root" \in roles'[v.name])
    <3>1. CASE v = u
      BY <1>1, <3>1 DEF Authenticates
    <3>2. CASE v # u
      BY <1>1, <2>3, <3>2, ListedFacts DEF DbAsListed, Exists, Authenticates
    <3> QED BY <3>1, <3>2
  <2>4. rs' = NoMembers => "root" \in roles'[Root.name] /\ ~primary'
    BY <1>1, <1>4, ListedFacts DEF DbAsListed, setVars
  <2> QED BY <2>1, <2>2, <2>3, <2>4 DEF DbAsListed, Root
<1> QED BY <1>1, <1>2, <1>5

\* The steps of setupUser for the cluster admin.
LEMMA SetupClusterAdminRace ==
  ASSUME TypeOK, Held, Winner, NEW p \in Proc, SetupClusterAdmin(p)
  PROVE  Held' /\ Winner'
<1>0. /\ cfg[p] = First /\ RunHolds(p) /\ DbAsListed /\ AdminsRule
      /\ AdminUser(cfg[p]) = Root /\ ClusterAdminUser(cfg[p]) = ClusterAdmin
  BY Rights, Whose DEF Held, OneFile
<1>1. CASE ClusterAdminExists(p)
  <2>1. /\ pc[p] = "checkCluster" /\ Exists(ClusterAdmin.name)
        /\ UNCHANGED <<file, setVars, userVars>> /\ primary
    BY <1>0, <1>1 DEF ClusterAdminExists, Exists
  <2>2. CASE mode[p] = "start"
    BY <1>1, <2>1, <2>2, EndStep
    DEF ClusterAdminExists, AfterClusterAdmin, Opening, Looping
  <2>3. CASE mode[p] # "start"
    <3>1. GoTo(p, "snapshot") /\ UNCHANGED <<mode, runVars>> /\ pc'[p] = "snapshot"
      BY <1>1, <2>3 DEF ClusterAdminExists, AfterClusterAdmin, GoTo, TypeOK, RunTypeOK
    <3>2. rs' # NoMembers /\ ~Doomed(p)'
      BY <1>0, <2>1, <3>1 DEF AdminsRule, Doomed, setVars
    <3> QED BY <2>1, <3>1, <3>2, GoOnStep DEF Looping
  <2> QED BY <2>2, <2>3
<1>2. CASE ClusterAdminMissing(p)
  <2>1. /\ pc[p] = "checkCluster" /\ ~Exists(ClusterAdmin.name) /\ primary
        /\ UNCHANGED <<file, setVars, userVars, mode, runVars>>
        /\ GoTo(p, "createCluster") /\ pc'[p] = "createCluster"
    BY <1>0, <1>2 DEF ClusterAdminMissing, Exists, GoTo, TypeOK, RunTypeOK
  <2>2. rs' # NoMembers /\ ~Doomed(p)'
    BY <1>0, <2>1 DEF AdminsRule, Doomed, setVars, Exists, userVars, ClusterAdmin
  <2> QED BY <2>1, <2>2, GoOnStep DEF Looping
<1>3. CASE CreateClusterAdmin(p)
  <2>1. /\ pc[p] = "createCluster" /\ CreateUser(ClusterAdmin) /\ primary
        /\ UNCHANGED <<file, setVars>> /\ AfterClusterAdmin(p)
    BY <1>0, <1>3 DEF CreateClusterAdmin
  <2>2. Grows /\ DbAsListed' /\ password'[ClusterAdmin.name] # NoUser
    BY <1>0, <2>1, CreateHolds, ListedFacts
  <2>3. ~Closed' /\ Exists(ClusterAdmin.name)'
    BY <2>2, RightsNext DEF AdminsRule, Exists, ClusterAdmin
  <2>4. CASE mode[p] = "start"
    <3>1. End(p, "done")
      BY <2>1, <2>4 DEF AfterClusterAdmin
    <3>2. /\ OthersKept(p) /\ OneFile' /\ pc'[p] = "done" /\ mode' = mode
          /\ left'[p] = {} /\ probe'[p] = "cluster-admin"
      BY <2>1, <3>1, EndFrame DEF TypeOK, Held
    <3>3. RunHolds(p)' /\ Well(p)'
      BY <3>2, RestingHolds DEF Resting, Well
    <3> QED BY <2>2, <2>3, <3>2, <3>3, ClaimingStep
  <2>5. CASE mode[p] # "start"
    <3>1. GoTo(p, "snapshot") /\ UNCHANGED <<mode, runVars>>
      BY <2>1, <2>5 DEF AfterClusterAdmin
    <3>2. OthersKept(p) /\ OneFile' /\ pc'[p] = "snapshot"
      BY <2>1, <3>1, GoToFrame DEF TypeOK, Held
    <3>3. rs' # NoMembers
      BY <1>0, <2>1 DEF AdminsRule, setVars
    <3>4. RunHolds(p)'
      BY <1>0, <2>3, <3>1, <3>2, <3>3 DEF RunHolds, Looping, Resting, runVars
    <3>5. Well(p)'
      BY <3>2 DEF Well, Doomed
    <3> QED BY <2>2, <2>3, <3>2, <3>4, <3>5, ClaimingStep
  <2> QED BY <2>4, <2>5
<1> QED BY <1>1, <1>2, <1>3 DEF SetupClusterAdmin

-----------------------------------------------------------------------------
\* A step that only changes the roles of the user p is at, and keeps its configured ones.
LEMMA RolesStep ==
  ASSUME TypeOK, Held, NEW p \in Proc, pc[p] \in Looping, primary,
         NEW R \in SUBSET Role, roles' = [roles EXCEPT ![User(p).name] = R],
         User(p).roles \subseteq R, UNCHANGED <<password, setVars>>
  PROVE  Grows /\ DbAsListed'
<1>1. /\ User(p) \in Listed /\ DbAsListed /\ AdminsRule
      /\ User(p).name \in Name
  BY UserIsListed, Rights, ListedFacts DEF Held
<1>2. /\ roles'[User(p).name] = R
      /\ \A n \in Name : n # User(p).name => roles'[n] = roles[n]
  BY <1>1 DEF TypeOK, UserTypeOK
<1>3. \A u \in Listed : u.roles \intersect roles[u.name] \subseteq roles'[u.name]
  BY <1>1, <1>2, ListedFacts
<1>4. Grows
  BY <1>3 DEF Grows, setVars
<1>5. \A u \in Listed : Exists(u.name)' =>
        /\ Authenticates(u)'
        /\ u.roles \subseteq roles'[u.name] \/ (u = Root /\ "root" \in roles'[u.name])
  BY <1>1, <1>2, ListedFacts DEF DbAsListed, Exists, Authenticates
<1>6. rs' # NoMembers
  BY <1>1 DEF AdminsRule, setVars
<1> QED BY <1>1, <1>4, <1>5, <1>6 DEF DbAsListed, Exists, Authenticates, Root

\* The steps of setupMongoUsers.
LEMMA SetupUsersRace ==
  ASSUME TypeOK, Held, Winner, Undisturbed', NEW p \in Proc, SetupUsers(p)
  PROVE  Held' /\ Winner'
<1>0. /\ cfg[p] = First /\ RunHolds(p) /\ DbAsListed /\ AdminsRule
      /\ AdminUser(cfg[p]) = Root /\ ClusterAdminUser(cfg[p]) = ClusterAdmin
      /\ faults \in Nat /\ Session(p) /\ Login(p)
  BY Rights, Whose DEF Held, OneFile, TypeOK, BoundTypeOK, AdminsRule, Session, Login
<1>1. pc[p] \in Looping => User(p) \in Listed /\ User(p).name \in Name
  BY UserIsListed, ListedFacts DEF Held
<1>2. CASE TakeSnapshot(p)
  <2>1. /\ pc[p] = "snapshot" /\ primary /\ UNCHANGED <<file, setVars, userVars>>
        /\ UNCHANGED <<mode, cfg, probe, left>>
        /\ snapUsers' = [snapUsers EXCEPT ![p] = {n \in Name : password[n] # NoUser}]
        /\ snapRoles' = [snapRoles EXCEPT ![p] = roles]
        /\ at' = [at EXCEPT ![p] = 1] /\ pc' = [pc EXCEPT ![p] = "sync"]
    BY <1>2 DEF TakeSnapshot, GoTo
  <2>2. /\ OthersKept(p) /\ OneFile' /\ pc'[p] = "sync" /\ at'[p] = 1
        /\ snapRoles'[p] = roles /\ \A n \in snapUsers'[p] : Exists(n)
    BY <2>1 DEF OthersKept, OneFile, Held, TypeOK, RunTypeOK, Exists
  <2>3. /\ DbAsListed' /\ Spares
        /\ \A n : Exists(n)' <=> Exists(n)
    BY <1>0, <2>1, DbKept, QuietSpares DEF setVars, userVars, Exists
  <2>4. mode[p] # "users" => Exists(ClusterAdmin.name)' /\ rs' # NoMembers
    BY <1>0, <2>1, <2>3 DEF RunHolds, UserSteps, setVars
  <2>5. \A k \in DOMAIN First.users : ~(k < 1)
    BY UsersType, ConfigsAssumption
  <2>6. RunHolds(p)'
    BY <1>0, <2>1, <2>2, <2>3, <2>4, <2>5 DEF RunHolds, Looping, Resting, userVars
  <2>7. Well(p)'
    BY <2>2 DEF Well, Doomed
  <2>8. ~Opening(p)
    BY <2>1 DEF Opening, Looping
  <2> QED BY <2>2, <2>3, <2>6, <2>7, <2>8, SparingStep
<1>3. CASE UserAppeared(p)
  <2>1. /\ pc[p] = "sync" /\ UNCHANGED <<file, setVars, userVars>> /\ NextUser(p)
        /\ password'[User(p).name] # NoUser
    BY <1>3 DEF UserAppeared, userVars
  <2>2. Grows /\ DbAsListed'
    BY <1>0, <2>1, DbKept, QuietSpares, SparesGrows, ListedFacts DEF setVars
  <2> QED BY <2>1, <2>2, LoopStep DEF Looping
<1>4. CASE UserMissing(p)
  <2>1. /\ pc[p] = "sync" /\ password[User(p).name] = NoUser /\ GoTo(p, "create")
        /\ UNCHANGED <<file, setVars, userVars, mode, runVars>>
    BY <1>4 DEF UserMissing
  <2>2. OthersKept(p) /\ OneFile' /\ pc'[p] = "create"
    BY <2>1, GoToFrame DEF TypeOK, Held
  <2>3. DbAsListed' /\ Spares
    BY <1>0, <2>1, DbKept, QuietSpares DEF setVars
  <2>4. RunHolds(p)'
    BY <1>0, <2>1, <2>2 DEF RunHolds, Looping, Resting, UserSteps, userVars, setVars, runVars, Exists, ClusterAdmin
  <2>5. ~Doomed(p)'
    BY <2>1, <2>2 DEF Doomed, Exists, User, userVars, runVars
  <2>6. Well(p)' /\ (Opening(p) => Opening(p)')
    BY <2>1, <2>2, <2>5 DEF Well, Opening, Looping
  <2> QED BY <2>2, <2>3, <2>4, <2>6, SparingStep
<1>5. CASE CreateMissing(p)
  <2>1. /\ pc[p] = "create" /\ CreateUser(User(p)) /\ NextUser(p)
        /\ UNCHANGED <<file, setVars>>
    BY <1>5 DEF CreateMissing
  <2>2. Grows /\ DbAsListed' /\ password'[User(p).name] # NoUser
    BY <1>0, <1>1, <2>1, CreateHolds DEF Looping
  <2> QED BY <2>1, <2>2, LoopStep DEF Looping
<1>6. CASE GrantRoles(p)
  <2> DEFINE u == User(p)
             R == roles[u.name] \union RolesToAdd(p)
  <2>1. /\ pc[p] = "sync" /\ primary /\ GoTo(p, "revoke")
        /\ roles' = [roles EXCEPT ![u.name] = R]
        /\ UNCHANGED <<file, setVars, password, mode, runVars>>
    BY <1>6 DEF GrantRoles
  <2>2. u \in Listed /\ u.roles \in SUBSET Role /\ u.name \in Name
    BY <1>1, <2>1, ListedFacts DEF Looping
  <2>3. R \in SUBSET Role /\ u.roles \subseteq R
    <3>1. u.roles \intersect snapRoles[p][u.name] \subseteq roles[u.name]
      BY <1>0, <2>1, <2>2 DEF RunHolds, Looping
    <3> QED BY <2>2, <3>1 DEF RolesToAdd, TypeOK, UserTypeOK
  <2>4. Grows /\ DbAsListed'
    BY <2>1, <2>3, RolesStep DEF Looping
  <2>5. OthersKept(p) /\ OneFile' /\ pc'[p] = "revoke"
    BY <2>1, GoToFrame DEF TypeOK, Held
  <2>6. roles'[u.name] = R /\ Spares
    BY <2>1, <2>2 DEF Spares, setVars, TypeOK, UserTypeOK
  <2>7. RunHolds(p)'
    <3>1. User(p)' = u
      BY <2>1 DEF User, runVars
    <3>2. \A v \in Listed : v.roles \intersect snapRoles[p][v.name] \subseteq roles'[v.name]
      BY <1>0, <2>1, <2>6, ListedFacts DEF RunHolds, Looping, Spares
    <3>3. u.roles \subseteq roles'[u.name]
      BY <2>3, <2>6
    <3>4. \A n : Exists(n)' <=> Exists(n)
      BY <2>1 DEF Exists
    <3> QED BY <1>0, <2>1, <2>5, <3>1, <3>2, <3>3, <3>4
            DEF RunHolds, Looping, Resting, UserSteps, setVars, runVars
  <2>8. Well(p)' /\ (Opening(p) => Opening(p)')
    BY <2>1, <2>5 DEF Well, Opening, Looping, Doomed
  <2> QED BY <2>4, <2>5, <2>6, <2>7, <2>8, SparingStep
<1>7. CASE RevokeRoles(p)
  <2> DEFINE u == User(p)
             R == roles[u.name] \ RolesToRemove(p)
  <2>1. /\ pc[p] \in {"sync", "revoke"} /\ primary /\ GoTo(p, "password")
        /\ RolesGranted(p) /\ roles' = [roles EXCEPT ![u.name] = R]
        /\ UNCHANGED <<file, setVars, password, mode, runVars>>
    BY <1>7 DEF RevokeRoles
  <2>2. u \in Listed /\ u.roles \in SUBSET Role /\ u.name \in Name
    BY <1>1, <2>1, ListedFacts DEF Looping
  <2>3. u.roles \subseteq roles[u.name]
    BY <1>0, <2>1, <2>2 DEF RunHolds, Looping, RolesGranted, RolesToAdd
  <2>4. R \in SUBSET Role /\ u.roles \subseteq R
    BY <2>2, <2>3 DEF RolesToRemove, TypeOK, UserTypeOK
  <2>5. Grows /\ DbAsListed'
    BY <2>1, <2>4, RolesStep DEF Looping
  <2>6. OthersKept(p) /\ OneFile' /\ pc'[p] = "password"
    BY <2>1, GoToFrame DEF TypeOK, Held
  <2>7. \A n : Exists(n)' <=> Exists(n)
    BY <2>1 DEF Exists
  <2>8. RunHolds(p)'
    <3>1. \A v \in Listed : v.roles \intersect snapRoles[p][v.name] \subseteq roles'[v.name]
      BY <1>0, <2>1, <2>5 DEF RunHolds, Looping, Grows
    <3> QED BY <1>0, <2>1, <2>6, <2>7, <3>1
            DEF RunHolds, Looping, Resting, UserSteps, setVars, runVars
  <2>9. Well(p)' /\ (mode[p] = "users" => Opening(p)')
    BY <2>1, <2>6 DEF Well, Opening, Looping, Doomed
  <2>10. mode[p] # "users" => ~Closed'
    BY <1>0, <2>1, <2>5, <2>7, RightsNext DEF RunHolds, Looping, AdminsRule
  <2> QED BY <2>5, <2>6, <2>8, <2>9, <2>10, ClaimingStep
<1>8. CASE SetPassword(p)
  <2>1. /\ pc[p] \in Looping /\ NextUser(p) /\ password[User(p).name] # NoUser
        /\ password' = [password EXCEPT ![User(p).name] = User(p).password]
        /\ UNCHANGED <<file, setVars, roles>>
    BY <1>8 DEF SetPassword, Looping
  <2>2. password[User(p).name] = User(p).password
    BY <1>0, <1>1, <2>1 DEF DbAsListed, Exists, Authenticates
  <2>3. password' = password
    BY <1>1, <2>1, <2>2 DEF TypeOK, UserTypeOK
  <2>4. Grows /\ DbAsListed' /\ password'[User(p).name] # NoUser
    BY <1>0, <2>1, <2>3, DbKept, QuietSpares, SparesGrows, ListedFacts DEF setVars, userVars
  <2> QED BY <2>1, <2>4, LoopStep
<1>9. ASSUME NEW n \in Name, RemoveUser(p, n) PROVE FALSE
  BY <1>0, <1>9 DEF RemoveUser, RunHolds
<1>10. CASE Finish(p)
  BY <1>10, EndStep DEF Finish, Opening, Looping
<1>11. CASE UserStepRefused(p)
  <2>1. /\ primary /\ Fail(p) /\ UNCHANGED <<file, setVars, userVars>>
    BY <1>11 DEF UserStepRefused
  <2>2. \/ pc[p] = "createCluster" /\ Exists(ClusterAdmin.name)
        \/ pc[p] = "create" /\ Exists(User(p).name)
        \/ /\ pc[p] \in {"sync", "revoke", "password"}
           /\ Existing(p) /\ ~Exists(User(p).name)
    BY <1>0, <1>11 DEF UserStepRefused, RunHolds, Exists
  <2>3. Doomed(p)
    BY <1>0, <2>2 DEF Doomed, RunHolds, Looping, Existing
  <2> QED BY <2>1, <2>3, EndStep DEF Fail, Well, Opening
<1>12. CASE NoPrimaryInTime(p)
  <2>1. rs = NoMembers /\ Fail(p) /\ UNCHANGED <<file, setVars, userVars>>
        /\ pc[p] \in UserSteps
    BY <1>0, <1>12 DEF NoPrimaryInTime, UseFault, Undisturbed
  <2>2. mode[p] = "users"
    BY <1>0, <2>1 DEF RunHolds
  <2>3. ~Closed'
    BY <1>0, <2>1, DbKept, RightsNext DEF AdminsRule, setVars
  <2> QED BY <2>1, <2>2, <2>3, EndStep DEF Fail
<1> QED BY <1>2, <1>3, <1>4, <1>5, <1>6, <1>7, <1>8, <1>9, <1>10, <1>11, <1>12
        DEF SetupUsers

-----------------------------------------------------------------------------
\* The set, the operator, and a run that begins.
LEMMA EnvironmentRace ==
  ASSUME TypeOK, Held, Winner, Undisturbed', Environment
  PROVE  Held' /\ Winner'
<1>0. /\ DbAsListed /\ AdminsRule /\ faults \in Nat /\ edits \in Nat
  BY Rights DEF Held, TypeOK, BoundTypeOK
<1>1. CASE Elect
  <2>1. PICK p \in Proc : TRUE
    BY ProcAssumption
  <2>2. UNCHANGED <<file, rs, userVars, procVars>> /\ rs # NoMembers
    BY <1>1 DEF Elect
  <2>3. OthersKept(p) /\ OneFile' /\ Spares /\ DbAsListed'
    BY <1>0, <2>2, DbKept, QuietSpares
    DEF OthersKept, OneFile, Held, procVars, runVars
  <2>4. RunHolds(p)' /\ (Well(p) => Well(p)') /\ (Opening(p) => Opening(p)')
    <3>1. RunHolds(p)
      BY DEF Held
    <3>2. RunHolds(p)'
      BY <2>2, <3>1 DEF RunHolds, Exists, User, procVars, runVars, userVars, ClusterAdmin
    <3>3. Doomed(p)' = Doomed(p)
      BY <2>2 DEF Doomed, MayManageSet, Authenticates, Credential, Exists, User,
                  procVars, runVars, userVars, Root, ClusterAdmin
    <3> QED BY <2>2, <3>2, <3>3 DEF Well, Opening, procVars
  <2> QED BY <2>3, <2>4, SparingStep
<1>2. CASE LosePrimary
  BY <1>0, <1>2 DEF LosePrimary, UseFault, Undisturbed
<1>3. ASSUME NEW p \in Proc, Interrupt(p) PROVE Held' /\ Winner'
  BY <1>0, <1>3 DEF Interrupt, UseFault, Undisturbed
<1>4. ASSUME NEW p \in Proc, NEW m \in Modes, Launch(p, m) PROVE Held' /\ Winner'
  <2>1. /\ pc[p] \in Resting /\ mode' = [mode EXCEPT ![p] = m]
        /\ cfg' = [cfg EXCEPT ![p] = file]
        /\ pc' = [pc EXCEPT ![p] = IF m = "users" THEN "snapshot" ELSE "probe"]
        /\ UNCHANGED <<file, setVars, userVars, probe, snapUsers, snapRoles, at, left>>
    BY <1>4 DEF Launch, GoTo
  <2>2. /\ OthersKept(p) /\ OneFile' /\ mode'[p] = m
        /\ pc'[p] = IF m = "users" THEN "snapshot" ELSE "probe"
    BY <2>1 DEF OthersKept, OneFile, Held, TypeOK, RunTypeOK
  <2>3. DbAsListed' /\ Spares
    BY <1>0, <2>1, DbKept, QuietSpares DEF setVars
  <2>4. probe[p] = "cluster-admin" /\ left[p] = {}
    BY <2>1 DEF Held, RunHolds
  <2>5. RunHolds(p)'
    BY <2>1, <2>2, <2>4 DEF RunHolds, Looping, Resting, UserSteps
  <2>6. Held'
    BY <2>2, <2>3, <2>5, HeldByOthers, SparesGrows, ListedFacts
  <2>7. Closed' <=> Closed
    BY <2>1 DEF Closed, MayManageSet, Authenticates, userVars, Root, ClusterAdmin
  <2>8. CASE Closed
    <3>1. PICK q \in Proc : Opening(q)
      BY <2>8 DEF Winner
    <3>2. q # p
      BY <2>1, <3>1 DEF Opening, Resting, Looping
    <3>3. Opening(q)' /\ Well(q)'
      BY <2>2, <2>3, <3>1, <3>2, SparedOthers DEF Opening, Well
    <3> QED BY <2>6, <3>3 DEF Winner
  <2>9. CASE ~Closed
    <3>1. ~Doomed(p)'
      BY <2>1, <2>2, <2>4, <2>7, <2>9 DEF Doomed, Closed
    <3>2. Well(p)'
      BY <2>2, <3>1 DEF Well
    <3> QED BY <2>6, <2>7, <2>9, <3>2 DEF Winner
  <2> QED BY <2>8, <2>9
<1>5. ASSUME NEW c \in Configs, Edit(c) PROVE Held' /\ Winner'
  BY <1>0, <1>5 DEF Edit, Undisturbed
<1> QED BY <1>1, <1>2, <1>3, <1>4, <1>5 DEF Environment

\* Faults and edits are only ever counted up.
LEMMA UndisturbedBefore ==
  ASSUME TypeOK, [Next]_vars, Undisturbed' PROVE Undisturbed
<1>1. faults \in Nat /\ edits \in Nat
  BY DEF TypeOK, BoundTypeOK
<1>2. CASE Environment
  BY <1>1, <1>2 DEF Environment, Elect, LosePrimary, Interrupt, Launch, Edit,
                    UseFault, NoFault, boundVars, Undisturbed
<1>3. ASSUME NEW p \in Proc, Run(p) PROVE Undisturbed
  <2>1. NoFault \/ UseFault
    BY <1>3 DEF Run, SetupSet, SetupClusterAdmin, SetupUsers, ProbeAnswers,
      ProbeUnavailable, CompareMembers, Reconfig, Initiate, SetRefused, PrimarySeen,
      Ready, WaitTimesOut, ClusterAdminExists, ClusterAdminMissing,
      CreateClusterAdmin, TakeSnapshot, UserAppeared, UserMissing, CreateMissing,
      GrantRoles, RevokeRoles, SetPassword, RemoveUser, Finish, UserStepRefused,
      NoPrimaryInTime
  <2> QED BY <1>1, <2>1 DEF NoFault, UseFault, boundVars, Undisturbed
<1>4. CASE UNCHANGED vars
  BY <1>4 DEF vars, boundVars, Undisturbed
<1> QED BY <1>2, <1>3, <1>4 DEF Next

LEMMA RaceInvHolds == TypeOK /\ RaceInv /\ [Next]_vars => RaceInv'
<1> SUFFICES ASSUME TypeOK, RaceInv, [Next]_vars, Undisturbed' PROVE (Held /\ Winner)'
  BY DEF RaceInv
<1>1. Held /\ Winner
  BY UndisturbedBefore DEF RaceInv
<1>2. CASE Environment
  BY <1>1, <1>2, EnvironmentRace
<1>3. ASSUME NEW p \in Proc, Run(p) PROVE (Held /\ Winner)'
  BY <1>1, <1>3, SetupSetRace, SetupClusterAdminRace, SetupUsersRace DEF Run
<1>4. CASE UNCHANGED vars
  <2> USE <1>4 DEF vars, setVars, userVars, procVars, runVars
  <2>1. Held'
    BY <1>1 DEF Held, OneFile, DbAsListed, RunHolds, Exists, Authenticates, User,
                Root, ClusterAdmin
  <2>2. \A p \in Proc : Doomed(p)' = Doomed(p)
    BY DEF Doomed, MayManageSet, Authenticates, Credential, Exists, User, Root, ClusterAdmin
  <2>3. Closed' = Closed
    BY DEF Closed, MayManageSet, Authenticates, Root, ClusterAdmin
  <2> QED BY <1>1, <2>1, <2>2, <2>3 DEF Winner, Well, Opening
<1> QED BY <1>2, <1>3, <1>4 DEF Next

\* Of any number of starts, with and without the users and beside setups of the users,
\* in any order of their steps, one has not failed, as long as nothing else interferes.
THEOREM RaceAlwaysHasWinner == Spec => []RaceHasWinner
<1>1. RaceInv => RaceHasWinner
  BY DEF RaceInv, Undisturbed, Winner, Well, RaceHasWinner
<1> QED BY <1>1, InitRaceInv, RaceInvHolds, TypeCorrect, PTL DEF Spec

-----------------------------------------------------------------------------
(***************************************************************************)
(* A run that has the set to itself.  What it read, what it has done and   *)
(* what is left to do then add up to what its configuration says.          *)
(***************************************************************************)

AsListed(u) == Authenticates(u) /\ roles[u.name] = u.roles

\* The name of a user the loop is through with.
Through(p, n) == \E j \in DOMAIN cfg[p].users : j < at[p] /\ cfg[p].users[j].name = n

\* Users before the current one are as configured, those after it as in the snapshot,
\* and the current one is in between.
LoopHolds(p) ==
  /\ \A j \in DOMAIN cfg[p].users : j < at[p] => AsListed(cfg[p].users[j])
  /\ \A n \in Name : ~Through(p, n) => (Exists(n) <=> n \in snapUsers[p])
  /\ \A n \in Name :
       Through(p, n) \/ (n = User(p).name /\ pc[p] \in {"revoke", "password"})
         \/ roles[n] = snapRoles[p][n]
  /\ pc[p] = "create" => ~Existing(p)
  /\ pc[p] \in {"revoke", "password"} => Existing(p)
  /\ pc[p] = "revoke" =>
       roles[User(p).name] = snapRoles[p][User(p).name] \union User(p).roles
  /\ pc[p] = "password" => roles[User(p).name] = User(p).roles

\* Those that are not configured are still to be removed.
RemovalHolds(p) ==
  /\ \A k \in DOMAIN cfg[p].users : AsListed(cfg[p].users[k])
  /\ \A n \in Name : n \notin ConfigNames(cfg[p]) => (Exists(n) <=> n \in left[p])
  /\ left[p] \cap ConfigNames(cfg[p]) = {}

\* What it found out about the set is still so.
SetHolds(p) ==
  /\ pc[p] \in SetSteps \union {"checkCluster", "createCluster"} => mode[p] # "users"
  /\ pc[p] = "probe" /\ probe[p] = "admin" => ~MayManageSet(ClusterAdminUser(cfg[p]))
  /\ pc[p] \in {"members", "reconfig", "initiate", "primary"} => MayManageSet(Credential(p))
  /\ pc[p] = "initiate" => rs = NoMembers
  /\ mode[p] # "users" /\ pc[p] \in {"primary", "ready"} \union UserSteps =>
       rs = cfg[p].members
  /\ pc[p] = "createCluster" => ~Exists(ClusterAdminUser(cfg[p]).name)

RunAlone(p) ==
  solo[p] /\ pc[p] \notin Resting =>
    /\ \A q \in Proc \ {p} : pc[q] \in Resting
    /\ SetHolds(p)
    /\ pc[p] \in Looping => LoopHolds(p)
    /\ pc[p] = "remove" => RemovalHolds(p)

\* A run starts with the credential of the cluster admin.
FreshProbes == \A p \in Proc : pc[p] \in Resting => probe[p] = "cluster-admin"

SoloInv == FreshProbes /\ \A p \in Proc : RunAlone(p)

\* Before there is a set nobody can log in to change users.
FirstAdminIsRoot ==
  rs = NoMembers => ~primary /\ "root" \in roles[Root.name]

-----------------------------------------------------------------------------
\* Run p takes a step, or the others only end.
LEMMA RunFrame ==
  ASSUME RunTypeOK, NEW p \in Proc, Run(p) \/ Interrupt(p)
  PROVE  OthersKept(p) /\ solo' = solo /\ pc[p] \notin Resting
<1> USE DEF RunTypeOK, OthersKept, Resting
<1>1. ASSUME NEW o, End(p, o) PROVE OthersKept(p)
  BY <1>1 DEF End, GoTo
<1>2. ASSUME NEW q, GoTo(p, q), UNCHANGED <<mode, runVars>> PROVE OthersKept(p)
  BY <1>2 DEF GoTo, runVars
<1>3. NextUser(p) => OthersKept(p)
  BY DEF NextUser, GoTo
<1>4. NoFault \/ UseFault => solo' = solo
  BY DEF NoFault, UseFault, histVars
<1>5. CASE SetupSet(p)
  BY <1>1, <1>2, <1>4, <1>5
  DEF SetupSet, ProbeAnswers, ProbeUnavailable, CompareMembers, Reconfig, Initiate,
      SetRefused, PrimarySeen, Ready, WaitTimesOut, Fail
<1>6. CASE SetupClusterAdmin(p)
  BY <1>1, <1>2, <1>4, <1>6
  DEF SetupClusterAdmin, ClusterAdminExists, ClusterAdminMissing, CreateClusterAdmin,
      AfterClusterAdmin
<1>7. CASE SetupUsers(p)
  <2>1. CASE TakeSnapshot(p)
    BY <1>4, <2>1 DEF TakeSnapshot, GoTo
  <2>2. CASE UserAppeared(p) \/ CreateMissing(p) \/ SetPassword(p)
    BY <1>3, <1>4, <2>2 DEF UserAppeared, CreateMissing, SetPassword
  <2>3. CASE UserMissing(p) \/ GrantRoles(p) \/ RevokeRoles(p)
    BY <1>2, <1>4, <2>3 DEF UserMissing, GrantRoles, RevokeRoles
  <2>4. CASE \E n \in Name : RemoveUser(p, n)
    BY <1>4, <2>4 DEF RemoveUser
  <2>5. CASE Finish(p) \/ UserStepRefused(p) \/ NoPrimaryInTime(p)
    BY <1>1, <1>4, <2>5 DEF Finish, UserStepRefused, NoPrimaryInTime, Fail, UserSteps
  <2> QED BY <1>7, <2>1, <2>2, <2>3, <2>4, <2>5 DEF SetupUsers
<1>8. CASE Interrupt(p)
  BY <1>1, <1>4, <1>8 DEF Interrupt, Fail
<1> QED BY <1>5, <1>6, <1>7, <1>8 DEF Run

\* What is to be shown of a step of p.
LEMMA SoloStep ==
  ASSUME SoloInv, NEW p \in Proc, OthersKept(p), solo' = solo, pc[p] \notin Resting,
         pc'[p] \in Resting => probe'[p] = "cluster-admin",
         solo[p] /\ pc'[p] \notin Resting =>
           /\ SetHolds(p)'
           /\ pc'[p] \in Looping => LoopHolds(p)'
           /\ pc'[p] = "remove" => RemovalHolds(p)'
  PROVE  SoloInv'
<1>1. FreshProbes'
  BY DEF SoloInv, FreshProbes, OthersKept
<1>2. ASSUME NEW q \in Proc, q # p PROVE RunAlone(q)'
  BY <1>2 DEF SoloInv, RunAlone, OthersKept
<1>3. RunAlone(p)'
  BY DEF SoloInv, RunAlone, OthersKept
<1> QED BY <1>1, <1>2, <1>3 DEF SoloInv

LEMMA EndSolo ==
  ASSUME RunTypeOK, SoloInv, NEW p \in Proc, NEW o \in Resting, End(p, o),
         OthersKept(p), solo' = solo, pc[p] \notin Resting
  PROVE  SoloInv'
<1>1. pc'[p] = o /\ probe'[p] = "cluster-admin"
  BY DEF RunTypeOK, End, GoTo
<1> QED BY <1>1, SoloStep

\* setupReplicaSet: what the users may do does not change meanwhile.
LEMMA SetupSetSolo ==
  ASSUME TypeOK, SoloInv, NEW p \in Proc, SetupSet(p) PROVE SoloInv'
<1> USE DEF TypeOK
<1>1. OthersKept(p) /\ solo' = solo /\ pc[p] \notin Resting
  BY RunFrame DEF Run
<1>2. UNCHANGED userVars
  BY DEF SetupSet, ProbeAnswers, ProbeUnavailable, CompareMembers, Reconfig,
         Initiate, SetRefused, PrimarySeen, Ready, WaitTimesOut
<1>4. CASE Fail(p)
  BY <1>1, <1>4, EndSolo DEF Fail, Resting
<1>5. solo[p] => SetHolds(p) /\ \A q \in Proc \ {p} : pc[q] \in Resting
  BY <1>1 DEF SoloInv, RunAlone
<1>6. ASSUME UNCHANGED <<cfg, probe>>
      PROVE  /\ MayManageSet(Credential(p))' = MayManageSet(Credential(p))
             /\ MayManageSet(ClusterAdminUser(cfg[p]))' = MayManageSet(ClusterAdminUser(cfg[p]))
  BY <1>2, <1>6 DEF MayManageSet, Authenticates, userVars, Credential
<1>7. ASSUME NEW q \in SetSteps \union {"checkCluster"}, GoTo(p, q), q # "probe",
             pc[p] \in SetSteps, UNCHANGED <<mode, runVars>>,
             q \in {"members", "reconfig", "initiate", "primary"} =>
               pc[p] \in {"probe", "members", "reconfig", "initiate"} /\
               MayManageSet(Credential(p)),
             q = "initiate" => rs' = NoMembers,
             q \in {"primary", "ready", "checkCluster"} =>
               rs' = cfg[p].members \/ (rs' = rs /\ pc[p] \in {"primary", "ready"})
      PROVE  SoloInv'
  <2>1. pc'[p] = q /\ UNCHANGED <<mode, cfg, probe>>
    BY <1>7 DEF GoTo, RunTypeOK, runVars
  <2>2. ASSUME solo[p] PROVE SetHolds(p)'
    BY <1>5, <1>6, <1>7, <2>1, <2>2 DEF SetHolds, SetSteps, UserSteps
  <2> QED BY <1>1, <2>1, <2>2, SoloStep DEF Looping, SetSteps, Resting
<1>8. CASE ProbeAnswers(p)
  BY <1>7, <1>8 DEF ProbeAnswers, SetSteps, setVars
<1>9. CASE ProbeUnavailable(p) /\ probe[p] = "cluster-admin"
  <2>1. /\ pc[p] = "probe" /\ pc' = pc /\ mode' = mode /\ cfg' = cfg
        /\ ~MayManageSet(ClusterAdminUser(cfg[p]))
    BY <1>9 DEF ProbeUnavailable, Credential
  <2>2. ~MayManageSet(ClusterAdminUser(cfg[p]))'
    BY <1>2, <2>1 DEF MayManageSet, Authenticates, userVars
  <2>3. ASSUME solo[p] PROVE SetHolds(p)'
    BY <1>5, <2>1, <2>2, <2>3 DEF SetHolds, SetSteps, UserSteps
  <2> QED BY <1>1, <2>1, <2>3, SoloStep DEF Looping, Resting
<1>10. CASE CompareMembers(p)
  <2>1. PICK q \in {"primary", "reconfig"} :
          GoTo(p, q) /\ (q = "primary" => rs = cfg[p].members)
    BY <1>10 DEF CompareMembers, MembersMatch
  <2> QED BY <1>7, <1>10, <2>1 DEF CompareMembers, SetSteps, setVars
<1>11. CASE Reconfig(p)
  BY <1>7, <1>11 DEF Reconfig, SetSteps
<1>12. CASE Initiate(p)
  <2>1. CASE ~solo[p]
    <3>1. pc'[p] = "primary"
      BY <1>12 DEF Initiate, GoTo, RunTypeOK
    <3> QED BY <1>1, <2>1, <3>1, SoloStep DEF Resting
  <2>2. CASE solo[p]
    <3>1. rs = NoMembers /\ MayManageSet(Credential(p))
      BY <1>5, <1>12, <2>2 DEF SetHolds, Initiate
    <3> QED BY <1>7, <1>12, <3>1 DEF Initiate, SetSteps
  <2> QED BY <2>1, <2>2
<1>13. CASE PrimarySeen(p)
  BY <1>7, <1>13 DEF PrimarySeen, SetSteps, setVars
<1>14. CASE Ready(p)
  BY <1>7, <1>14 DEF Ready, SetSteps, setVars
<1>15. CASE SetRefused(p) \/ WaitTimesOut(p) \/ (ProbeUnavailable(p) /\ probe[p] # "cluster-admin")
  BY <1>4, <1>15 DEF SetRefused, WaitTimesOut, ProbeUnavailable
<1> QED BY <1>8, <1>9, <1>10, <1>11, <1>12, <1>13, <1>14, <1>15 DEF SetupSet

\* setupUser for the cluster admin.
LEMMA SetupClusterAdminSolo ==
  ASSUME TypeOK, SoloInv, NEW p \in Proc, SetupClusterAdmin(p) PROVE SoloInv'
<1> USE DEF TypeOK
<1>1. OthersKept(p) /\ solo' = solo /\ pc[p] \notin Resting
  BY RunFrame DEF Run
<1>2. solo[p] => SetHolds(p)
  BY <1>1 DEF SoloInv, RunAlone
<1>3. pc[p] \in {"checkCluster", "createCluster"} /\ rs' = rs
  BY DEF SetupClusterAdmin, ClusterAdminExists, ClusterAdminMissing, CreateClusterAdmin, setVars
<1>4. CASE End(p, "done")
  BY <1>1, <1>4, EndSolo DEF Resting
<1>5. CASE GoTo(p, "snapshot") /\ UNCHANGED <<mode, runVars>>
  <2>1. pc'[p] = "snapshot" /\ UNCHANGED <<mode, cfg>>
    BY <1>5 DEF GoTo, RunTypeOK, runVars
  <2>2. ASSUME solo[p] PROVE SetHolds(p)'
    BY <1>2, <1>3, <2>1, <2>2 DEF SetHolds, SetSteps, UserSteps
  <2> QED BY <1>1, <2>1, <2>2, SoloStep DEF Looping, Resting
<1>6. CASE ClusterAdminMissing(p)
  <2>1. /\ pc[p] = "checkCluster" /\ pc'[p] = "createCluster"
        /\ UNCHANGED <<mode, cfg, password>>
        /\ ~Exists(ClusterAdminUser(cfg[p]).name)
    BY <1>6 DEF ClusterAdminMissing, GoTo, RunTypeOK, runVars, userVars, Exists
  <2>2. ~Exists(ClusterAdminUser(cfg[p]).name)'
    BY <2>1 DEF Exists
  <2>3. ASSUME solo[p] PROVE SetHolds(p)'
    BY <1>2, <1>3, <2>1, <2>2, <2>3 DEF SetHolds, SetSteps, UserSteps
  <2> QED BY <1>1, <2>1, <2>3, SoloStep DEF Looping, Resting
<1> QED BY <1>4, <1>5, <1>6
        DEF SetupClusterAdmin, ClusterAdminExists, CreateClusterAdmin, AfterClusterAdmin

\* No two users of a configuration have one name, so the loop is through with none of
\* the name of the current one.
LEMMA CurrentUser ==
  ASSUME TypeOK, NEW p \in Proc, pc[p] \in Looping
  PROVE  /\ cfg[p] \in Configs /\ User(p) \in ConfigUser
         /\ at[p] \in DOMAIN cfg[p].users /\ User(p) = cfg[p].users[at[p]]
         /\ \A j \in DOMAIN cfg[p].users :
              /\ cfg[p].users[j] \in ConfigUser
              /\ cfg[p].users[j].name = User(p).name => j = at[p]
         /\ DOMAIN cfg[p].users = 1..Len(cfg[p].users) /\ Len(cfg[p].users) \in Nat
         /\ ~Through(p, User(p).name)
<1>1. /\ cfg[p] \in Configs /\ User(p) \in ConfigUser
      /\ at[p] \in DOMAIN cfg[p].users /\ User(p) = cfg[p].users[at[p]]
  BY CurrentUserType DEF TypeOK, RunTypeOK, AtSomeUser, Looping, User
<1>2. /\ DOMAIN cfg[p].users = 1..Len(cfg[p].users) /\ Len(cfg[p].users) \in Nat
      /\ \A j \in DOMAIN cfg[p].users : cfg[p].users[j] \in ConfigUser
  BY <1>1, UsersType
<1>3. \A j \in DOMAIN cfg[p].users : cfg[p].users[j].name = User(p).name => j = at[p]
  BY <1>1, ConfigsAssumption DEF IsConfig
<1>4. ~Through(p, User(p).name)
  BY <1>1, <1>2, <1>3 DEF Through
<1> QED BY <1>1, <1>2, <1>3, <1>4

\* The loop is through with the current user, which is as configured now.
LEMMA NextUserSolo ==
  ASSUME TypeOK, SoloInv, NEW p \in Proc, pc[p] \in Looping, OthersKept(p),
         solo' = solo, rs' = rs, NextUser(p), NEW u, u = User(p),
         solo[p] /\ LoopHolds(p) => AsListed(u)',
         \A n \in Name \ {u.name} : password'[n] = password[n] /\ roles'[n] = roles[n]
  PROVE  SoloInv'
<1>1. pc[p] \notin Resting
  BY DEF Looping, Resting
<1>2. SUFFICES ASSUME solo[p]
               PROVE  /\ SetHolds(p)'
                      /\ pc'[p] \in Looping => LoopHolds(p)'
                      /\ pc'[p] = "remove" => RemovalHolds(p)'
  <2>1. pc'[p] \in {"sync", "remove"}
    BY DEF NextUser, GoTo, TypeOK, RunTypeOK
  <2> QED BY <1>1, <1>2, <2>1, SoloStep DEF Resting
<1>3. SetHolds(p) /\ LoopHolds(p) /\ AsListed(u)'
  BY <1>1, <1>2 DEF SoloInv, RunAlone
<1>4. /\ cfg[p] \in Configs /\ u \in ConfigUser
      /\ at[p] \in DOMAIN cfg[p].users /\ u = cfg[p].users[at[p]]
      /\ \A j \in DOMAIN cfg[p].users :
           /\ cfg[p].users[j] \in ConfigUser
           /\ cfg[p].users[j].name = u.name => j = at[p]
      /\ DOMAIN cfg[p].users = 1..Len(cfg[p].users) /\ Len(cfg[p].users) \in Nat
  BY CurrentUser
<1>5. UNCHANGED <<mode, cfg, probe, snapUsers, snapRoles>>
  BY DEF NextUser
<1>6. \A j \in DOMAIN cfg[p].users : j <= at[p] => AsListed(cfg[p].users[j])'
  <2>1. SUFFICES ASSUME NEW j \in DOMAIN cfg[p].users, j < at[p]
                 PROVE  AsListed(cfg[p].users[j])'
    BY <1>3, <1>4, <1>5
  <2>2. cfg[p].users[j].name # u.name /\ cfg[p].users[j].name \in Name
    BY <1>4, <2>1 DEF ConfigUser
  <2>3. AsListed(cfg[p].users[j])
    BY <1>3, <2>1 DEF LoopHolds
  <2> QED BY <1>5, <2>2, <2>3 DEF AsListed, Authenticates
<1>7. \A n \in Name : ~Through(p, n) /\ n # u.name =>
        /\ Exists(n)' <=> n \in snapUsers[p]
        /\ roles'[n] = snapRoles[p][n]
  BY <1>3 DEF LoopHolds, Exists
<1>8. CASE at[p] < Len(cfg[p].users)
  <2>1. pc'[p] = "sync" /\ at'[p] = at[p] + 1
    BY <1>8 DEF NextUser, GoTo, TypeOK, RunTypeOK
  <2>2. SetHolds(p)'
    BY <1>3, <1>5, <2>1 DEF SetHolds, Looping, SetSteps, UserSteps
  <2>3. \A j \in DOMAIN cfg'[p].users : j < at'[p] => AsListed(cfg[p].users[j])'
    <3>1. \A j \in DOMAIN cfg[p].users : j < at[p] + 1 => j <= at[p]
      BY <1>4
    <3>2. DOMAIN cfg'[p].users = DOMAIN cfg[p].users
      BY <1>5
    <3> QED BY <1>6, <2>1, <3>1, <3>2
  <2>4. \A n \in Name : ~Through(p, n)' => ~Through(p, n) /\ n # u.name
    BY <1>4, <1>5, <2>1 DEF Through
  <2>5. LoopHolds(p)'
    BY <1>5, <1>7, <2>1, <2>3, <2>4 DEF LoopHolds
  <2> QED BY <2>1, <2>2, <2>5
<1>9. CASE ~(at[p] < Len(cfg[p].users))
  <2>1. pc'[p] = "remove" /\ left'[p] = ToDelete(p)
    BY <1>9 DEF NextUser, GoTo, TypeOK, RunTypeOK
  <2>2. SetHolds(p)'
    BY <1>3, <1>5, <2>1 DEF SetHolds, Looping, SetSteps, UserSteps
  <2>3. \A j \in DOMAIN cfg'[p].users : AsListed(cfg[p].users[j])'
    BY <1>4, <1>5, <1>6, <1>9
  <2>4. ToDelete(p) = snapUsers[p] \ ConfigNames(cfg[p])
    <3>1. ConfigAdmins(cfg[p]) # {}
      BY <1>4, FirstWithIsUser DEF ConfigAdmins
    <3> QED BY <3>1 DEF ToDelete
  <2>5. \A n \in Name : n \notin ConfigNames(cfg[p]) => ~Through(p, n) /\ n # u.name
    BY <1>4 DEF ConfigNames, Through
  <2>6. RemovalHolds(p)'
    BY <1>5, <1>7, <2>1, <2>3, <2>4, <2>5 DEF RemovalHolds
  <2> QED BY <2>1, <2>2, <2>6 DEF Looping
<1> QED BY <1>8, <1>9


\* setupMongoUsers.
LEMMA SetupUsersSolo ==
  ASSUME TypeOK, SoloInv, NEW p \in Proc, SetupUsers(p) PROVE SoloInv'
<1>1. OthersKept(p) /\ solo' = solo /\ pc[p] \notin Resting
  BY RunFrame DEF Run, TypeOK
<1>2. rs' = rs
  BY DEF SetupUsers, TakeSnapshot, UserAppeared, UserMissing, CreateMissing, GrantRoles,
         RevokeRoles, SetPassword, RemoveUser, Finish, UserStepRefused,
         NoPrimaryInTime, setVars
<1>3. solo[p] => /\ SetHolds(p) /\ (pc[p] \in Looping => LoopHolds(p))
                 /\ pc[p] = "remove" => RemovalHolds(p)
  BY <1>1 DEF SoloInv, RunAlone
<1>4. ASSUME pc[p] \in UserSteps, pc'[p] \in Looping \union {"remove"},
             UNCHANGED <<mode, cfg>>, solo[p]
      PROVE  SetHolds(p)'
  BY <1>2, <1>3, <1>4 DEF SetHolds, Looping, SetSteps, UserSteps
<1>5. \A n \in Name : password[n] \in Password \union {NoUser} /\ roles[n] \in SUBSET Role
  BY DEF TypeOK, UserTypeOK
<1>6. CASE TakeSnapshot(p)
  <2>1. /\ pc[p] = "snapshot" /\ pc'[p] = "sync" /\ at'[p] = 1
        /\ snapUsers'[p] = {n \in Name : Exists(n)} /\ snapRoles'[p] = roles
        /\ UNCHANGED <<mode, cfg, password, roles>>
    BY <1>6 DEF TakeSnapshot, GoTo, TypeOK, RunTypeOK, userVars, Exists
  <2>2. \A j \in DOMAIN cfg'[p].users : ~(j < 1)
    BY <2>1, UsersType DEF TypeOK, RunTypeOK
  <2>3. LoopHolds(p)'
    BY <2>1, <2>2 DEF LoopHolds, Exists
  <2> QED BY <1>1, <1>4, <2>1, <2>3, SoloStep DEF Looping, Resting, UserSteps
<1>7. CASE UserAppeared(p)
  <2>1. pc[p] \in Looping /\ NextUser(p) /\ UNCHANGED <<password, roles>>
    BY <1>7 DEF UserAppeared, Looping, userVars
  <2>2. LoopHolds(p) => FALSE
    BY <1>7, <2>1, CurrentUser DEF UserAppeared, LoopHolds, Existing, Exists, ConfigUser
  <2> QED BY <1>1, <1>2, <2>1, <2>2, NextUserSolo
<1>8. CASE UserMissing(p)
  <2>1. /\ pc[p] = "sync" /\ pc'[p] = "create" /\ ~Existing(p)
        /\ UNCHANGED <<mode, cfg, password, roles, snapUsers, snapRoles, at, left>>
    BY <1>8 DEF UserMissing, GoTo, TypeOK, RunTypeOK, userVars, runVars
  <2>2. LoopHolds(p) => LoopHolds(p)'
    BY <2>1 DEF LoopHolds, Through, Exists, AsListed, Authenticates, User, Existing
  <2> QED BY <1>1, <1>3, <1>4, <2>1, <2>2, SoloStep DEF Looping, Resting, UserSteps
<1>9. CASE CreateMissing(p)
  <2>1. pc[p] \in Looping /\ NextUser(p) /\ CreateUser(User(p))
    BY <1>9 DEF CreateMissing, Looping
  <2>2. PICK u : u = User(p)
    OBVIOUS
  <2>3. u \in ConfigUser
    BY <2>1, <2>2, CurrentUser
  <2>4. AsListed(u)'
    BY <2>1, <2>2, <2>3 DEF CreateUser, AsListed, Authenticates, TypeOK, UserTypeOK, ConfigUser
  <2>5. \A n \in Name \ {u.name} : password'[n] = password[n] /\ roles'[n] = roles[n]
    BY <2>1, <2>2 DEF CreateUser, TypeOK, UserTypeOK
  <2> QED BY <1>1, <1>2, <2>1, <2>2, <2>4, <2>5, NextUserSolo
<1>10. CASE GrantRoles(p)
  <2>1. /\ pc[p] = "sync" /\ pc'[p] = "revoke" /\ Existing(p)
        /\ roles' = [roles EXCEPT ![User(p).name] = @ \union RolesToAdd(p)]
        /\ UNCHANGED <<mode, cfg, password, snapUsers, snapRoles, at, left>>
    BY <1>10 DEF GrantRoles, GoTo, TypeOK, RunTypeOK, runVars
  <2>2. PICK u : u = User(p)
    OBVIOUS
  <2>3. u \in ConfigUser /\ ~Through(p, u.name)
    BY <2>1, <2>2, CurrentUser DEF Looping
  <2>4. /\ \A n \in Name \ {u.name} : roles'[n] = roles[n]
        /\ roles'[u.name] = roles[u.name] \union RolesToAdd(p)
    BY <2>1, <2>2, <2>3 DEF TypeOK, UserTypeOK, ConfigUser
  <2>5. User(p)' = u /\ \A n : Through(p, n)' = Through(p, n)
    BY <2>1, <2>2 DEF User, Through
  <2>6. ASSUME LoopHolds(p) PROVE LoopHolds(p)'
    <3>1. \A j \in DOMAIN cfg[p].users : j < at[p] => AsListed(cfg[p].users[j])'
      <4>1. SUFFICES ASSUME NEW j \in DOMAIN cfg[p].users, j < at[p]
                     PROVE  AsListed(cfg[p].users[j])'
        OBVIOUS
      <4>2. cfg[p].users[j].name \in Name \ {u.name}
        BY <2>1, <2>2, <4>1, CurrentUser DEF Looping, Through, ConfigUser
      <4> QED BY <2>1, <2>4, <2>6, <4>1, <4>2 DEF LoopHolds, AsListed, Authenticates
    <3>2. roles'[u.name] = snapRoles[p][u.name] \union u.roles
      BY <2>1, <2>2, <2>3, <2>4, <2>6 DEF LoopHolds, RolesToAdd, ConfigUser
    <3>3. \A n \in Name : Through(p, n) \/ n = u.name \/ roles'[n] = snapRoles[p][n]
      BY <2>1, <2>4, <2>6 DEF LoopHolds
    <3>4. \A n \in Name : ~Through(p, n) => (Exists(n)' <=> n \in snapUsers[p])
      BY <2>1, <2>6 DEF LoopHolds, Exists
    <3> QED BY <2>1, <2>2, <2>5, <3>1, <3>2, <3>3, <3>4 DEF LoopHolds, Existing
  <2> QED BY <1>1, <1>3, <1>4, <2>1, <2>6, SoloStep DEF Looping, Resting, UserSteps
<1>11. CASE RevokeRoles(p)
  <2>1. /\ pc[p] \in {"sync", "revoke"} /\ pc'[p] = "password" /\ Existing(p)
        /\ RolesGranted(p)
        /\ roles' = [roles EXCEPT ![User(p).name] = @ \ RolesToRemove(p)]
        /\ UNCHANGED <<mode, cfg, password, snapUsers, snapRoles, at, left>>
    BY <1>11 DEF RevokeRoles, GoTo, TypeOK, RunTypeOK, runVars
  <2>2. PICK u : u = User(p)
    OBVIOUS
  <2>3. u \in ConfigUser /\ ~Through(p, u.name)
    BY <2>1, <2>2, CurrentUser DEF Looping
  <2>4. /\ \A n \in Name \ {u.name} : roles'[n] = roles[n]
        /\ roles'[u.name] = roles[u.name] \ RolesToRemove(p)
    BY <2>1, <2>2, <2>3 DEF TypeOK, UserTypeOK, ConfigUser
  <2>5. User(p)' = u /\ \A n : Through(p, n)' = Through(p, n)
    BY <2>1, <2>2 DEF User, Through
  <2>6. ASSUME LoopHolds(p) PROVE LoopHolds(p)'
    <3>1. \A j \in DOMAIN cfg[p].users : j < at[p] => AsListed(cfg[p].users[j])'
      <4>1. SUFFICES ASSUME NEW j \in DOMAIN cfg[p].users, j < at[p]
                     PROVE  AsListed(cfg[p].users[j])'
        OBVIOUS
      <4>2. cfg[p].users[j].name \in Name \ {u.name}
        BY <2>1, <2>2, <4>1, CurrentUser DEF Looping, Through, ConfigUser
      <4> QED BY <2>1, <2>4, <2>6, <4>1, <4>2 DEF LoopHolds, AsListed, Authenticates
    <3>2. roles'[u.name] = u.roles
      <4>1. CASE pc[p] = "revoke"
        BY <2>2, <2>4, <2>6, <4>1 DEF LoopHolds, RolesToRemove
      <4>2. CASE pc[p] = "sync"
        BY <2>1, <2>2, <2>3, <2>4, <2>6, <4>2
        DEF LoopHolds, RolesToRemove, RolesGranted, RolesToAdd, ConfigUser
      <4> QED BY <2>1, <4>1, <4>2
    <3>3. \A n \in Name : Through(p, n) \/ n = u.name \/ roles'[n] = snapRoles[p][n]
      BY <2>1, <2>2, <2>4, <2>6 DEF LoopHolds
    <3>4. \A n \in Name : ~Through(p, n) => (Exists(n)' <=> n \in snapUsers[p])
      BY <2>1, <2>6 DEF LoopHolds, Exists
    <3> QED BY <2>1, <2>2, <2>5, <3>1, <3>2, <3>3, <3>4 DEF LoopHolds, Existing
  <2> QED BY <1>1, <1>3, <1>4, <2>1, <2>6, SoloStep DEF Looping, Resting, UserSteps
<1>12. CASE SetPassword(p)
  <2>1. /\ pc[p] \in {"sync", "revoke", "password"} /\ NextUser(p) /\ Existing(p)
        /\ pc[p] \in {"sync", "revoke"} => RolesGranted(p) /\ RolesToRemove(p) = {}
        /\ password' = [password EXCEPT ![User(p).name] = User(p).password]
        /\ roles' = roles
    BY <1>12 DEF SetPassword
  <2>2. PICK u : u = User(p)
    OBVIOUS
  <2>3. u \in ConfigUser /\ ~Through(p, u.name) /\ pc[p] \in Looping
    BY <2>1, <2>2, CurrentUser DEF Looping
  <2>4. password'[u.name] = u.password
    BY <2>1, <2>2, <2>3 DEF TypeOK, UserTypeOK, ConfigUser
  <2>5. ASSUME LoopHolds(p) PROVE roles[u.name] = u.roles
    <3>1. CASE pc[p] = "password"
      BY <2>2, <2>5, <3>1 DEF LoopHolds
    <3>2. CASE pc[p] = "revoke"
      BY <2>1, <2>2, <2>5, <3>2 DEF LoopHolds, RolesToRemove
    <3>3. CASE pc[p] = "sync"
      <4>1. u.roles \ snapRoles[p][u.name] = {} /\ snapRoles[p][u.name] \ u.roles = {}
        BY <2>1, <2>2, <3>3 DEF RolesToRemove, RolesGranted, RolesToAdd
      <4>2. roles[u.name] = snapRoles[p][u.name]
        BY <2>3, <2>5, <3>3 DEF LoopHolds, ConfigUser
      <4> QED BY <4>1, <4>2
    <3> QED BY <2>1, <3>1, <3>2, <3>3
  <2>6. LoopHolds(p) => AsListed(u)'
    BY <2>1, <2>4, <2>5 DEF AsListed, Authenticates
  <2>7. \A n \in Name \ {u.name} : password'[n] = password[n] /\ roles'[n] = roles[n]
    BY <2>1, <2>2 DEF TypeOK, UserTypeOK
  <2> QED BY <1>1, <1>2, <2>1, <2>2, <2>3, <2>6, <2>7, NextUserSolo
<1>13. CASE \E n \in Name : RemoveUser(p, n)
  <2>1. PICK n \in Name : RemoveUser(p, n)
    BY <1>13
  <2>2. /\ pc[p] = "remove" /\ pc' = pc /\ n \in left[p] /\ left'[p] = left[p] \ {n}
        /\ UNCHANGED <<mode, cfg>>
        /\ password' = [password EXCEPT ![n] = NoUser] /\ roles' = [roles EXCEPT ![n] = {}]
    BY <2>1 DEF RemoveUser, TypeOK, RunTypeOK
  <2>3. \A k \in DOMAIN cfg[p].users : cfg[p].users[k] \in ConfigUser
    BY UsersType DEF TypeOK, RunTypeOK
  <2>4. ASSUME RemovalHolds(p) PROVE RemovalHolds(p)'
    <3>1. \A k \in DOMAIN cfg[p].users : cfg[p].users[k].name \in Name \ {n}
      BY <2>2, <2>3, <2>4 DEF RemovalHolds, ConfigNames, ConfigUser
    <3>2. \A m \in Name \ {n} : password'[m] = password[m] /\ roles'[m] = roles[m]
      BY <2>2 DEF TypeOK, UserTypeOK
    <3>3. \A k \in DOMAIN cfg[p].users : AsListed(cfg[p].users[k])'
      BY <2>2, <2>4, <3>1, <3>2 DEF RemovalHolds, AsListed, Authenticates
    <3>4. ~Exists(n)'
      BY <2>2 DEF Exists, TypeOK, UserTypeOK
    <3> QED BY <2>2, <2>4, <3>2, <3>3, <3>4 DEF RemovalHolds, Exists
  <2> QED BY <1>1, <1>3, <1>4, <2>2, <2>4, SoloStep DEF Looping, Resting, UserSteps
<1>14. CASE Finish(p) \/ UserStepRefused(p) \/ NoPrimaryInTime(p)
  BY <1>1, <1>14, EndSolo DEF Finish, UserStepRefused, NoPrimaryInTime, Fail, Resting, TypeOK
<1> QED BY <1>6, <1>7, <1>8, <1>9, <1>10, <1>11, <1>12, <1>13, <1>14 DEF SetupUsers


\* The set, the operator and interruptions.
LEMMA EnvironmentSolo ==
  ASSUME TypeOK, SoloInv, Environment PROVE SoloInv'
<1>1. ASSUME UNCHANGED <<userVars, rs, procVars, solo>> PROVE SoloInv'
  BY <1>1
  DEF userVars, procVars, runVars, SoloInv, FreshProbes, RunAlone, SetHolds, LoopHolds,
      RemovalHolds, AsListed, Authenticates, MayManageSet, Credential, Through, Exists,
      User, Existing
<1>2. CASE Elect \/ LosePrimary \/ \E c \in Configs : Edit(c)
  BY <1>1, <1>2 DEF Elect, LosePrimary, Edit, NoFault, UseFault, histVars, setVars
<1>3. CASE \E p \in Proc : Interrupt(p)
  BY <1>3, RunFrame, EndSolo DEF Interrupt, Fail, Resting, TypeOK
<1>4. CASE \E p \in Proc, m \in Modes : Launch(p, m)
  <2>1. PICK p \in Proc, m \in Modes : Launch(p, m)
    BY <1>4
  <2>2. /\ pc[p] \in Resting /\ pc'[p] = IF m = "users" THEN "snapshot" ELSE "probe"
        /\ mode'[p] = m /\ probe' = probe
        /\ solo' = [q \in Proc |->
                      IF q = p THEN {r \in Proc \ {p} : pc[r] \notin Resting} = {}
                      ELSE solo[q] /\ q \notin {r \in Proc \ {p} : pc[r] \notin Resting}]
        /\ OthersKept(p)
    BY <2>1 DEF Launch, GoTo, TypeOK, RunTypeOK, OthersKept
  <2>3. pc'[p] \notin Resting
    BY <2>2 DEF Resting
  <2>4. FreshProbes'
    BY <2>2, <2>3 DEF SoloInv, FreshProbes, OthersKept
  <2>5. RunAlone(p)'
    <3>1. SetHolds(p)'
      BY <2>2 DEF SoloInv, FreshProbes, SetHolds, SetSteps, UserSteps
    <3>2. solo'[p] => \A q \in Proc \ {p} : pc'[q] \in Resting
      BY <2>2 DEF OthersKept
    <3> QED BY <2>2, <3>1, <3>2 DEF RunAlone, Looping
  <2>6. ASSUME NEW q \in Proc, q # p PROVE RunAlone(q)'
    BY <2>2, <2>6 DEF RunAlone, OthersKept
  <2> QED BY <2>4, <2>5, <2>6 DEF SoloInv
<1> QED BY <1>2, <1>3, <1>4 DEF Environment

LEMMA SoloInvHolds == Spec => []SoloInv
<1>1. Init => SoloInv
  BY DEF Init, SoloInv, FreshProbes, RunAlone, Resting
<1>2. TypeOK /\ SoloInv /\ [Next]_vars => SoloInv'
  <2> SUFFICES ASSUME TypeOK, SoloInv, [Next]_vars PROVE SoloInv'
    OBVIOUS
  <2>1. CASE Environment
    BY <2>1, EnvironmentSolo
  <2>2. CASE \E p \in Proc : Run(p)
    BY <2>2, SetupSetSolo, SetupClusterAdminSolo, SetupUsersSolo DEF Run
  <2>3. CASE UNCHANGED vars
    BY <2>3
    DEF vars, setVars, userVars, procVars, runVars, histVars, SoloInv, FreshProbes,
        RunAlone, SetHolds, LoopHolds, RemovalHolds, AsListed, Authenticates,
        MayManageSet, Credential, Through, Exists, User, Existing
  <2> QED BY <2>1, <2>2, <2>3 DEF Next
<1> QED BY <1>1, <1>2, TypeCorrect, PTL DEF Spec

\* Who it is that ends.
LEMMA WhoEnds ==
  ASSUME TypeOK, NEW p \in Proc, NEW o \in {"done", "failed"}, Ends(p, o), [Next]_vars
  PROVE  Run(p) \/ Interrupt(p)
<1>1. pc[p] \notin Resting /\ pc'[p] = o /\ o \in Resting
  BY DEF Ends, Resting
<1>2. \A q \in Proc \ {p} : OthersKept(q) => pc'[p] = pc[p]
  BY DEF OthersKept
<1>3. CASE \E q \in Proc : Run(q) \/ Interrupt(q)
  BY <1>1, <1>2, <1>3, RunFrame DEF TypeOK
<1>4. CASE \E q \in Proc, m \in Modes : Launch(q, m)
  BY <1>1, <1>4 DEF Launch, GoTo, TypeOK, RunTypeOK, Resting
<1>5. CASE Elect \/ LosePrimary \/ (\E c \in Configs : Edit(c)) \/ UNCHANGED vars
  BY <1>1, <1>5 DEF Elect, LosePrimary, Edit, vars, procVars
<1> QED BY <1>3, <1>4, <1>5 DEF Next, Environment

\* A run that has the set to itself and reports success leaves it as the file that it
\* read says: the users and, unless it is setup-users, the members, whatever users,
\* roles and members it found.
THEOREM SuccessIsConfigured == Spec => FinishedAsConfigured
<1> DEFINE Done == \A p \in Proc, c \in Configs :
                     Ends(p, "done") /\ solo[p] /\ cfg[p] = c =>
                       /\ mode[p] # "start" => UsersAre(c)'
                       /\ mode[p] # "users" => rs' = c.members
<1>1. TypeOK /\ SoloInv /\ [Next]_vars => Done
  <2> SUFFICES ASSUME TypeOK, SoloInv, [Next]_vars, NEW p \in Proc,
                      Ends(p, "done"), solo[p], NEW c \in Configs, cfg[p] = c
               PROVE  /\ mode[p] # "start" => UsersAre(c)'
                      /\ mode[p] # "users" => rs' = c.members
    OBVIOUS
  <2>1. Run(p) \/ Interrupt(p)
    BY WhoEnds
  <2>2. /\ pc'[p] = "done" /\ SetHolds(p)
        /\ pc[p] = "remove" => RemovalHolds(p)
    BY DEF Ends, SoloInv, RunAlone
  <2>3. \A q : GoTo(p, q) => pc'[p] = q
    BY DEF GoTo, TypeOK, RunTypeOK
  <2>4. ~Fail(p) /\ ~NextUser(p)
    BY <2>2, <2>3 DEF Fail, End, NextUser
  <2>5. ~SetupSet(p) /\ ~Interrupt(p)
    BY <2>2, <2>3, <2>4
    DEF SetupSet, ProbeAnswers, ProbeUnavailable, CompareMembers, Reconfig, Initiate,
        SetRefused, PrimarySeen, Ready, WaitTimesOut, Interrupt
  <2>6. CASE SetupClusterAdmin(p)
    <3>1. /\ mode[p] = "start" /\ rs' = rs
          /\ pc[p] \in {"checkCluster", "createCluster"}
      BY <2>2, <2>3, <2>6
      DEF SetupClusterAdmin, ClusterAdminExists, ClusterAdminMissing,
          CreateClusterAdmin, AfterClusterAdmin, setVars
    <3> QED BY <2>2, <3>1 DEF SetHolds, UserSteps
  <2>7. CASE SetupUsers(p)
    <3>1. Finish(p)
      BY <2>2, <2>3, <2>4, <2>7
      DEF SetupUsers, TakeSnapshot, UserAppeared, UserMissing, CreateMissing,
          GrantRoles, RevokeRoles, SetPassword, RemoveUser, UserStepRefused,
          NoPrimaryInTime
    <3>2. /\ pc[p] = "remove" /\ left[p] = {} /\ rs' = rs
          /\ UNCHANGED <<password, roles>>
      BY <3>1 DEF Finish, setVars, userVars
    <3>3. UsersAre(c)
      BY <2>2, <3>2 DEF UsersAre, RemovalHolds, AsListed, Exists
    <3>4. UsersAre(c)'
      BY <3>2, <3>3 DEF UsersAre, Authenticates
    <3> QED BY <2>2, <3>2, <3>3, <3>4 DEF SetHolds, UserSteps
  <2> QED BY <2>1, <2>5, <2>6, <2>7 DEF Run
<1> HIDE DEF Done
<1>2. Spec => [][Done]_vars
  BY <1>1, TypeCorrect, SoloInvHolds, PTL DEF Spec
<1> QED BY <1>2 DEF FinishedAsConfigured, Done


\* Until a set is initiated nobody logs in to change users.
LEMMA FirstAdminIsRootHolds == Spec => []FirstAdminIsRoot
<1>1. Init => FirstAdminIsRoot
  <2>1. Root.name \in Name
    BY RootType DEF ConfigUser
  <2> QED BY <2>1 DEF Init, FirstAdminIsRoot, Root
<1>2. TypeOK /\ FirstAdminIsRoot /\ [Next]_vars => FirstAdminIsRoot'
  <2> SUFFICES ASSUME TypeOK, FirstAdminIsRoot, [Next]_vars, rs' = NoMembers
               PROVE  rs = NoMembers /\ ~primary' /\ (~primary => roles' = roles)
    BY DEF FirstAdminIsRoot, Root
  <2>1. CASE Elect \/ LosePrimary \/ (\E c \in Configs : Edit(c)) \/ UNCHANGED vars
    BY <2>1 DEF Elect, LosePrimary, Edit, vars, setVars, userVars, FirstAdminIsRoot
  <2>2. CASE \E p \in Proc : Interrupt(p) \/ \E m \in Modes : Launch(p, m)
    BY <2>2 DEF Interrupt, Launch, setVars, userVars, FirstAdminIsRoot
  <2>3. CASE \E p \in Proc : SetupSet(p)
    <3>1. PICK p \in Proc : SetupSet(p)
      BY <2>3
    <3>2. cfg[p].members # NoMembers
      BY UsersType DEF TypeOK, RunTypeOK, NoMembers
    <3>3. ~Reconfig(p) /\ ~Initiate(p)
      BY <3>2 DEF Reconfig, Initiate
    <3>4. UNCHANGED <<setVars, userVars>>
      BY <3>1, <3>3
      DEF SetupSet, ProbeAnswers, ProbeUnavailable, CompareMembers, SetRefused,
          PrimarySeen, Ready, WaitTimesOut
    <3> QED BY <3>4 DEF setVars, userVars, FirstAdminIsRoot
  <2>4. CASE \E p \in Proc : SetupClusterAdmin(p)
    BY <2>4
    DEF SetupClusterAdmin, ClusterAdminExists, ClusterAdminMissing, CreateClusterAdmin,
        setVars, userVars, FirstAdminIsRoot
  <2>5. CASE \E p \in Proc : SetupUsers(p)
    BY <2>5
    DEF SetupUsers, TakeSnapshot, UserAppeared, UserMissing, CreateMissing, GrantRoles,
        RevokeRoles, SetPassword, RemoveUser, Finish, UserStepRefused,
        NoPrimaryInTime, setVars, userVars, FirstAdminIsRoot
  <2> QED BY <2>1, <2>2, <2>3, <2>4, <2>5 DEF Next, Environment, Run
<1> QED BY <1>1, <1>2, TypeCorrect, PTL DEF Spec

\* With the same admin in every file nobody refuses a run in the middle of it that has
\* the set to itself.
LEMMA NotRefusedAlone ==
  ASSUME TypeOK, SameAdmin, AdminCanLogIn, FirstAdminIsRoot, SoloInv, NEW p \in Proc,
         solo[p], pc[p] \notin Resting
  PROVE  ~SetRefused(p) /\ ~UserStepRefused(p)
<1>1. /\ AdminUser(cfg[p]).name = Root.name
      /\ AdminUser(cfg[p]).password = Root.password
  BY DEF TypeOK, RunTypeOK, SameAdmin, Root
<1>2. Authenticates(AdminUser(cfg[p])) /\ Session(p) /\ Login(p)
  BY <1>1 DEF AdminCanLogIn, Authenticates, Session, Login
<1>3. /\ SetHolds(p) /\ (pc[p] \in Looping => LoopHolds(p))
      /\ pc[p] = "remove" => RemovalHolds(p)
  BY DEF SoloInv, RunAlone
<1>4. ~SetRefused(p)
  BY <1>1, <1>2, <1>3 DEF SetRefused, SetHolds, FirstAdminIsRoot, MayManageSet
<1>5. pc[p] \in Looping => (Exists(User(p).name) <=> Existing(p))
  BY <1>3, CurrentUser DEF LoopHolds, Existing, ConfigUser
<1>6. pc[p] = "remove" => \A n \in left[p] : Exists(n)
  BY <1>3 DEF RemovalHolds, TypeOK, RunTypeOK
<1>7. ~UserStepRefused(p)
  BY <1>2, <1>3, <1>5, <1>6
  DEF UserStepRefused, SetHolds, LoopHolds, Looping, Exists
<1> QED BY <1>4, <1>7

\* As long as every file names the same admin, a run that has the set to itself and
\* meets no fault fails only if neither of its credentials may look at the set, or, as
\* setup-users, if there is no set.
THEOREM FailsOnlyIfStuck == Spec => OnlyStuckRunsFail
<1> DEFINE Stuck == \A p \in Proc :
                      SameAdmin /\ Ends(p, "failed") /\ solo[p] /\ calm'[p] =>
                        \/ mode[p] = "users" /\ rs = NoMembers
                        \/ /\ mode[p] # "users"
                           /\ ~MayManageSet(ClusterAdminUser(cfg[p]))
                           /\ ~MayManageSet(AdminUser(cfg[p]))
<1>1. TypeOK /\ FirstAdminIsRoot /\ SoloInv /\ AdminKeepsRights /\ [Next]_vars => Stuck
  <2> SUFFICES ASSUME TypeOK, FirstAdminIsRoot, SoloInv, AdminKeepsRights, [Next]_vars,
                      NEW p \in Proc, SameAdmin, Ends(p, "failed"), solo[p], calm'[p]
               PROVE  \/ mode[p] = "users" /\ rs = NoMembers
                      \/ /\ mode[p] # "users"
                         /\ ~MayManageSet(ClusterAdminUser(cfg[p]))
                         /\ ~MayManageSet(AdminUser(cfg[p]))
    OBVIOUS
  <2>1. Run(p) \/ Interrupt(p)
    BY WhoEnds
  <2>2. pc'[p] = "failed" /\ pc[p] \notin Resting /\ SetHolds(p)
    BY DEF Ends, SoloInv, RunAlone
  <2>3. ~UseFault
    BY DEF UseFault
  <2>4. AdminCanLogIn
    BY DEF AdminKeepsRights, AdminCanLogIn, Root
  <2>5. ~SetRefused(p) /\ ~UserStepRefused(p)
    BY <2>2, <2>4, NotRefusedAlone
  <2>6. \A q : (GoTo(p, q) => pc'[p] = q) /\ (End(p, q) => pc'[p] = q)
    BY DEF GoTo, End, TypeOK, RunTypeOK
  <2>7. ~NextUser(p) /\ ~AfterClusterAdmin(p)
    BY <2>2, <2>6 DEF NextUser, AfterClusterAdmin
  <2>8. CASE SetupSet(p)
    <3>1. ProbeUnavailable(p) \/ WaitTimesOut(p)
      BY <2>2, <2>5, <2>6, <2>8
      DEF SetupSet, ProbeAnswers, CompareMembers, Reconfig, Initiate, PrimarySeen, Ready
    <3>2. CASE ProbeUnavailable(p)
      <4>1. pc[p] = "probe" /\ probe[p] = "admin" /\ ~MayManageSet(AdminUser(cfg[p]))
        BY <2>2, <3>2 DEF ProbeUnavailable, Credential, TypeOK, RunTypeOK
      <4> QED BY <2>2, <4>1 DEF SetHolds, SetSteps
    <3>3. CASE WaitTimesOut(p)
      <4>1. primary
        BY <2>3, <3>3 DEF WaitTimesOut
      <4>2. Authenticates(AdminUser(cfg[p]))
        BY <2>4 DEF AdminCanLogIn, Authenticates, SameAdmin, TypeOK, RunTypeOK, Root
      <4> QED BY <2>2, <3>3, <4>1, <4>2 DEF WaitTimesOut, SetHolds
    <3> QED BY <3>1, <3>2, <3>3
  <2>9. CASE SetupClusterAdmin(p)
    BY <2>2, <2>6, <2>7, <2>9
    DEF SetupClusterAdmin, ClusterAdminExists, ClusterAdminMissing, CreateClusterAdmin
  <2>10. CASE SetupUsers(p)
    <3>1. NoPrimaryInTime(p)
      BY <2>2, <2>5, <2>6, <2>7, <2>10
      DEF SetupUsers, TakeSnapshot, UserAppeared, UserMissing, CreateMissing,
          GrantRoles, RevokeRoles, SetPassword, RemoveUser, Finish
    <3>2. pc[p] \in UserSteps /\ rs = NoMembers
      BY <2>3, <3>1 DEF NoPrimaryInTime
    <3>3. cfg[p].members # NoMembers
      BY UsersType DEF TypeOK, RunTypeOK, NoMembers
    <3> QED BY <2>2, <3>2, <3>3 DEF SetHolds
  <2> QED BY <2>1, <2>3, <2>8, <2>9, <2>10 DEF Run, Interrupt
<1> HIDE DEF Stuck
<1>2. Spec => [][Stuck]_vars
  BY <1>1, TypeCorrect, FirstAdminIsRootHolds, SoloInvHolds, AdminNeverLockedOut, PTL
  DEF Spec
<1> QED BY <1>2 DEF OnlyStuckRunsFail, Stuck

=============================================================================
