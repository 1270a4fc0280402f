# forerunner: TLA+ models, checks and proofs

forerunner is a command line tool that sets up development databases in Docker:
MongoDB replica sets and PostgreSQL instances, with certificates, users, hosts
entries and helpers for child processes. Most commands are a sequence of
`docker`, `mongosh`, driver or file operations, each awaited, none of them under
a lock. What is hard in the code follows from that: a decision is taken on an
answer that is no longer true, a command stops half way and is given again, two
commands run at once.

This directory models every part that keeps state: the rolling restart of a
replica set, the bootstrap of a set and its users, the containers of a set,
PostgreSQL servers and their users, the hosts file, the certificates, and
processes that are started and ended by pid. What is left out has no state of its
own; section 6 says why. Paths are relative to `src/src/` unless they start with
`docs/`.

## 1. Inventory

| Component | State | Operations | Interacts with | Status |
|---|---|---|---|---|
| Rolling restart: `mongo/restart/restartReplSet.ts`, `mongo/replicaSetStatus.ts`, `mongo/checkMongoReadyState.ts` | `restartedInstances`, in memory only | status pass, choose, step down, wait for a primary, stop, start, wait for state, verify | mongod, Docker, `startMongodInstance`, `stopMongodInstance` | modelled |
| Bootstrap: `mongo/setupReplicaSet.ts`, `mongo/replSetInitHelpers.ts`, `mongo/user/*` | the set's persisted configuration; users, passwords and roles in the database | probe, reconfig, initiate, wait for a primary, create, grant, revoke, set password, remove | mongod; other runs | modelled |
| Containers: `mongo/startMongo.ts`, `mongo/stopMongo.ts`, `utils/docker.ts` | containers, their fingerprint label, the network, the generated `mongod.conf` | start, stop, restart; keep or replace a container | both of the above, certificates | modelled |
| PostgreSQL instance: `postgres/startPostgresInstance.ts`, `postgres/stopPostgresInstance.ts`, `postgres/utils.ts` | container; volume with `pg_hba.conf`, `postgresql.conf` and catalogs; what the server has loaded | start, stop, sync lines, configure SSL | certificates, PostgreSQL users | modelled |
| PostgreSQL users and databases: `postgres/setupUsers.ts`, `postgres/setupDatabases.ts` | roles, passwords, grants, databases | create, update, grant, switch between trust and scram | instance | modelled |
| Hosts file: `etcHosts/*` | `/etc/hosts`, `/etc/hosts.backup`, `/tmp/hosts.tmp` | set, remove, list, backup, restore, ensure | `mongo start` | modelled |
| Certificates: `certs/caGenerator.ts`, `certs/certGenerator.ts`, `mongo/generateMongoCerts.ts`, `postgres/generatePostgresCerts.ts` and their configurations | CA, key, certificate, request, chain and PEM files, their modes and owners | generate, keep, overwrite | both starts | partly: `certs ca` and `certs cert` are not launched by themselves |
| Processes: `pid/*`, `process/*` | the PID file, the process table | start, end | operating system | modelled but for the spawner's messages |
| Docker command layer, mongo client, command line, configuration files | none of their own | | all of the above | partly: inside the actions of the callers |
| run-env, keys and passwords, downloads, process search, logging, test helpers | none that lasts | | | not modelled, see section 6 |

What makes each correct:

- *Rolling restart*: at most one member is stopped at a time, a majority stays
  up, a member is stopped only when those restarted before it serve again, a
  primary steps down before it is stopped, success means every member was
  restarted, every wait ends, the set can elect afterwards.
- *Bootstrap*: nobody is locked out while roles change, runs at the same time do
  not all fail, success means the set and the users are the configured ones
  whatever was there before, an undisturbed run fails only where it has to, and
  repeating the commands ends in the configured state.
- *Containers*: a start or restart ends with every instance running in a
  container made for its configuration, whatever it found; starts that race do not
  leave less than that; one failure does not keep `stop` from the other instances.
- *PostgreSQL*: the administrator of the file is let in however commands overlap
  and wherever they are interrupted; setup-users shuts out nobody who could
  connect; success means that the server works with what the file says; a start can
  be repeated.
- *Hosts file*: names that nobody asked to change keep their address; a command
  that reports success has had its effect; of commands that undo each other at
  least one wins, but for what two writes that mix can do to a remove.
- *Certificates*: key and certificate belong together, the CA that is there has
  signed them, chain and PEM are of the same files, the passphrase on file opens
  the CA, and overwriting everything repairs whatever was left.
- *Processes*: a process of somebody else is signalled only for one of the reasons
  that pids and ports bring about, and all of those that the call has to end are gone
  when it returns.

`PROJECT.json` lists the hazards line by line, with the properties that cover
them or the reason why none does.

## 2. Modules

| Module | What it is |
|---|---|
| `RollingPlan` | the abstract promise of a rolling restart: take one member down, renew it, at most once per run |
| `MongoRollingRestart` | the command among mongods that boot, elect and die; refines `RollingPlan` |
| `MongoRollingRestartProofs` | theorems about it |
| `MongoBootstrap` | `start`, `start --setup-users`, `setup-users` as runs that may overlap |
| `MongoBootstrapProofs` | theorems about it |
| `MongoLifecycle` | `start`, `stop` and `restart` over the containers of a set, its network and the fingerprints |
| `MongoLifecycleProofs` | theorems about it |
| `PostgresConf` | the lines of `pg_hba.conf` and the rules of the schema, as operators |
| `Postgres` | `start`, `stop`, `setup-users` and `setup-dbs` on one server and its volume |
| `PostgresProofs`, `PostgresDoneProofs` | theorems about it |
| `EtcHosts` | commands that rewrite the hosts file |
| `EtcHostsProofs` | theorems about it |
| `Certs` | generators of certificates, run by the commands and by both starts |
| `CertsProofs` | theorems about it |
| `Processes` | `startProcess` and `endPIDs` among processes that fork, end and reuse pids |
| `ProcessesProofs` | theorems about it |
| `MCMongoBootstrap`, `MCMongoLifecycle`, `MCPostgres`, `MCEtcHosts`, `MCCerts`, `MCProcesses` | constants for TLC |

The modules meet at what one part leaves to the other. `MongoLifecycle` ends where
the instances listen; `MongoBootstrap` begins there. `MongoRollingRestart` is one
restart in full, among elections, of which `MongoLifecycle` keeps what it does to
containers. `Certs` is what both starts do before they run a container;
`Postgres` finds the certificates made. The ensure command of `EtcHosts` is the step
of `mongo start` before it connects.

### 2.1 MongoRollingRestart

Variables in four groups. The environment: `container` and `current` are what
Docker says (is there a container, does its label equal the fingerprint),
`role` is what each mongod reports, `frozen` the members that stepped down and
may not stand yet. The command: `pc`, `phase`, `unread`, `seen`, `target`,
`restarted`, `attempts`, `clientOpen`. History: `booted`, `served`, `cliDown`,
`electedSince`, which only properties read. Bounds: `failovers`, `crashes`,
`faults`, `runs`.

| Code | Actions |
|---|---|
| `getStatusFromAllMembers`: `Promise.all` over the instances | `ReadMember`, `ReadFails`; each answer is a step, so a snapshot mixes moments |
| `restartNonPrimaryMembers`, `getNextNonPrimaryMember` | `ChooseNonPrimary`, `NonPrimariesDone` |
| `restartPrimaryMember` | `ChoosePrimary`, `PrimaryAlreadyRestarted`, `NoPrimaryFound` |
| `stepDownPrimary` | `Connect`, `ConnectFails`, `StepDown`, `StepDownAttemptFails` |
| `waitForNewPrimary` | `NewPrimaryFound`, `NewPrimaryTimeout` |
| `stopMongodInstance` | `StopFindsRunning`, `StopSkips`, `Kill`, `KillFindsStopped`, `RemoveStopped` |
| `startMongodInstance` | `StartFindsNothing`, `StartFindsOutdated`, `StartFindsRunning`, `StartFindsStopped`, `Create`, `CreateConflicts`, `Listening`, `NotListening` |
| `waitForMemberState` | `StateReached`, `StateTimeout` |
| `verifyMemberHealthAfterRestart`, `restartedInstances` | `MarkRestarted`, `HealthFails` |
| `verifyAllMembersAreHealthy` | a third pass, then `Finish` |
| `docker` failing | `DockerFault`: an inspect that fails reads as "false" (`utils/docker.ts`), other commands throw |
| mongod (external) | `Boot`, `CatchUp`, `Elect`, `Thaw`, `LoseMajority`, `Failover`, `Crash` |
| operator (external) | `Interrupt`, `Rerun`; nothing of the command is persisted |

Instance `i` stands for the member that the lookup by host name finds for it.
Durations are abstracted: a wait may time out at any step, and ends well when its
condition holds.

### 2.2 MongoBootstrap

Authorization is enabled, the containers run, and the image's entry point has
made the admin of the configuration a user with role `root`
(`MONGO_INITDB_ROOT_USERNAME`, `startMongo.ts:312`). From there: `file` is the
configuration file, `rs` the members in the persisted configuration of the set,
`primary` whether it has one, `password` and `roles` the users of the database.
Per run: `pc`, `mode`, `cfg` (the file as read at the start), `probe` (the
credential the probe settled on), `snapUsers` and `snapRoles` (the result of
`getExistingUsers`), `at`, `left`. History: `solo` and `calm`.

| Code | Actions |
|---|---|
| `probeReplicaSetWithCredentialFallback`: cluster admin, then admin | `ProbeAnswers`, `ProbeUnavailable` |
| `reconfigReplicaSetIfMembersChanged` | `CompareMembers`, `Reconfig` |
| `rs.initiate` as the admin; the script returns quietly when a config exists | `Initiate` |
| `runMongoshInContainerOrThrow` throws | `SetRefused` |
| `waitForReplicaSetPrimary`, `assertMongoReplicaSetReady` | `PrimarySeen`, `Ready`, `WaitTimesOut` |
| `setupUser` for the cluster admin: look, then create | `ClusterAdminExists`, `ClusterAdminMissing`, `CreateClusterAdmin` |
| `setupMongoUsers`: one snapshot, then the users of the file in order | `TakeSnapshot`, `UserAppeared`, `UserMissing`, `CreateMissing` |
| `updateMongoUserRoles`: grant, then revoke; `updateMongoUserPassword` always | `GrantRoles`, `RevokeRoles`, `SetPassword` |
| removal of users the file does not list | `RemoveUser`, `Finish` |
| mongod refuses, the user exists or is gone; no primary in time | `UserStepRefused`, `NoPrimaryInTime` |
| mongod (external) | `Elect`, `LosePrimary` |
| operator (external) | `Launch`, `Interrupt`, `Edit` |

`mongo setup-replica-set` is `start` with `--setup-users`
(`setupReplicaSetMain`), so it needs no mode of its own. A name in the model is
a user name with its `authDb`. The database is asked about the set with the role
`root` or `clusterAdmin` and about users with `root` or `userAdminAnyDatabase`:
those are the only rights the commands rely on.

Assumptions that restrict what is modelled:

- `SameAdmin`, the premise of `AdminKeepsRights`: the configurations agree on name
  and password of the admin. The commands log in with the admin of the file, so a
  new admin password there is refused everywhere.
- No user is listed twice. The schema does not demand it; two entries with the
  same key would be applied one after the other.
- Two branches of `setupReplicaSet` are left out. The catch of "already
  initialized" (l. 419-443) does not trigger, because the script it runs catches
  that error itself; the branch "initialized but no persisted config" (l. 403)
  needs the configuration to disappear between two reads.
- `updateMongoUser` (`applyUserChanges.ts:102`) has no caller and is left out.
- `configAdminCount === 0` in `setupUsers.ts` is in the model (`ToDelete`), but the
  schema demands an admin and the CLI never gets there.

### 2.3 MongoLifecycle

The environment: `container` (state, fingerprint label, the `mongod.conf` its mongod
has read), `network`, `hostConf` (the generated files), `file`. Per run: `phase` of
the run as a whole, `mode`, `cfg` (the file as read), `step` of each instance. The
fingerprint is a record of what `docker run` depends on: `run` for everything in
the file, `init` for the root user's environment and `net` for the network.
History: `booted`, `solo`, `calm`.

| Code | Actions |
|---|---|
| `startMongoMain`, `stopMongoMain`, `restartMongo` begin | `Launch` |
| `ensureDockerNetwork` | `NetworkExists`, `CreateNetwork` (the second of two is refused) |
| the loop of start, the rolling order of restart, `Promise.all` of stop | `MayBegin`, `Begin`; `StatusFails` is the status pass of restart that misses a member |
| `stopMongodInstance` | `StopInspects`, `StopInspectFault` (an inspect that fails reads as "nothing there"), `StopContainer`, `StopFault`, `RemoveStopped` |
| `generateMongoDockerConfigForMongod` | `WriteConf` |
| `startMongodInstance`: exists, label, `rm -f`, running, `start`, `run` | `StartExists`, `StartHash`, `RemoveContainer`, `StartRunning`, `StartContainer`, `RunContainer`, `DockerFault` |
| `waitForInstanceIfRequested` in a restart; `assertMongoInstancesListening` | `InstanceListening`; `InstancesListening` |
| end of the loop, `removeDockerNetwork` | `InstancesDone`, `RemoveNetwork` |
| operator and mongod (external) | `Edit`, `Kill`, `Crash` |

`docker rm -f` and `docker rm` of a container that is gone are no error in the
code, nor in the model. `docker network rm` is refused while a running container
is attached.

### 2.4 PostgresConf and Postgres

`volume` has what outlives the container: `pg_hba.conf` as a set of lines, of
`postgresql.conf` whether SSL is on and how passwords are stored, the password of
each role, the databases, who has privileges where, on what is there and (default
privileges) on what will be, and (history) `used`, the files that commands on it have
worked with. A volume that is made while commands are running
begins with the files of those and of the copies they hold (`NewVolume`), since they
may write them to it. `live` is what the server has loaded, at its start or a reload.
`connected` are the commands with a client of the running server. `run` has the local
variables of a command: its copies of both files and whose work they were (`seen`),
how far it is, and what it has written. `solo` and `loaded` (history) say of a command
that neither another one nor a crash came in between, and that the server had loaded
all lines when it began.

`Accepts` is the server's decision about a client: the role and the database exist,
a line fits, the password is right if the line asks for one. Everything that a
command does with a client or by `docker exec` depends on it or on the server being
up. `ModesIn` are the SSL modes a command tries.

| Code | Actions |
|---|---|
| `startPostgresInstance` up to `docker run`: `ensureVolume`, `ensureContainerNotRunning` | `VolumeRemove`, `VolumeCreate`, `Inspect`, `RemoveContainer`, `RunContainer` |
| the wait for the server, and the client for the rest | `WaitForReady` |
| `configurePostgresAuthorization`: random password of postgres, `password_encryption`, the lines | `AlterPostgres`, `ReadConf`, `WriteConf`, `SyncHba`, `WriteHba`, `Reload` |
| `configurePostgresSSL`, restart, wait | `ReadSsl`, `WriteSslConf`, `WriteSslHba`, `Reload`, `Restart`, `WaitForReadySsl` |
| `setupPostgresUsers` | `ConnectForUsers`, `ReadSnapshot`, `WriteUsersHba`, `WriteUsersConf`, `SyncUser`, `UsersSynced`, `RandomisePostgres`, `Reload` |
| `setupDatabases` | `ConnectForDbs`, `CreateDatabase` |
| `stopPostgresInstance` | `FindContainer`, `StopContainer`, `RemoveStopped`, `RemoveVolume` |
| operator and machine (external) | `Launch`, `Edit`, `Kill`, `Crash` |

A write of a file is one step, as the container's `cat` gets it in one call; the
statements for one user are one step, in the order of the code, with the point at
which they fail. Per database a user has privileges on what exists, all or none since the code
grants the same ones everywhere, and default privileges, which decide about the tables
and sequences made later. A grant gives both (`setupUsers.ts:112-134`), a revoke takes
back only the first (`setupUsers.ts:155-171`). Tables themselves are not modelled: nobody
makes one, or a schema, while a user's privileges are set.

### 2.5 EtcHosts

A file is the sequence of its entries; a line's further names are its aliases,
which the code keeps as a comment and the resolver looks at. Between `open` with
truncation and `write` the file is `Empty`. `writeFile` truncates only there: if another
command has written in between, the end of a longer text stays behind a shorter one.
Lengths are not modelled, so any end may stay (`Ends`): some last lines, before them the
rest of a line that was cut, whose first word, whatever it was, is read as an address
(`Scrap`). `mixed` (history) says that this has happened. `tmp` is the one temporary file that all
commands share; `attached` says whose open file is still the one of that name, since
another command may have removed it. `filter` is the fold `Selected`, and the loop of
`setHosts` the fold `SetHosts`.

| Code | Actions |
|---|---|
| `setHosts`, `removeHost`, `listHosts`: read, edit, `formatHostsFile` | `ReadAndEdit`, `ReadAndList`; an empty file is refused |
| `writeHostsFile`, direct | `OpenHostsFile`, `WriteHostsFile`, `WriteFails` (then with sudo) |
| with sudo: temporary file, `sudo cp`, `rm` | `OpenTempFile`, `WriteTempFile`, `SudoCopies`, `SudoFails`, `RemoveTempFile` |
| the catch: cp from the backup | `Recover` |
| `ensureHostnamesResolvable` | `CheckName`, `Checked`, `ChooseMode`, `Rechecked`, `Verify` |
| backup, restore | `BackupHostsFile`, `RestoreHostsFile` |

A write puts its text in place in one piece; `cp`, another program, opens and writes in
one step.

### 2.6 Certs

The CA is number 0 of the certificates. Keys and passphrases are numbers, equal if
and only if the code would have the same bytes. `guarded` is a file of mode 400 or of
the container's user: one that a user other than root can unlink and cannot write.
`cut` is the history the properties speak about: what has gone wrong since the last
run that made everything anew. `MaxId` bounds the numbers of keys and passphrases: a
step that draws a new one is taken only while one is left. An `openssl` that fails is
taken to leave its output file as it was.

| Code | Actions |
|---|---|
| configurations of CA and certificates, kept or written | `KeepConfig`, `BlankConfig`, `OpenConfig`, `WriteConfig` |
| both there? `--force` unlinks | `Check`, `CheckFails`, `Unlink` |
| `openssl genrsa`, `chmod 400` (CA), `req`, `x509` | `Genrsa`, `Chmod`, `Request`, `Sign`, `GenerateFails` |
| chain and combined PEM | `WriteChain`, `WriteBundle` |
| permissions of the files | `MongoPermissions`, `PostgresPermissions` |
| operator (external) | `Launch`, `Kill` |

### 2.7 Processes

`proc` is the process table: parent, group and whether the process descends from
one that was started here. Every process may fork, those of others too. A pid is given
anew only when no process and no group has it. `pids` and `walk` are the lists of
`endPIDs`; of the history variables `due` are the processes that have to be gone and
`exposed` those that there is a reason to signal: who has the port open, who has a pid
that was found or is in the file and that another process had before, and who comes from
these. `Follow` is one step of that, children and groups as the options ask for them,
`Kin` all that it leads to. `Descendants` is the least set that has the children of its
members.

`endPIDs` also takes a list of pids (`endPIDs.ts:87,106`). Nobody in the repository gives
it one, and the option is left out.

| Code | Actions |
|---|---|
| `startProcess`: spawn, then `writePIDs` | `Spawn`, `OpenPidFile`, `WritePIDs`, `KillStart` |
| `getPIDsFromFilePath`, `getPIDsFromPorts` | `Begin`, `ReadPidFile`, `FindByPort`, `NothingFound` |
| `findChildrenPIDs` | `FindChildren`, `AllFound` |
| `killPIDs`, the wait, `killPIDs` again | `Terminate`, `KillAfterWait` |
| operating system (external) | `Exit`, `Fork`, `Other` |

## 3. Runs

| Run | Question | Result |
|---|---|---|
| `rolling_restart` | Does the command keep the set in service while everything around it moves? | `TypeOK`, `AtMostOneDown`, `KeepsMajority`, `QuietRunIsComplete`, `OthersServe`, `PrimaryStoppedOnlyIfElectedSince` and the refinement `ImplementsPlan` hold; 1.3 million states |
| `rolling_restart_live` | Does every run end, and does the set elect wherever it ends? | `Terminates` and `RegainsPrimary` hold |
| `rolling_restart_late_election` | Does success mean every member was restarted? | violated: finding 1 |
| `rolling_restart_retry` | Does a retried step-down have a connection? | violated: finding 2 |
| `bootstrap` | Do start and setup-users bring set and users to the file without a lockout? | `TypeOK`, `AdminKeepsRights`, `RaceHasWinner`, `FinishedAsConfigured`, `OnlyStuckRunsFail` hold; 1.2 million states |
| `bootstrap_live` | Does repeating the commands end in the configured state? | `EventuallyConfigured` holds |
| `bootstrap_rotated` | Does start apply a changed cluster admin, as the docs say? | violated: finding 3 |
| `lifecycle` | Do start, stop and restart leave the containers as the file says, from whatever was left and when runs overlap? | `TypeOK`, `RaceLeavesAllUp`, `EndsCurrent`, `StopGoesOn` hold; 0.7 million states |
| `postgres` | Do the commands on one server keep its users able to connect, and does success mean what the file says? | `TypeOK`, `AdminGetsIn`, `SetupKeepsAccess`, `DoneAsConfigured`, `GrantsAsConfigured`, `StartRepeats` hold; 3.0 million states |
| `etc_hosts` | What can commands that rewrite the hosts file without a lock do to each other? | `TypeOK`, `NoSilentLoss`, `WinnerShows`, `EffectShows` hold; 4.3 million states |
| `certs` | Which certificates do runs leave that overlap, fail, are killed or overwrite a part? | `TypeOK`, `EndsMatched`, `RepairWorks`, `SignsAgain`, `OverlapsMatch` hold; 3.3 million states |
| `processes` | Whom does ending by pid reach while pids are reused? | `TypeOK`, `OnlyOursHit`, `EndReachesAll` hold; 1.6 million states |

Notes on the properties:

- `KeepsMajority` says what `docs/commands/mongo.md:227` says ("keeps the
  majority of nodes up at all times"), between runs too. It needs the premise that
  no mongod dies on its own.
- `PrimaryStoppedOnlyIfElectedSince` is as much as the code can promise: the
  member chosen as a secondary may win an election before it is stopped. Then
  it is stopped as primary, without a step-down.
- `QuietRunIsComplete` has the premises that failovers and faults of Docker do not
  happen; without the first there is finding 1, without the second an inspect
  that fails makes the code count a running container as restarted.
- `OnlyStuckRunsFail` names the cases in which an undisturbed run fails, for files
  that agree on the admin: with two admins a run is refused as soon as the other one's
  file has been applied. One case is
  worth knowing: once `setup-users` has replaced the admin's `root` by what the
  file says, only the cluster admin may look at the set. If the file then names
  another cluster admin, `start` fails with "Not authorized to check replica set
  status" until `setup-users` is run, which the message does not say.
- `RaceHasWinner`: without faults and edits, overlapping runs of `start` do not
  all fail, although each may be refused a user that the other created first.

- `EndsCurrent` is about a run that was alone and met no fault; what it finds may be
  anything that earlier runs left. It holds of a restart because a restart replaces
  containers that carry start's fingerprint: see section 4.
- `RaceLeavesAllUp` compares starts of one configuration. Two configurations, or a
  stop among them, leave what the last one did.
- `StopGoesOn` counts: alone, with `k` faults so far, at most `k` instances of the
  file are still running, and the network stays only for one that is.
- `AdminGetsIn` speaks about commands that have all worked with one file on the
  volume, and a file whose own first user the commands connect as (`Administers`). Its
  exceptions are behaviours of the code, listed in section 4.
- `SetupKeepsAccess` speaks about a setup-users that runs alone, on a server that has no
  more SSL than its `postgresql.conf`. With overlap it fails even for one and the same
  file: a start that read `postgresql.conf` before SSL was on writes its copy back, and
  the next reload takes SSL from a server whose lines demand it. TLC finds this with
  three commands and four launches.
- `DoneAsConfigured` has the premise `loaded`: a run killed between writing a file and
  loading it leaves a file that later runs find correct, so that nobody reloads it.
  Faults of earlier commands are no exception otherwise.
- `GrantsAsConfigured` needs lines on the volume that let the administrator into every
  database: where the command has no client, failing is only a warning. It says
  "exactly the databases of the file" of what exists. Of default privileges it says only
  that the databases of the file are among those a user has them in, since none
  is ever taken back.
- `NoSilentLoss` and `WinnerShows` are as much as the code promises without a lock.
  Two `set` commands for different names, both successful, may end with only one of
  them in the file. When two writes were mixed they promise less: an alias of a line that
  was cut may have become its host name, so `NoSilentLoss` then is about names that have
  an entry at first; and `WinnerShows` then is about commands without a remove. Lookups
  take the first line of a name, so what a later text sets wins over the end of the
  earlier one, but a name it removed shows through from there.
- `EffectShows` says of a set that the line which lookups take has the address. Writing
  drops further lines of the name, but nothing is written if the first one has it already.
- The properties of `Certs` have one premise per thing that can go wrong, no wider
  than needed: `EndsMatched` loses the CA's signature after a killed run that was to
  overwrite the CA, and not after one that was to overwrite the certificates.
- `OnlyOursHit` allows for the mistakes that pids and ports bring about, a pid taken over
  and a port that somebody else has open, and for what descends from such a process or is
  in the group it leads, as far as the options ask for children and groups. It excludes
  every other: processes that merely share a parent with one that was found, or are in a
  group that none of those leads.
- `EndReachesAll` demands less than "all descendants": a child whose parent ended
  while children were looked for cannot be found any more. With `stopProcessGroup` it
  is found by its group, if the leader was there when the file was read.

### Bounds

`MongoRollingRestart`: `N = 3` is the smallest set the schema allows, and the one
with the least margin for a majority. `Retries = 1` tells the first attempt from a
later one. One failover, one crash, one fault in each of two runs: the second run
begins in any state an abandoned first run leaves. For `N` beyond 3 and any
bounds there are the theorems. The run for liveness has no Docker fault, since a
fault only makes a command end.

`MongoBootstrap`: two runs, since nothing in the code counts beyond "another run
did it first". Three users: the admin, the cluster admin, one that is neither.
Configurations: as scaffolded (`Base`), with a member moved and an application user
of other rights and password (`Moved`), and with one user as admin of both
(`OneAdmin`, which also makes two users superfluous). A role is one of the three
the code or mongod looks at, or `other`. One edit, one fault (interruption, lost
primary, a wait that times out) in any place. Runs may be repeated without a
bound. The run for liveness has two users and two configurations, since the
tableau for the liveness check multiplies the states.

`MongoLifecycle`: two runs of any command, three instances, the file as scaffolded and
one with another image and set name, two states left behind (nothing; a set with a
container renewed by restart, one whose mongod exited and one missing), one fault.
Three instances are what the order of restart needs; a third run could only do what
one of two has done.

`Postgres`: five files, chosen so that each option is on in one and off in another;
three commands, two of them at a time; one edit; one fault. Three commands are needed
for a stop or a crash between two that depend on each other.

`EtcHosts`: three commands of seven kinds, all overlaps; a file with two lines of one
name and an alias; one fault. Three are needed for a backup, a writer and one
whose recovery restores the backup. One of the two ensures takes any address, so that it
is content with what another command leaves.

`Certs`: two members or one server, four sets of flags. Histories of three runs with
two kills, and histories of two runs that overlap, without kills: both together are
past what TLC can do. `MaxId` is not reached.

`Processes`: four pids, so that they are soon reused; two starts, two forks, one
process of somebody else that comes from nowhere and may fork like the others, one call
of `endPIDs` with one of six sets of options.

The histories that the properties of `Postgres`, `Certs` and `EtcHosts` exclude were
found by TLC, as counterexamples to the property without the premise.

Deadlock is switched off for `MongoRollingRestart` and for the modules of 2.3 to
2.7: when the runs are used up nothing happens. `MongoBootstrap` has no end.

### Fairness

- `WF(Command)`: the command is one process, and each of its awaits ends in an
  answer, an error or a timeout.
- `WF` of `Boot`, `CatchUp`, `Thaw` and of the election: a mongod that was
  started gets ready and a set that can elect does. No fairness for crashes,
  failovers, faults, interruptions and reruns.
- `WF(Run(p))`, `WF(Elect)` in `MongoBootstrap`, for the same reasons.
- `SF(Launch(p, m))` for `start --setup-users` and `setup-users`: it describes the
  operator, not the code. `EventuallyConfigured` reads: an operator who repeats both
  commands gets there. `start` without `--setup-users` may be given any number of
  times, or never. Neither command would do alone: `setup-users` does not initiate
  the set, and `start` may be stuck as described above.

`MongoLifecycle`, `Postgres`, `EtcHosts`, `Certs` and `Processes` state no fairness:
their commands are straight lines of awaited calls without loops that wait for
another party, and what is hard in them is what they leave behind.

## 4. Findings

1. *A late election leaves a member out* (`restartReplSet.ts:365`). The loop over
   the secondaries ends, another member is elected, and the primary that
   `restartPrimaryMember` finds is one that was restarted already. It returns, and
   nobody looks at the old primary again. The command reports success.
2. *Step-down retries cannot succeed* (`restartReplSet.ts:86`). The client is made
   before the retry loop and closed after every attempt.
3. *start does not sync the cluster admin* (`setupUsers.ts:88`), while
   `docs/commands/mongo.md:24` says it does: an existing user is left as it is.

Seen while reading, and not the subject of a run: `--force` is described as
"Force restart without step-down" (`bin.ts:643`) while the step-down is still
sent with `force: true`; the result of `verifyMemberHealthAfterRestart` is not
looked at (`restartReplSet.ts:253`); a rerun while a member is down always fails
on its status pass (`replicaSetStatus.ts:190`), so the command cannot repair what
it left, `start` has to.

Seen while modelling the other parts. Each is an exception that a property names or a
case its premise leaves out; the runs find them when it is taken away. None is
the subject of a run of its own.

*Containers*

- restart computes the fingerprint without `initEnv`, start with it
  (`startMongo.ts:330`). After a restart an unchanged start therefore replaces every
  container instead of keeping it.
- `replicaSetName` is in `mongod.conf` and not in the fingerprint: a container that is
  kept goes on with the file it read when it came up.
- stop goes over the instances of the file as it is now; one that was dropped from
  the file runs on, and keeps the network.

*PostgreSQL*

- `keep: false` with a container that is stopped: the volume is still referred to,
  `volume rm` fails with a warning and the data stay, while
  `docs/configuration/postgres.md:62` says "existing volumes are removed on start".
- A first start with SSL that is interrupted after the lines that demand SSL were
  loaded and before the server has SSL lets nobody in, and cannot be repeated.
- SSL enabled while the container runs: the certificates are not mounted and the
  server is not restarted, and the result of configuring it is not looked at. Once
  enabled it is never taken back from `postgresql.conf`; without the mount
  the server does not boot.
- What was written and not loaded when a command was killed is found in place by all
  later ones, so that nobody loads it.
- An overlapping start or setup-users may write back a `postgresql.conf` read before
  SSL was switched on; with the next reload or boot everyone is locked out.
- Only missing lines of `pg_hba.conf` are noticed: those of a database or user that
  was removed from the file stay.
- start turns trust into scram before setup-users has given the users passwords, and
  under scram the administrator's password cannot be changed by the file, since
  the commands log in with the new one.
- A first user restricted to databases other than postgres locks the commands out.
- Default privileges are granted and never taken back: a user who is taken off a
  database loses what exists there and gets rights on the tables the administrator makes
  later, while `setupUsers.ts:401` says "This ensures permissions are always in sync with
  config".
- Where `postgres` is listed with a password after another first user, the commands
  connect as `postgres` (`postgresRunConfig.ts:186`) and the image makes the first user
  only (`startPostgresInstance.ts:118`): the first start waits for a user that does not
  exist, and fails, while `docs/configuration/postgres.md:72` calls the first user the
  admin. Such files are what `Administers` leaves out.

*Hosts file*

- Two commands that have the file open at once mix it (`helpers.ts:172`, and `:181` for the
  temporary file). One sets `m`, the other removes `h`; both read, both open, the first
  writes, then the second its shorter text. The file is that text and the end of the
  first: `m` has its old address, `h` is still there, and both report success.
- A failed write restores `/etc/hosts` from `/etc/hosts.backup`, which may be older than
  the last successful write (`helpers.ts:188`), and does so if another file was
  given, too.
- Writing drops comments, and later lines with the same host name together with their
  aliases.

*Certificates*

- A generation of the CA killed between `chmod 400` of the key and the certificate
  cannot be repeated by a user who is not root: `--force` unlinks only when both
  files exist (`caGenerator.ts:77`). The same happens to PostgreSQL files of the
  container's user.
- A run that overwrites the CA and is killed before the certificates: the next start
  keeps certificates of the CA that is gone, and succeeds.
- A run killed after signing: the next one finds key and certificate and leaves the
  chain and the PEM missing or old (`certGenerator.ts:38`).
- `overwriteConfig` without `overwriteCA` writes a new random passphrase that does not
  open the CA's key.
- A configuration created and not written is empty, and every later run fails to
  parse it.
- Two starts of a new set can both succeed with members signed by different CAs.
- The step that sets permissions gives the CA's key mode 600 again.

*Processes*

- SIGKILL goes to the pids found seconds earlier; one that is reused is hit, with
  `stopProcessGroup` together with the group it leads by then.
- Without `stopProcessGroup` a child that was forked or orphaned meanwhile survives;
  with it, the group of a leader that has ended survives, since `processExists`
  filters the pid.
- `lsof -i :port` returns clients of the port, too, and the children of whoever has the
  port open are looked up and signalled with them (`endPIDs.ts:110-115`).
- A second start overwrites the PID file; a start killed between spawn and write
  leaves a process that is in no file.


## 5. Proofs

TLAPS checks every theorem for all values of the constants that satisfy the
named assumptions of the modules.

`MongoRollingRestartProofs` (any `N >= 3`, any bounds):

- `TypeCorrect`: `Spec => []TypeOK`. One lemma per part of the next-state relation.
- `OneMemberAtATime` and `RefinesPlan`. `AtMostOneDown` is not inductive: that
  `Kill` finds nobody down follows from the status pass before it, which a
  stopped member cannot answer, and from the fact that nothing between that pass
  and the kill stops anything. `PlanInv` says so: what the command took down has no
  mongod (`DownIsStopped`); where in a restart somebody may be down, and who
  (`DownPlace`); who is renewed at that point (`RenewedPlace`). From `PlanInv` every
  step is a step or a stutter of `RollingPlan`.
- `NextOnlyWhenOthersServe` and `PrimaryIsSteppedDownFirst`. `KnowInv` relates
  what the command has seen to what is the case: outside the waits for the
  target, whatever this run booted has served since (`ServedInv`), and a member that
  did not report PRIMARY, or a target past its step-down, is primary only if it was
  elected since the pass began (`LookInv`).
- `MajorityStaysUp`: `KeepsMajority`. `SilentInv` says who can be out of the vote
  while no mongod died on its own: one member, the one the command is restarting
  or has left behind. A fact about cardinalities does the rest, for `N >= 3`.
- `QuietRunsAreComplete`: `QuietRunIsComplete`. `QuietInv` says, while the primary has
  not changed by itself and no docker command failed, who is left without a new mongod:
  nobody that the command counts as restarted (`RenewedAll`); after the loop over the
  secondaries at most one member, the primary; after that at most the target
  (`LeftPlace`). A member that an earlier run left down makes the status passes fail, and
  one mongod boots at a time, even across interrupted runs (`StartingInv`).

`MongoBootstrapProofs` (any set of runs, names, hosts and configurations that
satisfy `IsConfig`):

- `TypeCorrect`.
- `AdminNeverLockedOut`: `Spec => []AdminKeepsRights`. The invariant `AdminInv` says
  why acting on old snapshots is safe here. Every snapshot lists the admin; a snapshot in
  which the admin has `userAdminAnyDatabase` is still right about that, since no run
  ever revokes it; a run about to revoke roles of the admin has granted it
  `userAdminAnyDatabase`; and no run is about to remove the admin. The order in
  `updateMongoUserRoles`, grant before revoke, is what the proof rests on.
- `RaceAlwaysHasWinner`: `RaceHasWinner`, for any number of runs but none
  (`ProcAssumption`). `RaceInv` (`Winner`): some run of start has not failed and is not at
  a step that will be refused, and while neither admin may look at the set, some run
  is at work that will give the cluster admin that right.
- `SuccessIsConfigured`: `FinishedAsConfigured`, and `FailsOnlyIfStuck`:
  `OnlyStuckRunsFail`. `SoloInv` says what a run that is alone knows: that what it found
  out about the set is still so, and that its members are the file's from `rs.initiate`
  or the comparison on (`SetHolds`); that the users before the current one are as the
  file has them and the snapshot is right about those after it (`LoopHolds`); and that
  what is left to remove are the users that the file does not list (`RemovalHolds`). The
  second one also needs `FirstAdminIsRoot`: as long as there is no set, the admin still
  has `root`, so that the first start can initiate it.

`MongoLifecycleProofs` (any runs, configurations, number of instances, leftovers and
faults):

- `TypeCorrect`.
- `RaceIsHarmless`: `Spec => []RaceLeavesAllUp`. `StartInv` says how far a run is with
  which instance: only with its own, and a start with one after the other. `RaceInv`
  then holds while all runs are starts of one configuration and nothing failed: from
  the moment a run has looked at the label, the container is absent or has the
  configuration's fingerprint, for another run never makes anything else; and an
  instance that a run has seen up is up, unless another run has removed it and is at
  the step that makes it again. When none is running nobody is at that step.
- `RunsEndCurrent`: `Spec => EndsCurrent`. Three invariants: `SoloInv` says that a run
  that was alone so far is alone now; `PastInv` what the phase of a run says about its
  steps; `AloneInv` what a run that is alone and met no fault knows about each
  instance at each step, from what it looked at and did itself. That nothing else
  moves the containers meanwhile is the lemma `StillAlone`.
- `StopGoesOnToTheEnd`: `Spec => StopGoesOn`. `StopInv` says that a stop only stops
  and, while it is alone, that the instances it is done with and that run
  nevertheless are at most as many as the faults: a step of `stop` that gives up an
  instance which runs is a fault (`StopLeaves`).

`PostgresProofs` and `PostgresDoneProofs` (any commands at the same time, any files that
the schema accepts, any roles, databases and passwords, any bounds):

- `TypeCorrect`: `TypeOK` is not inductive by itself. `Typed` adds that a command is
  at a step of its kind and has what the step needs (`Placed`), and that a container has
  a volume with data (`Backed`).
- `AdminAlwaysGetsIn`: `Spec => []AdminGetsIn`. `Accounted`: all that is on the volume,
  or in the copies of a running command that may write to it, comes from files in
  `used`. `OneFile`: while that is one file, the lines on the volume, in every copy and
  in the server are among the four that commands with this file write, the role of the
  administrator is there with the password of the file, and SSL is on only if it asks
  for it. The lines decide the rest: each of the four lets the administrator in, two
  of them only with SSL.
- `StartCanRepeat`: `StartRepeats`. `Alone` says what nobody else has changed since a
  command that is alone looked: its client is connected, a container it removed is gone,
  the one it started is up with the certificates it mounted. With `AdminGetsIn` no step
  of a start is left that fails.
- `SuccessIsConfigured`: `DoneAsConfigured`. `AllUniform`: all lines that are ever
  written let in over the network in one way, so that no file has a line of trust
  beside one of scram. `Loaded`: at each step of a command that began with all lines
  loaded, which lines are on the volume, which of them the server works with, and what
  the command's copy is worth.
- `GrantsAreConfigured`: `GrantsAsConfigured`. `AllOpen`: lines on the volume, in copies
  and in the server let a name in everywhere if the files they come from do; with
  `AllUniform`, a client that is let in to one database is let in to all of them, so that
  no database is skipped with a warning (`ReachesAll`). `AllGranted`: a setup-users that
  is alone goes over the users from the first one, and what it has granted and revoked
  stays so.
- `SetupShutsNobodyOut`: `SetupKeepsAccess`. `AllAccess`: the lines that a setup-users
  alone has written are those of its file, a server without the SSL of the file works
  with those lines, and the passwords it has set stay. So a reload that brings in new
  lines finds the passwords they ask for (`ReloadKeepsAccess`), and the step that sets
  one sets that of the file (`StepKeepsAccess`).

`CertsProofs` (any servers, files, runs and kills):

- `TypeCorrect`: with `Placed`, what each step finds in place.
- `RepairNeverFails`, `MatchedAtTheEnd`, `AlwaysSignsAgain`, `MatchedAfterOverlaps`: the
  four properties from one invariant. `HistoryInv` says which marks of `cut` are there
  while a run is under way, `SoloInv` what a run that is alone has made so far
  (`ConfigsOfRun`, `PassedByRun`, `MadeByRun`) and that overwriting everything finds
  nothing in its way (`RepairOfRun`); `FilesInv` has one clause for each relation between
  files: pairs (`WholeInv`, `FreshInv`), the certificates that overlapping runs settle
  on (`SettlingInv`), the CA that signed (`TrustInv`) and its passphrase (`SignInv`), each
  under its own premise about `cut`.

`EtcHostsProofs` (any commands, names, addresses and entries, any number of commands and
faults):

- `TypeCorrect`: with `Placed`, what was asked of a command by where it is.
- `NothingLostSilently`: `NoSilentLoss`. `KeptInv`: the hosts file, the temporary file,
  the backup and whatever a command is about to write have for each untouched name the
  address it had at first, or are empty. A text that lies over the end of another one
  keeps it because a line found in the text in front is found (`FrontWins`), and a name
  that has an entry at first has one in every text; one that has none is safe only
  until writes are mixed (`MixedStays`). That the file is not empty at the end needs
  `SettledInv`: while nothing has failed, somebody is still to write an empty file.
- `OneWins`: `WinnerShows`, from `SettledInv`: what is in the hosts file, if it is not the
  first one, begins with what one command made (`WrittenBy`), which has looked at it
  since or is still to do so; what a command makes shows what it was asked for (`Made`),
  and still does over the end of another text, unless it was to remove a name
  (`OverlayShows`).
- `AloneHasEffect`: `EffectShows`, from `Made` and `Alone`: nobody changes the file between
  the look of a command that is alone at a name and its end.

  These rest on what the operators on entries do, for files and lists of names of any
  length: `SelectedLookup`, `FormatKeeps`, `RemoveHostDoes`, `SetHostDoes`, `SetHostsDoes`,
  `EndsTypes`.
  They fold over sequences, so that their proofs are inductions. The induction theorems
  of the library take an operator as a parameter, which the provers cannot instantiate;
  but it has the well-foundedness of the naturals as a statement about sets. From it
  follow the least number principle (`Least`), induction over a set (`Climb`), and that
  the function by which a fold is defined exists (`FoldExists`).

`ProcessesProofs` (any pids, calls and bounds):

- `TypeCorrect`.
- `OthersAreSpared`: `Spec => []OnlyOursHit`. `HitInv` has three parts. Of the process
  table (`Table`): a group has the pid of its leader or of nobody (`Leads`), and parents,
  children and members of one group are all ours or all others' (`Families`, `Kindred`).
  Of the file (`FileIsOurs`): as long as the process in it lives, it is ours. Of a call:
  whatever it has found, and the groups these lead, is ours or exposed (`FoundFairly`),
  and what is exposed passes this on (`ExposedFollow`), also to the processes that are
  born while the call waits (`BirthKeeps`). Like `Descendants`, `Kin` is an intersection
  of closed sets, so that it is closed without induction (`KinClosed`).
- `EndReaches`: `Spec => []EndReachesAll`. `ReachInv` says who is still to be found:
  every process that is due is among the pids found or below one that is asked next
  (`DueInv`), or in a group whose leader is in the file (`Leads`). A child that is
  orphaned falls out of the first only with its parent. `Descendants` is defined as the
  intersection of the sets that are closed under children, so that what it contains
  follows from its definition (`DescendantsClosed`) without induction.

Each inductive invariant was checked with TLC on the instance of the run before it was
proved, or on a smaller one. Attempts to prove changed four properties, which the runs
had passed only because their instances were small or alike:

- `AdminGetsIn` and `DoneAsConfigured` needed `NewVolume` and `Administers` as they are
  now: a command may outlive the volume it read, and a file whose lines leave the
  administrator out of a database keeps its own commands out.
- `DoneAsConfigured` spoke of runs without faults; what the proof uses, and all it
  uses, is that the server had loaded its lines.
- `OnlyStuckRunsFail` is false for files that name different admins.
- `SetupKeepsAccess` was claimed for overlapping commands with one file, and passed over
  the steps that set a user's password and go on to the next user at the same place.

Model-checked only: liveness (`Terminates`, `RegainsPrimary`, `EventuallyConfigured`),
which is out of the prover's reach because of fairness and `ENABLED`.

## 6. Not modelled, and what is left

Left out because they have no state that could go wrong between two steps:

- *run-env*: env files are read and merged in a fixed order, and one child is
  waited for.
- *Keys, passwords, key files and SSH keys*: one call of openssl, ssh-keygen or the
  random source each.
- *Scaffolding, quick starts, prompts, validation of `mongo` files*: they make the
  configurations that are the inputs here. The rules of the postgres schema are
  in `PostgresConf!Valid`, the generated `mongod.conf` in `MongoLifecycle`.
- *Download of the MongoDB tools*: package manager commands in a row.
- *Process search*: parses the output of ps, netstat and lsof.
- *Logging, files, dates, test helpers.*

Left out of modelled parts:

- `startProcessSpawner`: its message to the parent and its forwarding of SIGTERM;
  `getProcessGroupId`, which is recorded and read by nobody.
- `certs ca` and `certs cert` given directly (`bin.ts:90-150`); the generators they
  call are in `Certs`.
- The lookup of members by substring of a host name (`restartReplSet.ts:158`):
  instance names are abstract, so a name that contains another one does not occur.
- The comments of a hosts file, which every write drops, and the lengths of its texts.
- The option `pids` of `endPIDs`, which nobody in the repository uses.
- The tables and schemas of PostgreSQL databases, and with them what default privileges
  come to.
- What an `openssl` that fails may leave in its output file.

What would come next: an abstract specification of the hosts file as a register with lost
updates, which `EtcHosts` would refine.
