------------------------ MODULE MongoRollingRestart ------------------------
(***************************************************************************)
(* `mongo restart`: the rolling restart of a replica set whose members run *)
(* as one Docker container each (mongo/restart/restartReplSet.ts).         *)
(*                                                                         *)
(* One process, the command, runs restartReplicaSetMembersRolling: it      *)
(* reads the status of every member, restarts one member that did not      *)
(* report PRIMARY, and repeats until none is left; then it steps the       *)
(* primary down, waits for another one and restarts the old one.  Every    *)
(* await is a point where the environment can move: members boot, catch    *)
(* up, win elections, die; Docker commands fail; the operator interrupts   *)
(* the command and runs it again.                                          *)
(*                                                                         *)
(* Abstracted: host names (instance i is the member the status lookup      *)
(* finds for i), durations (a wait ends when its condition holds or its    *)
(* clock runs out), credentials, and logging.                              *)
(***************************************************************************)
EXTENDS Integers, FiniteSets

CONSTANTS
  N,              \* number of instances of the replica set
  Retries,        \* the `retries` of stepDownPrimary
  MaxFailovers,   \* bound: step-downs nobody asked for
  MaxCrashes,     \* bound: mongod processes that die on their own
  MaxFaults,      \* bound: Docker commands that fail
  MaxRuns         \* bound: runs of the command

ASSUME NAssumption == N \in Nat /\ N >= 3
ASSUME RetriesAssumption == Retries \in Nat
ASSUME BoundsAssumption ==
  /\ MaxFailovers \in Nat
  /\ MaxCrashes \in Nat
  /\ MaxFaults \in Nat
  /\ MaxRuns \in Nat \ {0}

Instances == 1..N
NoInstance == 0

VARIABLES
  container,    \* Docker's view of the container of each instance
  current,      \* instances whose container label equals the config fingerprint
  role,         \* what each mongod reports about itself
  frozen,       \* instances that stepped down and may not stand yet
  force,        \* --force
  pc,           \* where the command is
  phase,        \* which loop of the command a status pass serves
  unread,       \* instances the current status pass has not heard from
  seen,         \* what the current status pass heard
  target,       \* instanceNumber being restarted
  restarted,    \* restartedInstances
  attempts,     \* failed step-down attempts
  clientOpen,   \* is the step-down client connected
  booted,       \* history: instances given a new mongod by this run
  served,       \* history: instances that reached PRIMARY/SECONDARY since boot
  cliDown,      \* history: instances the command stopped and did not start
  electedSince, \* history: instances that won an election since the pass began
  failovers, crashes, faults, runs   \* how much of each bound is used

envVars   == <<container, current, role, frozen>>
cliVars   == <<pc, phase, unread, seen, target, restarted, attempts, clientOpen>>
histVars  == <<booted, served, cliDown, electedSince>>
boundVars == <<failovers, crashes, faults, runs>>
vars == <<envVars, force, cliVars, histVars, boundVars>>

Roles == {"DOWN", "STARTING", "RECOVERING", "SECONDARY", "PRIMARY"}
Reports == {"RECOVERING", "SECONDARY", "PRIMARY"}
Serving == {"SECONDARY", "PRIMARY"}
Phases == {"secondaries", "primary", "verify"}
Resting == {"done", "failed"}
RestartSteps == {"connect", "stepdown", "await", "stop", "kill", "remove",
                 "start", "create", "listen", "state", "health"}
Steps == {"scan"} \union RestartSteps

Unseen == "UNSEEN"
NothingSeen == [i \in Instances |-> Unseen]

IsFirst(i, S) == i \in S /\ \A j \in S : i <= j

EnvTypeOK ==
  /\ container \in [Instances -> {"absent", "stopped", "running"}]
  /\ current \in SUBSET Instances
  /\ role \in [Instances -> Roles]
  /\ frozen \in SUBSET Instances

CliTypeOK ==
  /\ pc \in Steps \union Resting
  /\ phase \in Phases
  /\ unread \in SUBSET Instances
  /\ seen \in [Instances -> Reports \union {Unseen}]
  /\ target \in Instances \union {NoInstance}
  /\ restarted \in SUBSET Instances
  /\ attempts \in 0..Retries
  /\ clientOpen \in BOOLEAN

HistTypeOK ==
  /\ booted \in SUBSET Instances
  /\ served \in SUBSET Instances
  /\ cliDown \in SUBSET Instances
  /\ electedSince \in SUBSET Instances

BoundTypeOK ==
  /\ failovers \in 0..MaxFailovers
  /\ crashes \in 0..MaxCrashes
  /\ faults \in 0..MaxFaults
  /\ runs \in 0..MaxRuns

\* Every variable holds a value the code can give it.  In the steps of a
\* restart the command has a target.
TypeOK ==
  /\ EnvTypeOK
  /\ CliTypeOK
  /\ HistTypeOK
  /\ BoundTypeOK
  /\ force \in BOOLEAN
  /\ pc \in RestartSteps => target \in Instances

\* A set as `mongo start` leaves it: every member up, one of them primary.  The
\* containers may carry another fingerprint than the one restart computes.
Init ==
  /\ container = [i \in Instances |-> "running"]
  /\ current \in {{}, Instances}
  /\ \E p \in Instances :
       role = [i \in Instances |-> IF i = p THEN "PRIMARY" ELSE "SECONDARY"]
  /\ frozen = {}
  /\ force \in BOOLEAN
  /\ pc = "scan"
  /\ phase = "secondaries"
  /\ unread = Instances
  /\ seen = NothingSeen
  /\ target = NoInstance
  /\ restarted = {}
  /\ attempts = 0
  /\ clientOpen = FALSE
  /\ booted = {}
  /\ served = Instances
  /\ cliDown = {}
  /\ electedSince = {}
  /\ failovers = 0
  /\ crashes = 0
  /\ faults = 0
  /\ runs = 1

-----------------------------------------------------------------------------
(***************************************************************************)
(* Shared pieces.                                                          *)
(***************************************************************************)

Primaries == {i \in Instances : role[i] = "PRIMARY"}
Reachable(i) == role[i] \in Reports
Voters == {i \in Instances : role[i] \in Reports}
HasMajority == 2 * Cardinality(Voters) > N

\* The command ends with outcome p: its variables go with the process.
End(p) ==
  /\ pc' = p
  /\ phase' = "secondaries"
  /\ unread' = {}
  /\ seen' = NothingSeen
  /\ target' = NoInstance
  /\ restarted' = {}
  /\ attempts' = 0
  /\ clientOpen' = FALSE

\* The command gives up: an exception reaches the CLI.
Fail == End("failed")

\* The command moves on to step p of the same restart.
GoTo(p) ==
  /\ pc' = p
  /\ UNCHANGED <<phase, unread, seen, target, restarted, attempts, clientOpen>>

\* getReplicaSetStatus with ping 'all' is called: nobody has answered yet.
BeginPass(ph) ==
  /\ pc' = "scan"
  /\ phase' = ph
  /\ unread' = Instances
  /\ seen' = NothingSeen
  /\ electedSince' = {}

\* One more Docker command fails.
UseFault ==
  /\ faults < MaxFaults
  /\ faults' = faults + 1
  /\ UNCHANGED <<failovers, crashes, runs>>

\* The container of the target stops: its mongod is gone.
TargetDown(c) ==
  /\ container' = [container EXCEPT ![target] = c]
  /\ role' = [role EXCEPT ![target] = "DOWN"]
  /\ frozen' = frozen \ {target}
  /\ cliDown' = cliDown \union {target}
  /\ UNCHANGED <<current, booted, served, electedSince>>

\* A new mongod runs in the container of the target.
TargetBoots ==
  /\ container' = [container EXCEPT ![target] = "running"]
  /\ role' = [role EXCEPT ![target] = "STARTING"]
  /\ booted' = booted \union {target}
  /\ served' = served \ {target}
  /\ cliDown' = cliDown \ {target}
  /\ UNCHANGED <<frozen, electedSince>>

-----------------------------------------------------------------------------
(***************************************************************************)
(* A status pass: getStatusFromAllMembers asks every instance at once and  *)
(* takes from each answer what the instance says about itself.  Answers    *)
(* arrive one at a time, so the snapshot mixes moments; one refused        *)
(* connection rejects the whole Promise.all.                               *)
(***************************************************************************)

ReadMember(i) ==
  /\ pc = "scan"
  /\ i \in unread
  /\ Reachable(i)
  /\ seen' = [seen EXCEPT ![i] = role[i]]
  /\ unread' = unread \ {i}
  /\ UNCHANGED <<envVars, force, pc, phase, target, restarted, attempts,
                 clientOpen, histVars, boundVars>>

\* Mutant of ReadFails: Promise.allSettled instead of Promise.all.
ReadFailsSettled(i) ==
  /\ pc = "scan"
  /\ i \in unread
  /\ ~Reachable(i)
  /\ unread' = unread \ {i}
  /\ UNCHANGED <<envVars, force, pc, phase, seen, target, restarted, attempts,
                 clientOpen, histVars, boundVars>>

ReadFails(i) ==
  /\ pc = "scan"
  /\ i \in unread
  /\ ~Reachable(i)
  /\ Fail
  /\ UNCHANGED <<envVars, force, histVars, boundVars>>

PassComplete(ph) == pc = "scan" /\ phase = ph /\ unread = {}

SeenPrimary == {i \in Instances : seen[i] = "PRIMARY"}

\* Mutant of NonPrimaryToRestart: the state of the member is not looked at.
AnyMemberToRestart == Instances \ restarted

\* getNextNonPrimaryMember: any state but PRIMARY will do.
NonPrimaryToRestart == {i \in Instances : seen[i] # "PRIMARY"} \ restarted

\* restartNextNonPrimaryMember picks the first candidate in instance order.
ChooseNonPrimary(i) ==
  /\ PassComplete("secondaries")
  /\ IsFirst(i, NonPrimaryToRestart)
  /\ pc' = "stop"
  /\ target' = i
  /\ seen' = NothingSeen
  /\ UNCHANGED <<envVars, force, phase, unread, restarted, attempts,
                 clientOpen, histVars, boundVars>>

\* restartNonPrimaryMembers ends its loop; getReplPrimaryMember looks again.
NonPrimariesDone ==
  /\ PassComplete("secondaries")
  /\ NonPrimaryToRestart = {}
  /\ BeginPass("primary")
  /\ UNCHANGED <<envVars, force, target, restarted, attempts, clientOpen,
                 booted, served, cliDown, boundVars>>

\* restartPrimaryMember, when the primary is one it has not restarted.
ChoosePrimary(i) ==
  /\ PassComplete("primary")
  /\ IsFirst(i, SeenPrimary)
  /\ i \notin restarted
  /\ pc' = "connect"
  /\ target' = i
  /\ seen' = NothingSeen
  /\ UNCHANGED <<envVars, force, phase, unread, restarted, attempts,
                 clientOpen, histVars, boundVars>>

\* Mutant of PrimaryAlreadyRestarted: the early return does not look at
\* restartedInstances.
PrimaryLeftAlone(i) ==
  /\ PassComplete("primary")
  /\ IsFirst(i, SeenPrimary)
  /\ BeginPass("verify")
  /\ UNCHANGED <<envVars, force, target, restarted, attempts, clientOpen,
                 booted, served, cliDown, boundVars>>

\* restartPrimaryMember returns early, and verifyAllMembersAreHealthy looks.
PrimaryAlreadyRestarted(i) ==
  /\ PassComplete("primary")
  /\ IsFirst(i, SeenPrimary)
  /\ i \in restarted
  /\ BeginPass("verify")
  /\ UNCHANGED <<envVars, force, target, restarted, attempts, clientOpen,
                 booted, served, cliDown, boundVars>>

NoPrimaryFound ==
  /\ PassComplete("primary")
  /\ SeenPrimary = {}
  /\ Fail
  /\ UNCHANGED <<envVars, force, histVars, boundVars>>

\* verifyAllMembersAreHealthy only logs: once all answered, the command is done.
Finish ==
  /\ PassComplete("verify")
  /\ End("done")
  /\ UNCHANGED <<envVars, force, histVars, boundVars>>

-----------------------------------------------------------------------------
(***************************************************************************)
(* stepDownPrimary and waitForNewPrimary.  The client is a replica-set     *)
(* connection: the command goes to whoever is primary when it is sent.     *)
(***************************************************************************)

Connect ==
  /\ pc = "connect"
  /\ Primaries # {}
  /\ pc' = "stepdown"
  /\ clientOpen' = TRUE
  /\ UNCHANGED <<envVars, force, phase, unread, seen, target, restarted,
                 attempts, histVars, boundVars>>

\* No primary within serverSelectionTimeoutMs: the connection is refused
\* before the retry loop begins.
ConnectFails ==
  /\ pc = "connect"
  /\ Primaries = {}
  /\ Fail
  /\ UNCHANGED <<envVars, force, histVars, boundVars>>

\* replSetStepDown succeeds; the finally block closes the client.
StepDown(p) ==
  /\ pc = "stepdown"
  /\ clientOpen
  /\ role[p] = "PRIMARY"
  /\ role' = [role EXCEPT ![p] = "SECONDARY"]
  /\ frozen' = frozen \union {p}
  /\ pc' = "await"
  /\ attempts' = 0
  /\ clientOpen' = FALSE
  /\ UNCHANGED <<container, current, force, phase, unread, seen, target,
                 restarted, histVars, boundVars>>

\* Mutant of StepDownAttemptFails: one attempt too many.
StepDownAttemptFailsOnceMore ==
  /\ pc = "stepdown"
  /\ \/ ~clientOpen
     \/ ~force
     \/ Primaries = {}
  /\ IF attempts > Retries
     THEN Fail
     ELSE /\ attempts' = attempts + 1
          /\ clientOpen' = FALSE
          /\ UNCHANGED <<pc, phase, unread, seen, target, restarted>>
  /\ UNCHANGED <<envVars, force, histVars, boundVars>>

\* An attempt fails: no secondary caught up in time (never with --force), no
\* primary took the command, or the client had been closed.  The finally block
\* closes the client, whatever pRetry does next.
StepDownAttemptFails ==
  /\ pc = "stepdown"
  /\ \/ ~clientOpen
     \/ ~force
     \/ Primaries = {}
  /\ IF attempts = Retries
     THEN Fail
     ELSE /\ attempts' = attempts + 1
          /\ clientOpen' = FALSE
          /\ UNCHANGED <<pc, phase, unread, seen, target, restarted>>
  /\ UNCHANGED <<envVars, force, histVars, boundVars>>

\* A poll with ping 'repl' finds a primary that is not the previous one.
NewPrimaryFound ==
  /\ pc = "await"
  /\ Primaries \ {target} # {}
  /\ GoTo("stop")
  /\ UNCHANGED <<envVars, force, histVars, boundVars>>

\* The poll finds no primary to ask and throws, or the clock of
\* waitForNewPrimary runs out: it may do so just after an election.
NewPrimaryTimeout ==
  /\ pc = "await"
  /\ Fail
  /\ UNCHANGED <<envVars, force, histVars, boundVars>>

-----------------------------------------------------------------------------
(***************************************************************************)
(* restartReplicaSetMember: stopMongodInstance, then startMongodInstance   *)
(* with both waits.  containerExists and isContainerRunning answer false   *)
(* when docker inspect fails for any reason.                               *)
(***************************************************************************)

StopFindsRunning ==
  /\ pc = "stop"
  /\ container[target] = "running"
  /\ GoTo("kill")
  /\ UNCHANGED <<envVars, force, histVars, boundVars>>

StopSkips ==
  /\ pc = "stop"
  /\ container[target] # "running"
  /\ GoTo("start")
  /\ UNCHANGED <<envVars, force, histVars, boundVars>>

\* docker stop, or docker kill with --force.
Kill ==
  /\ pc = "kill"
  /\ container[target] = "running"
  /\ TargetDown("stopped")
  /\ GoTo("remove")
  /\ UNCHANGED <<force, boundVars>>

\* The mongod died after the inspection: docker stop does not mind, docker
\* kill refuses and stopMongodInstance throws.
KillFindsStopped ==
  /\ pc = "kill"
  /\ container[target] # "running"
  /\ IF force THEN Fail ELSE GoTo("remove")
  /\ UNCHANGED <<envVars, force, histVars, boundVars>>

RemoveStopped ==
  /\ pc = "remove"
  /\ container' = [container EXCEPT ![target] = "absent"]
  /\ GoTo("start")
  /\ UNCHANGED <<current, role, frozen, force, histVars, boundVars>>

StartFindsNothing ==
  /\ pc = "start"
  /\ container[target] = "absent"
  /\ GoTo("create")
  /\ UNCHANGED <<envVars, force, histVars, boundVars>>

\* docker rm -f of the target's container, running or not.
ForceRemove ==
  IF container[target] = "running"
  THEN TargetDown("absent")
  ELSE /\ container' = [container EXCEPT ![target] = "absent"]
       /\ UNCHANGED <<current, role, frozen, histVars>>

StartFindsOutdated ==
  /\ pc = "start"
  /\ container[target] # "absent"
  /\ target \notin current
  /\ ForceRemove
  /\ GoTo("create")
  /\ UNCHANGED <<force, boundVars>>

\* "already running; skipping start": the waits still happen.
StartFindsRunning ==
  /\ pc = "start"
  /\ container[target] = "running"
  /\ target \in current
  /\ GoTo("listen")
  /\ UNCHANGED <<envVars, force, histVars, boundVars>>

StartFindsStopped ==
  /\ pc = "start"
  /\ container[target] = "stopped"
  /\ target \in current
  /\ TargetBoots
  /\ GoTo("listen")
  /\ UNCHANGED <<current, force, boundVars>>

\* docker run: refused while a container of that name exists.
Create ==
  /\ pc = "create"
  /\ container[target] = "absent"
  /\ TargetBoots
  /\ current' = current \union {target}
  /\ GoTo("listen")
  /\ UNCHANGED <<force, boundVars>>

CreateConflicts ==
  /\ pc = "create"
  /\ container[target] # "absent"
  /\ Fail
  /\ UNCHANGED <<envVars, force, histVars, boundVars>>

\* assertMongoInstanceListening.
Listening ==
  /\ pc = "listen"
  /\ Reachable(target)
  /\ GoTo("state")
  /\ UNCHANGED <<envVars, force, histVars, boundVars>>

NotListening ==
  /\ pc = "listen"
  /\ ~Reachable(target)
  /\ Fail
  /\ UNCHANGED <<envVars, force, histVars, boundVars>>

\* Mutant of StateReached: any answer of the member ends the wait.
StateAnswered ==
  /\ pc = "state"
  /\ Reachable(target)
  /\ GoTo("health")
  /\ UNCHANGED <<envVars, force, histVars, boundVars>>

\* waitForMemberState: PRIMARY or SECONDARY, or two minutes have passed.
StateReached ==
  /\ pc = "state"
  /\ role[target] \in Serving
  /\ GoTo("health")
  /\ UNCHANGED <<envVars, force, histVars, boundVars>>

\* Mutant of StateTimeout: the clock is looked at only after an answer.
StateTimeoutAfterAnswer ==
  /\ pc = "state"
  /\ Reachable(target)
  /\ Fail
  /\ UNCHANGED <<envVars, force, histVars, boundVars>>

StateTimeout ==
  /\ pc = "state"
  /\ Fail
  /\ UNCHANGED <<envVars, force, histVars, boundVars>>

\* Mutant of MarkRestarted: restartedInstances does not grow.
ForgetRestarted ==
  /\ pc = "health"
  /\ Reachable(target)
  /\ BeginPass(IF phase = "secondaries" THEN "secondaries" ELSE "verify")
  /\ UNCHANGED <<envVars, force, target, restarted, attempts, clientOpen,
                 booted, served, cliDown, boundVars>>

\* verifyMemberHealthAfterRestart returns a boolean nobody reads, and throws
\* if the instance does not answer; then restartedInstances grows.
MarkRestarted ==
  /\ pc = "health"
  /\ Reachable(target)
  /\ restarted' = restarted \union {target}
  /\ BeginPass(IF phase = "secondaries" THEN "secondaries" ELSE "verify")
  /\ UNCHANGED <<envVars, force, target, attempts, clientOpen, booted, served,
                 cliDown, boundVars>>

HealthFails ==
  /\ pc = "health"
  /\ ~Reachable(target)
  /\ Fail
  /\ UNCHANGED <<envVars, force, histVars, boundVars>>

-----------------------------------------------------------------------------
(***************************************************************************)
(* Docker commands that fail.                                              *)
(***************************************************************************)

\* An inspect of stopMongodInstance fails: the running container is skipped.
StopInspectFault ==
  /\ pc = "stop"
  /\ container[target] = "running"
  /\ UseFault
  /\ GoTo("start")
  /\ UNCHANGED <<envVars, force, histVars>>

\* docker stop, rm -f, start or run fails: the code throws.
CommandFault ==
  /\ pc \in {"kill", "start", "create"}
  /\ UseFault
  /\ Fail
  /\ UNCHANGED <<envVars, force, histVars>>

\* docker run creates the container and cannot start it (a port is taken).
CreateFault ==
  /\ pc = "create"
  /\ container[target] = "absent"
  /\ UseFault
  /\ container' = [container EXCEPT ![target] = "stopped"]
  /\ current' = current \union {target}
  /\ Fail
  /\ UNCHANGED <<role, frozen, force, histVars>>

\* docker rm after the stop fails: the code goes on.
RemoveFault ==
  /\ pc = "remove"
  /\ UseFault
  /\ GoTo("start")
  /\ UNCHANGED <<envVars, force, histVars>>

\* containerExists of startMongodInstance misses the container.
StartExistsFault ==
  /\ pc = "start"
  /\ container[target] # "absent"
  /\ UseFault
  /\ GoTo("create")
  /\ UNCHANGED <<envVars, force, histVars>>

\* getContainerConfigHash fails: null counts as a changed configuration.
StartHashFault ==
  /\ pc = "start"
  /\ container[target] # "absent"
  /\ target \in current
  /\ UseFault
  /\ ForceRemove
  /\ GoTo("create")
  /\ UNCHANGED force

-----------------------------------------------------------------------------
(***************************************************************************)
(* The replica set: mongod is external, modelled from the states the code  *)
(* waits for and the outcomes it handles.                                  *)
(***************************************************************************)

RoleBecomes(i, r) == role' = [role EXCEPT ![i] = r]

Boot(i) ==
  /\ role[i] = "STARTING"
  /\ RoleBecomes(i, "RECOVERING")
  /\ UNCHANGED <<container, current, frozen, force, cliVars, histVars, boundVars>>

CatchUp(i) ==
  /\ role[i] = "RECOVERING"
  /\ RoleBecomes(i, "SECONDARY")
  /\ served' = served \union {i}
  /\ UNCHANGED <<container, current, frozen, force, cliVars, booted, cliDown,
                 electedSince, boundVars>>

Elect(i) ==
  /\ role[i] = "SECONDARY"
  /\ i \notin frozen
  /\ Primaries = {}
  /\ HasMajority
  /\ RoleBecomes(i, "PRIMARY")
  /\ electedSince' = electedSince \union {i}
  /\ UNCHANGED <<container, current, frozen, force, cliVars, booted, served,
                 cliDown, boundVars>>

\* stepDownSeconds have passed.
Thaw(i) ==
  /\ i \in frozen
  /\ frozen' = frozen \ {i}
  /\ UNCHANGED <<container, current, role, force, cliVars, histVars, boundVars>>

\* A primary that cannot see a majority steps down.
LoseMajority(i) ==
  /\ role[i] = "PRIMARY"
  /\ ~HasMajority
  /\ RoleBecomes(i, "SECONDARY")
  /\ UNCHANGED <<container, current, frozen, force, cliVars, histVars, boundVars>>

\* A primary steps down for a reason that is not the command's.
Failover(i) ==
  /\ role[i] = "PRIMARY"
  /\ failovers < MaxFailovers
  /\ failovers' = failovers + 1
  /\ RoleBecomes(i, "SECONDARY")
  /\ UNCHANGED <<container, current, frozen, force, cliVars, histVars,
                 crashes, faults, runs>>

\* A mongod dies; no restart policy brings its container back.
Crash(i) ==
  /\ role[i] # "DOWN"
  /\ crashes < MaxCrashes
  /\ crashes' = crashes + 1
  /\ RoleBecomes(i, "DOWN")
  /\ container' = [container EXCEPT ![i] = "stopped"]
  /\ frozen' = frozen \ {i}
  /\ UNCHANGED <<current, force, cliVars, histVars, failovers, faults, runs>>

-----------------------------------------------------------------------------
(***************************************************************************)
(* The operator.                                                           *)
(***************************************************************************)

\* Control-C, or the terminal goes away: nothing of the command is persisted.
Interrupt ==
  /\ pc \notin Resting
  /\ Fail
  /\ UNCHANGED <<envVars, force, histVars, boundVars>>

\* The same command again: restartedInstances begins empty.
Rerun ==
  /\ pc \in Resting
  /\ runs < MaxRuns
  /\ runs' = runs + 1
  /\ BeginPass("secondaries")
  /\ booted' = {}
  /\ UNCHANGED <<envVars, force, target, restarted, attempts, clientOpen, served,
                 cliDown, failovers, crashes, faults>>

-----------------------------------------------------------------------------

Look ==
  \/ \E i \in Instances : ReadMember(i) \/ ReadFails(i)
  \/ \E i \in Instances : ChooseNonPrimary(i) \/ ChoosePrimary(i)
  \/ \E i \in Instances : PrimaryAlreadyRestarted(i)
  \/ NonPrimariesDone \/ NoPrimaryFound \/ Finish

HandOver ==
  \/ Connect \/ ConnectFails
  \/ \E p \in Instances : StepDown(p)
  \/ StepDownAttemptFails
  \/ NewPrimaryFound \/ NewPrimaryTimeout

Restart ==
  \/ StopFindsRunning \/ StopSkips
  \/ Kill \/ KillFindsStopped \/ RemoveStopped
  \/ StartFindsNothing \/ StartFindsOutdated
  \/ StartFindsRunning \/ StartFindsStopped
  \/ Create \/ CreateConflicts
  \/ Listening \/ NotListening
  \/ StateReached \/ StateTimeout
  \/ MarkRestarted \/ HealthFails

DockerFault ==
  \/ StopInspectFault \/ CommandFault \/ CreateFault \/ RemoveFault
  \/ StartExistsFault \/ StartHashFault

Command == Look \/ HandOver \/ Restart

ReplicaSet ==
  \/ \E i \in Instances : Boot(i) \/ CatchUp(i) \/ Elect(i) \/ Thaw(i)
  \/ \E i \in Instances : LoseMajority(i) \/ Failover(i) \/ Crash(i)

Operator == Interrupt \/ Rerun

Next == Command \/ DockerFault \/ ReplicaSet \/ Operator

\* The command is a single process: as long as it can take a step it does, and
\* every wait has a clock.  A mongod that boots gets ready, and a set that can
\* elect does; nothing forces a crash, a failover, a fault or the operator.
Fairness ==
  /\ WF_vars(Command)
  /\ \A i \in Instances :
       /\ WF_vars(Boot(i))
       /\ WF_vars(CatchUp(i))
       /\ WF_vars(Thaw(i))
  /\ WF_vars(\E i \in Instances : Elect(i))

Spec == Init /\ [][Next]_vars
FairSpec == Spec /\ Fairness

-----------------------------------------------------------------------------
(***************************************************************************)
(* Safety.                                                                 *)
(***************************************************************************)

\* The command stops container i in this step.
CliTakesDown(i) == i \notin cliDown /\ i \in cliDown'

\* "Restarts one member at a time": whatever was interrupted, failed or run
\* again, the command never has two members stopped at once.
AtMostOneDown == \A i, j \in cliDown : i = j

\* "Keeps the majority of nodes up at all times": unless a mongod dies on its
\* own, more than half of the members can vote, in every run and between runs.
KeepsMajority == crashes = 0 => HasMajority

\* A member is taken down only when every member this run gave a new mongod
\* has reached PRIMARY or SECONDARY with it.
OthersServe ==
  [][\A i \in Instances :
       CliTakesDown(i) => booted \subseteq served]_vars

\* An instance is stopped while primary only if it won an election after the
\* command began the status pass that chose it: the command never skips the
\* step-down of a primary it knew.
PrimaryStoppedOnlyIfElectedSince ==
  [][\A i \in Instances :
       CliTakesDown(i) /\ role[i] = "PRIMARY" => i \in electedSince]_vars

\* With no failover and no failing Docker command, a run that reports success
\* has given every member a new mongod.
QuietRunIsComplete ==
  pc = "done" /\ failovers = 0 /\ faults = 0 => booted = Instances

\* The same without the premise, as restartReplicaSetMembersRolling says.
DoneRestartsAll == pc = "done" => booted = Instances

\* A retry of the step-down has a connection to send the command on.
RetryHasConnection == pc = "stepdown" => clientOpen

\* What a rolling restart promises.
Plan == INSTANCE RollingPlan WITH
          Member <- Instances, down <- cliDown, renewed <- booted
ImplementsPlan == Plan!PlanSpec

-----------------------------------------------------------------------------
(***************************************************************************)
(* Liveness.                                                               *)
(***************************************************************************)

\* Every run ends: no wait of the command is without a clock.
Terminates == <>[](pc \in Resting)

\* Wherever the command stops, fails or is interrupted, the set elects a
\* primary again, as long as no mongod died on its own.
RegainsPrimary == [](crashes = 0) => []<>(Primaries # {})

=============================================================================
