--------------------------- MODULE MongoLifecycle ---------------------------
(***************************************************************************)
(* `mongo start`, `mongo stop` and `mongo restart` on the containers of a  *)
(* set and their network, for any number of runs that overlap.             *)
(*                                                                         *)
(* Each run asks Docker what is there, one question at a time, and acts on *)
(* the answers.  A container carries the fingerprint of the `docker run`   *)
(* that made it: start keeps a container whose fingerprint is the one it   *)
(* would use itself and replaces any other.  start and restart go through  *)
(* the instances one after the other, stop through all of them at once.    *)
(*                                                                         *)
(* What replication does meanwhile, and why restart takes the instances in *)
(* the order it does, is in MongoRollingRestart; what start does once the  *)
(* instances listen, in MongoBootstrap.                                    *)
(***************************************************************************)
EXTENDS Naturals, FiniteSets

CONSTANTS
  Proc,         \* runs of the commands
  Configs,      \* the configurations the operator may write
  First,        \* the one the file has at first
  LeftBehind,   \* what earlier runs may have left in Docker and on disk
  MaxFaults     \* bound: failing docker commands, mongods that exit, killed runs

\* n instances; run stands for what `docker run` depends on beside the root
\* user, conf for what only the mongod.conf says (replicaSetName).
Config == [n : Nat \ {0}, run : Nat, conf : Nat, auth : BOOLEAN, net : BOOLEAN]

ASSUME ConfigsAssumption == Configs \subseteq Config /\ First \in Configs
ASSUME FaultAssumption == MaxFaults \in Nat

Inst == UNION {1..c.n : c \in Configs}
Modes == {"start", "stop", "restart"}
Fingerprints == [run : Nat, init : BOOLEAN, net : BOOLEAN]

VARIABLES
  file,         \* the configuration file
  container,    \* of each instance: state, fingerprint, mongod.conf it read
  network,      \* does the Docker network exist
  hostConf,     \* the generated mongod.conf of each instance
  phase, mode, cfg, \* of each run: where it is, what it does, what it read
  step,         \* where it is with each instance
  booted,       \* history: instances whose container this run brought up
  solo, calm,   \* history: nothing overlapped with it, nothing failed in it
  faults        \* how much of the bound is used

dockerVars == <<container, network, hostConf>>
histVars == <<booted, solo, calm>>
vars == <<file, dockerVars, phase, mode, cfg, step, histVars, faults>>

Absent == [state |-> "absent"]
Containers ==
  {Absent} \union [state : {"running", "exited"}, label : Fingerprints, conf : Nat]
Leftovers == [container : [Inst -> Containers], network : BOOLEAN,
              hostConf : [Inst -> Nat]]
ASSUME LeftoversAssumption == LeftBehind \subseteq Leftovers

Resting == {"idle", "done", "failed"}
Phases == {"network", "createNetwork", "instances", "listen", "removeNetwork"}
StopSteps == {"stopExists", "stopRunning", "stop", "rm"}
StartSteps == {"conf", "exists", "hash", "remove", "running", "start", "create", "wait"}
StepEnds == {"todo", "up", "down", "stopFailed"}

\* The types of all variables.
TypeOK ==
  /\ file \in Configs
  /\ container \in [Inst -> Containers]
  /\ network \in BOOLEAN
  /\ hostConf \in [Inst -> Nat]
  /\ phase \in [Proc -> Resting \union Phases]
  /\ mode \in [Proc -> Modes]
  /\ cfg \in [Proc -> Configs]
  /\ step \in [Proc -> [Inst -> StopSteps \union StartSteps \union StepEnds]]
  /\ booted \in [Proc -> SUBSET Inst]
  /\ solo \in [Proc -> BOOLEAN]
  /\ calm \in [Proc -> BOOLEAN]
  /\ faults \in 0..MaxFaults

-----------------------------------------------------------------------------
(* Docker                                                                  *)

Exists(i) == container[i].state # "absent"
IsRunning(i) == container[i].state = "running"

Becomes(i, c) == container' = [container EXCEPT ![i] = c]

\* A container can be started only while the network it was given is there.
MayBoot(label) == label.net => network

\* mongod reads its mongod.conf from the host when it comes up.
Boot(p, i, label) ==
  /\ Becomes(i, [state |-> "running", label |-> label, conf |-> hostConf[i]])
  /\ booted' = [booted EXCEPT ![p] = @ \union {i}]

\* Only start has MONGO_INITDB_ROOT_* in the environment it hashes.
RunConfigFingerprint(p) ==
  [run |-> cfg[p].run, init |-> mode[p] = "start" /\ cfg[p].auth, net |-> cfg[p].net]

-----------------------------------------------------------------------------
(* Steps of a run                                                          *)

Running(p) == phase[p] \notin Resting
Instances(p) == 1..cfg[p].n

GoTo(p, ph) == phase' = [phase EXCEPT ![p] = ph]
StepTo(p, i, s) == step' = [step EXCEPT ![p][i] = s]
Stays == UNCHANGED <<file, mode, cfg, solo>>

\* A fault in a step of p.
Fault(p) ==
  /\ faults < MaxFaults
  /\ faults' = faults + 1
  /\ calm' = [calm EXCEPT ![p] = FALSE]

NoFault == UNCHANGED <<calm, faults>>

FirstPhase(m, c) == IF m = "start" /\ c.net THEN "network" ELSE "instances"

Launch(p) ==
  /\ phase[p] = "idle"
  /\ \E m \in Modes :
       /\ mode' = [mode EXCEPT ![p] = m]
       /\ GoTo(p, FirstPhase(m, file))
  /\ cfg' = [cfg EXCEPT ![p] = file]
  /\ solo' = [q \in Proc |-> IF q = p THEN \A r \in Proc \ {p} : ~Running(r)
                             ELSE solo[q] /\ ~Running(q)]
  /\ UNCHANGED <<file, dockerVars, step, booted, calm, faults>>

\* The operator edits the file.
Edit ==
  /\ file' \in Configs \ {file}
  /\ \E p \in Proc : phase[p] = "idle"
  /\ UNCHANGED <<dockerVars, phase, mode, cfg, step, histVars, faults>>

NetworkExists(p) ==
  /\ phase[p] = "network"
  /\ GoTo(p, IF network THEN "instances" ELSE "createNetwork")
  /\ UNCHANGED <<dockerVars, step, booted>> /\ Stays /\ NoFault

\* A second network of the same name is refused.
CreateNetwork(p) ==
  /\ phase[p] = "createNetwork"
  /\ GoTo(p, IF network THEN "failed" ELSE "instances")
  /\ network' = TRUE
  /\ UNCHANGED <<container, hostConf, step, booted>> /\ Stays /\ NoFault

\* Whose turn it is: start takes the instances in order, restart one at a
\* time after a look at all of them, stop takes them as they come.
MayBegin(p, i) ==
  /\ phase[p] = "instances" /\ i \in Instances(p) /\ step[p][i] = "todo"
  /\ CASE mode[p] = "start" -> \A j \in 1..(i-1) : step[p][j] = "up"
       [] mode[p] = "restart" -> \A j \in Instances(p) \ {i} :
                                   step[p][j] \in {"todo", "up"} /\ IsRunning(j)
       [] mode[p] = "stop" -> TRUE

Begin(p, i) ==
  /\ MayBegin(p, i)
  /\ StepTo(p, i, IF mode[p] = "start" THEN "conf" ELSE "stopExists")
  /\ UNCHANGED <<dockerVars, phase, booted>> /\ Stays /\ NoFault

\* replSetGetStatus of every member is needed before each restart.
StatusFails(p) ==
  /\ phase[p] = "instances" /\ mode[p] = "restart"
  /\ \A i \in Instances(p) : step[p][i] \in {"todo", "up"}
  /\ \E i \in Instances(p) : ~IsRunning(i)
  /\ GoTo(p, "failed")
  /\ UNCHANGED <<dockerVars, step, booted>> /\ Stays /\ NoFault

\* Mutant: the loop over the instances ends at the first failure.
StopFailedBreaks(p, i) ==
  IF mode[p] = "stop"
  THEN /\ step' = [step EXCEPT ![p] = [j \in Inst |->
                     IF @[j] \in {"todo"} \union StopSteps THEN "stopFailed" ELSE @[j]]]
       /\ UNCHANGED phase
  ELSE GoTo(p, "failed") /\ UNCHANGED step

\* An instance that cannot be stopped is logged by stop and ends a restart.
StopFailed(p, i) ==
  IF mode[p] = "stop" THEN StepTo(p, i, "stopFailed") /\ UNCHANGED phase
  ELSE GoTo(p, "failed") /\ UNCHANGED step

AfterStop(p, i) == StepTo(p, i, IF mode[p] = "stop" THEN "down" ELSE "conf")

StopInspects(p, i) ==
  /\ phase[p] = "instances" /\ step[p][i] \in {"stopExists", "stopRunning"}
  /\ LET exists == step[p][i] = "stopExists" IN
     IF IF exists THEN Exists(i) ELSE IsRunning(i)
     THEN StepTo(p, i, IF exists THEN "stopRunning" ELSE "stop")
     ELSE AfterStop(p, i)
  /\ UNCHANGED <<dockerVars, phase, booted>> /\ Stays /\ NoFault

\* docker inspect fails: as if there was nothing to stop.
StopInspectFault(p, i) ==
  /\ phase[p] = "instances" /\ step[p][i] \in {"stopExists", "stopRunning"}
  /\ Fault(p)
  /\ AfterStop(p, i)
  /\ UNCHANGED <<dockerVars, phase, booted>> /\ Stays

\* Mutant: a stopped container keeps nothing of what it was.
StopContainerForgets(p, i) ==
  /\ phase[p] = "instances" /\ step[p][i] = "stop"
  /\ Becomes(i, [state |-> "exited"])
  /\ StepTo(p, i, "rm")
  /\ UNCHANGED <<network, hostConf, phase, booted>> /\ Stays /\ NoFault

StopContainer(p, i) ==
  /\ phase[p] = "instances" /\ step[p][i] = "stop"
  /\ IF Exists(i)
     THEN /\ Becomes(i, [container[i] EXCEPT !.state = "exited"])
          /\ StepTo(p, i, "rm") /\ UNCHANGED phase
     ELSE StopFailed(p, i) /\ UNCHANGED container
  /\ UNCHANGED <<network, hostConf, booted>> /\ Stays /\ NoFault

StopFault(p, i) ==
  /\ phase[p] = "instances" /\ step[p][i] = "stop"
  /\ Fault(p)
  /\ StopFailed(p, i)
  /\ UNCHANGED <<dockerVars, booted>> /\ Stays

\* docker rm of a container that runs again is refused; no failure counts.
RemoveStopped(p, i) ==
  /\ phase[p] = "instances" /\ step[p][i] = "rm"
  /\ \/ /\ IF IsRunning(i) THEN UNCHANGED container ELSE Becomes(i, Absent)
        /\ NoFault
     \/ Fault(p) /\ UNCHANGED container
  /\ AfterStop(p, i)
  /\ UNCHANGED <<network, hostConf, phase, booted>> /\ Stays

\* The generated mongod.conf, always written anew.
MongodConf(p) == cfg[p].conf

WriteConf(p, i) ==
  /\ phase[p] = "instances" /\ step[p][i] = "conf"
  /\ hostConf' = [hostConf EXCEPT ![i] = MongodConf(p)]
  /\ StepTo(p, i, "exists")
  /\ UNCHANGED <<container, network, phase, booted>> /\ Stays /\ NoFault

StartExists(p, i) ==
  /\ phase[p] = "instances" /\ step[p][i] = "exists"
  /\ \/ StepTo(p, i, IF Exists(i) THEN "hash" ELSE "create") /\ NoFault
     \/ Exists(i) /\ Fault(p) /\ StepTo(p, i, "create")
  /\ UNCHANGED <<dockerVars, phase, booted>> /\ Stays

\* Mutant: a container that runs is kept whatever it was made for.
ConfigChangedIfStopped(p, i) ==
  ~IsRunning(i) /\ (Exists(i) => container[i].label # RunConfigFingerprint(p))

ConfigChanged(p, i) == ~Exists(i) \/ container[i].label # RunConfigFingerprint(p)

\* A label that cannot be read counts as another one.
StartHash(p, i) ==
  /\ phase[p] = "instances" /\ step[p][i] = "hash"
  /\ \/ StepTo(p, i, IF ConfigChanged(p, i) THEN "remove" ELSE "running") /\ NoFault
     \/ ~ConfigChanged(p, i) /\ Fault(p) /\ StepTo(p, i, "remove")
  /\ UNCHANGED <<dockerVars, phase, booted>> /\ Stays

\* docker rm -f, whatever the container has become since.
RemoveContainer(p, i) ==
  /\ phase[p] = "instances" /\ step[p][i] = "remove"
  /\ Becomes(i, Absent)
  /\ StepTo(p, i, "create")
  /\ UNCHANGED <<network, hostConf, phase, booted>> /\ Stays /\ NoFault

\* restart waits for every instance, start only for all of them at the end.
AfterBoot(p, i) == StepTo(p, i, IF mode[p] = "restart" THEN "wait" ELSE "up")

StartRunning(p, i) ==
  /\ phase[p] = "instances" /\ step[p][i] = "running"
  /\ \/ /\ IF IsRunning(i) THEN AfterBoot(p, i) ELSE StepTo(p, i, "start")
        /\ NoFault
     \/ IsRunning(i) /\ Fault(p) /\ StepTo(p, i, "start")
  /\ UNCHANGED <<dockerVars, phase, booted>> /\ Stays

StartContainer(p, i) ==
  /\ phase[p] = "instances" /\ step[p][i] = "start"
  /\ CASE IsRunning(i) -> AfterBoot(p, i) /\ UNCHANGED <<container, phase, booted>>
       [] ~IsRunning(i) /\ Exists(i) /\ MayBoot(container[i].label) ->
            Boot(p, i, container[i].label) /\ AfterBoot(p, i) /\ UNCHANGED phase
       [] OTHER -> GoTo(p, "failed") /\ UNCHANGED <<container, booted, step>>
  /\ UNCHANGED <<network, hostConf>> /\ Stays /\ NoFault

\* Mutant: after a docker run that failed the container is cleaned up.
RunContainerCleansUp(p, i) ==
  LET label == RunConfigFingerprint(p) IN
  /\ phase[p] = "instances" /\ step[p][i] = "create"
  /\ IF ~Exists(i) /\ MayBoot(label)
     THEN Boot(p, i, label) /\ AfterBoot(p, i) /\ UNCHANGED phase
     ELSE Becomes(i, Absent) /\ GoTo(p, "failed") /\ UNCHANGED <<booted, step>>
  /\ UNCHANGED <<network, hostConf>> /\ Stays /\ NoFault

\* The name may be taken by now; without its network the container is
\* created and does not come up.
RunContainer(p, i) ==
  LET label == RunConfigFingerprint(p) IN
  /\ phase[p] = "instances" /\ step[p][i] = "create"
  /\ CASE Exists(i) -> GoTo(p, "failed") /\ UNCHANGED <<container, booted, step>>
       [] ~Exists(i) /\ MayBoot(label) ->
            Boot(p, i, label) /\ AfterBoot(p, i) /\ UNCHANGED phase
       [] OTHER ->
            /\ Becomes(i, [state |-> "exited", label |-> label, conf |-> hostConf[i]])
            /\ GoTo(p, "failed") /\ UNCHANGED <<booted, step>>
  /\ UNCHANGED <<network, hostConf>> /\ Stays /\ NoFault

DockerFault(p, i) ==
  /\ phase[p] = "instances" /\ step[p][i] \in {"remove", "start", "create"}
  /\ Fault(p)
  /\ GoTo(p, "failed")
  /\ UNCHANGED <<dockerVars, step, booted>> /\ Stays

InstanceListening(p, i) ==
  /\ phase[p] = "instances" /\ step[p][i] = "wait"
  /\ IF IsRunning(i) THEN StepTo(p, i, "up") /\ UNCHANGED phase
     ELSE GoTo(p, "failed") /\ UNCHANGED step
  /\ UNCHANGED <<dockerVars, booted>> /\ Stays /\ NoFault

InstancesDone(p) ==
  /\ phase[p] = "instances"
  /\ \A i \in Instances(p) : step[p][i] \in StepEnds \ {"todo"}
  /\ GoTo(p, CASE mode[p] = "start" -> "listen"
               [] mode[p] = "restart" -> "done"
               [] mode[p] = "stop" -> IF cfg[p].net THEN "removeNetwork" ELSE "done")
  /\ UNCHANGED <<dockerVars, step, booted>> /\ Stays /\ NoFault

\* The connections are retried, and given up after a while.
InstancesListening(p) ==
  /\ phase[p] = "listen"
  /\ GoTo(p, IF \A i \in Instances(p) : IsRunning(i) THEN "done" ELSE "failed")
  /\ UNCHANGED <<dockerVars, step, booted>> /\ Stays /\ NoFault

\* Refused while a container that runs is attached; no failure counts.
RemoveNetwork(p) ==
  /\ phase[p] = "removeNetwork"
  /\ network' = (network /\ \E i \in Inst : IsRunning(i) /\ container[i].label.net)
  /\ GoTo(p, "done")
  /\ UNCHANGED <<container, hostConf, step, booted>> /\ Stays /\ NoFault

Kill(p) ==
  /\ Running(p)
  /\ Fault(p)
  /\ GoTo(p, "failed")
  /\ UNCHANGED <<dockerVars, step, booted>> /\ Stays

\* A mongod exits: a fault in every run that is going on.
Crash(i) ==
  /\ IsRunning(i)
  /\ faults < MaxFaults
  /\ faults' = faults + 1
  /\ calm' = [p \in Proc |-> calm[p] /\ ~Running(p)]
  /\ Becomes(i, [container[i] EXCEPT !.state = "exited"])
  /\ UNCHANGED <<network, hostConf, phase, step, booted>> /\ Stays

-----------------------------------------------------------------------------
Init ==
  /\ file = First
  /\ \E l \in LeftBehind :
       /\ container = l.container
       /\ network = l.network
       /\ hostConf = l.hostConf
  /\ phase = [p \in Proc |-> "idle"]
  /\ mode = [p \in Proc |-> "start"]
  /\ cfg = [p \in Proc |-> First]
  /\ step = [p \in Proc |-> [i \in Inst |-> "todo"]]
  /\ booted = [p \in Proc |-> {}]
  /\ solo = [p \in Proc |-> TRUE]
  /\ calm = [p \in Proc |-> TRUE]
  /\ faults = 0

StopInstance(p, i) ==
  \/ StopInspects(p, i) \/ StopInspectFault(p, i)
  \/ StopContainer(p, i) \/ StopFault(p, i) \/ RemoveStopped(p, i)

StartInstance(p, i) ==
  \/ WriteConf(p, i) \/ StartExists(p, i) \/ StartHash(p, i) \/ RemoveContainer(p, i)
  \/ StartRunning(p, i) \/ StartContainer(p, i) \/ RunContainer(p, i)
  \/ DockerFault(p, i) \/ InstanceListening(p, i)

Run(p) ==
  \/ Launch(p) \/ Kill(p)
  \/ NetworkExists(p) \/ CreateNetwork(p)
  \/ \E i \in Instances(p) : Begin(p, i) \/ StopInstance(p, i) \/ StartInstance(p, i)
  \/ StatusFails(p) \/ InstancesDone(p)
  \/ InstancesListening(p) \/ RemoveNetwork(p)

Next == Edit \/ (\E p \in Proc : Run(p)) \/ (\E i \in Inst : Crash(i))

Spec == Init /\ [][Next]_vars

-----------------------------------------------------------------------------
(* Properties                                                              *)

Current(p, i) == IsRunning(i) /\ container[i].label = RunConfigFingerprint(p)

BecomesDone(p) == phase[p] # "done" /\ phase'[p] = "done"

\* Whatever earlier runs left behind, a start or restart that ran alone and
\* met no fault ends with every instance running in a container made for its
\* configuration, and what it brought up itself has read its mongod.conf; a
\* restart has brought up all of them.  (startMongodInstance)
EndsCurrent ==
  [][\A p \in Proc :
       BecomesDone(p) /\ mode[p] \in {"start", "restart"} /\ solo[p] /\ calm[p] =>
         /\ \A i \in Instances(p) :
              /\ Current(p, i)'
              /\ i \in booted[p] => container'[i].conf = cfg[p].conf
         /\ mode[p] = "restart" => booted[p] = Instances(p)]_vars

Launched == {p \in Proc : phase[p] # "idle"}

\* Starts of one configuration may race and even replace what the other has
\* just created, but when none is left running and one reports success every
\* instance is up and current.  (startMongodInstance, removeContainer)
RaceLeavesAllUp ==
  (/\ faults = 0
   /\ \A p \in Launched : mode[p] = "start" /\ ~Running(p)
   /\ \A p, q \in Launched : cfg[p] = cfg[q]) =>
    \A p \in Launched : phase[p] = "done" => \A i \in Instances(p) : Current(p, i)

\* A fault while stop is at one instance does not keep it from the others:
\* alone, it leaves no more instances running than there were faults, and the
\* network only to containers that run.  (stopMongoMain)
StopGoesOn ==
  [][\A p \in Proc :
       BecomesDone(p) /\ mode[p] = "stop" /\ solo[p] =>
         /\ Cardinality({i \in Instances(p) : IsRunning(i)'}) <= faults'
         /\ cfg[p].net /\ network' => \E i \in Inst : IsRunning(i)']_vars
=============================================================================
