------------------------ MODULE MongoLifecycleProofs ------------------------
(***************************************************************************)
(* Theorems about MongoLifecycle, for any runs, configurations, number of  *)
(* instances, leftovers and number of faults.                              *)
(***************************************************************************)
EXTENDS MongoLifecycle, FiniteSetTheorems, TLAPS

-----------------------------------------------------------------------------
(* Types                                                                   *)

Labels == StopSteps \union StartSteps \union StepEnds

\* An instance of a configuration is an instance.
LEMMA InstancesAreInst ==
  ASSUME TypeOK, NEW p \in Proc
  PROVE  /\ cfg[p] \in Config
         /\ Instances(p) \subseteq Inst
         /\ RunConfigFingerprint(p) \in Fingerprints
<1>1. cfg[p] \in Configs /\ cfg[p] \in Config
  BY ConfigsAssumption DEF TypeOK
<1>2. RunConfigFingerprint(p) \in Fingerprints
  BY <1>1 DEF RunConfigFingerprint, Fingerprints, Config
<1>3. QED
  BY <1>1, <1>2 DEF Instances, Inst

\* Containers that are made or change state.
LEMMA ContainerTypes ==
  ASSUME TypeOK, NEW i \in Inst
  PROVE  /\ Absent \in Containers
         /\ Exists(i) => container[i] \in [state : {"running", "exited"},
                                           label : Fingerprints, conf : Nat]
         /\ Exists(i) => [container[i] EXCEPT !.state = "exited"] \in Containers
         /\ \A s \in {"running", "exited"}, l \in Fingerprints :
              [state |-> s, label |-> l, conf |-> hostConf[i]] \in Containers
<1>1. container[i] \in Containers /\ hostConf[i] \in Nat
  BY DEF TypeOK
<1>2. Exists(i) => container[i] \in [state : {"running", "exited"},
                                     label : Fingerprints, conf : Nat]
  BY <1>1 DEF Exists, Containers, Absent
<1>3. QED
  BY <1>1, <1>2 DEF Containers

\* The types, if each part that a step changes has its own.
LEMMA TypesFrom ==
  ASSUME TypeOK, Stays,
         container' = container \/ \E i \in Inst, c \in Containers : Becomes(i, c),
         network' \in BOOLEAN,
         hostConf' \in [Inst -> Nat],
         phase' = phase \/ \E p \in Proc, ph \in Resting \union Phases : GoTo(p, ph),
         step' = step \/ \E p \in Proc, i \in Inst, s \in Labels : StepTo(p, i, s),
         booted' \in [Proc -> SUBSET Inst],
         calm' \in [Proc -> BOOLEAN],
         faults' \in 0..MaxFaults
  PROVE  TypeOK'
<1>1. container' \in [Inst -> Containers]
  BY DEF TypeOK, Becomes
<1>2. phase' \in [Proc -> Resting \union Phases]
  BY DEF TypeOK, GoTo
<1>3. step' \in [Proc -> [Inst -> Labels]]
  <2>1. CASE step' = step
    BY <2>1 DEF TypeOK, Labels
  <2>2. ASSUME NEW p \in Proc, NEW i \in Inst, NEW s \in Labels, StepTo(p, i, s)
        PROVE  step' \in [Proc -> [Inst -> Labels]]
    BY <2>2 DEF TypeOK, StepTo, Labels
  <2>3. QED
    BY <2>1, <2>2
<1>4. QED
  BY <1>1, <1>2, <1>3 DEF TypeOK, Stays, Labels

\* What p may do with a fault or without one.
LEMMA FaultTypes ==
  ASSUME TypeOK, NEW p \in Proc, Fault(p) \/ NoFault
  PROVE  calm' \in [Proc -> BOOLEAN] /\ faults' \in 0..MaxFaults
<1>1. calm' \in [Proc -> BOOLEAN]
  BY DEF TypeOK, Fault, NoFault
<1>2. faults \in Nat /\ faults <= MaxFaults /\ MaxFaults \in Nat
  BY FaultAssumption DEF TypeOK
<1>3. faults' \in 0..MaxFaults
  <2>1. CASE Fault(p)
    BY <1>2, <2>1 DEF Fault
  <2>2. CASE NoFault
    BY <1>2, <2>2 DEF NoFault
  <2>3. QED
    BY <2>1, <2>2
<1>4. QED
  BY <1>1, <1>3

\* Stopping an instance.
LEMMA StopTypes ==
  ASSUME TypeOK, NEW p \in Proc, NEW i \in Inst, StopInstance(p, i)
  PROVE  TypeOK'
<1>1. /\ Stays
      /\ UNCHANGED <<network, hostConf, booted>>
      /\ Fault(p) \/ NoFault
  BY DEF StopInstance, StopInspects, StopInspectFault, StopContainer, StopFault,
         RemoveStopped, dockerVars
<1>2. container' = container \/ \E c \in Containers : Becomes(i, c)
  BY ContainerTypes DEF StopInstance, StopInspects, StopInspectFault, StopContainer,
         StopFault, RemoveStopped, dockerVars
<1>3. phase' = phase \/ GoTo(p, "failed")
  BY DEF StopInstance, StopInspects, StopInspectFault, StopContainer, StopFault,
         RemoveStopped, StopFailed
<1>4. step' = step \/ \E s \in Labels : StepTo(p, i, s)
  BY DEF StopInstance, StopInspects, StopInspectFault, StopContainer, StopFault,
         RemoveStopped, StopFailed, AfterStop, Labels, StopSteps, StartSteps, StepEnds
<1>5. UNCHANGED <<network, hostConf, booted>> =>
        network' \in BOOLEAN /\ hostConf' \in [Inst -> Nat] /\ booted' \in [Proc -> SUBSET Inst]
  BY DEF TypeOK
<1>6. QED
  BY <1>1, <1>2, <1>3, <1>4, <1>5, FaultTypes, TypesFrom DEF Resting

\* Starting an instance.
LEMMA StartTypes ==
  ASSUME TypeOK, NEW p \in Proc, NEW i \in Instances(p), StartInstance(p, i)
  PROVE  TypeOK'
<1>1. i \in Inst /\ RunConfigFingerprint(p) \in Fingerprints /\ cfg[p] \in Config
  BY InstancesAreInst
<1>2. Stays /\ network' = network /\ (Fault(p) \/ NoFault)
  BY DEF StartInstance, WriteConf, StartExists, StartHash, RemoveContainer, StartRunning,
         StartContainer, RunContainer, DockerFault, InstanceListening, dockerVars
<1>3. hostConf' \in [Inst -> Nat]
  <2>1. hostConf' = hostConf \/ hostConf' = [hostConf EXCEPT ![i] = cfg[p].conf]
    BY DEF StartInstance, WriteConf, StartExists, StartHash, RemoveContainer, StartRunning,
           StartContainer, RunContainer, DockerFault, InstanceListening, dockerVars, MongodConf
  <2>2. QED
    BY <1>1, <2>1 DEF TypeOK, Config
<1>4. container' = container \/ \E c \in Containers : Becomes(i, c)
  <2>1. CASE StartContainer(p, i)
    BY <1>1, <2>1, ContainerTypes DEF StartContainer, Boot
  <2>2. CASE RunContainer(p, i)
    BY <1>1, <2>2, ContainerTypes DEF RunContainer, Boot
  <2>3. QED
    BY <1>1, <2>1, <2>2, ContainerTypes
       DEF StartInstance, WriteConf, StartExists, StartHash, RemoveContainer, StartRunning,
           DockerFault, InstanceListening, dockerVars
<1>5. phase' = phase \/ GoTo(p, "failed")
  BY DEF StartInstance, WriteConf, StartExists, StartHash, RemoveContainer, StartRunning,
         StartContainer, RunContainer, DockerFault, InstanceListening
<1>6. step' = step \/ \E s \in Labels : StepTo(p, i, s)
  BY DEF StartInstance, WriteConf, StartExists, StartHash, RemoveContainer, StartRunning,
         StartContainer, RunContainer, DockerFault, InstanceListening, AfterBoot,
         Labels, StopSteps, StartSteps, StepEnds
<1>7. booted' \in [Proc -> SUBSET Inst]
  <2>1. booted' = booted \/ booted' = [booted EXCEPT ![p] = @ \union {i}]
    BY DEF StartInstance, WriteConf, StartExists, StartHash, RemoveContainer, StartRunning,
           StartContainer, RunContainer, DockerFault, InstanceListening, Boot
  <2>2. QED
    BY <1>1, <2>1 DEF TypeOK
<1>8. network' \in BOOLEAN
  BY <1>2 DEF TypeOK
<1>9. QED
  BY <1>1, <1>2, <1>3, <1>4, <1>5, <1>6, <1>7, <1>8, FaultTypes, TypesFrom DEF Resting

\* The steps of a run that are about all of its instances.
LEMMA RunTypes ==
  ASSUME TypeOK, NEW p \in Proc,
         \/ Kill(p) \/ NetworkExists(p) \/ CreateNetwork(p) \/ StatusFails(p)
         \/ InstancesDone(p) \/ InstancesListening(p) \/ RemoveNetwork(p)
         \/ \E i \in Instances(p) : Begin(p, i)
  PROVE  TypeOK'
<1>1. Stays /\ UNCHANGED <<container, hostConf, booted>> /\ (Fault(p) \/ NoFault)
  BY DEF Kill, NetworkExists, CreateNetwork, StatusFails, InstancesDone,
         InstancesListening, RemoveNetwork, Begin, dockerVars
<1>2. network' \in BOOLEAN
  BY DEF TypeOK, Kill, NetworkExists, CreateNetwork, StatusFails, InstancesDone,
         InstancesListening, RemoveNetwork, Begin, dockerVars
<1>3. phase' = phase \/ \E ph \in Resting \union Phases : GoTo(p, ph)
  <2>1. CASE InstancesDone(p)
    <3>1. mode[p] \in {"start", "stop", "restart"}
      BY DEF TypeOK, Modes
    <3>2. QED
      BY <2>1, <3>1 DEF InstancesDone, Resting, Phases
  <2>2. QED
    BY <2>1 DEF Kill, NetworkExists, CreateNetwork, StatusFails,
           InstancesListening, RemoveNetwork, Begin, Resting, Phases
<1>4. step' = step \/ \E i \in Inst, s \in Labels : StepTo(p, i, s)
  BY InstancesAreInst
     DEF Kill, NetworkExists, CreateNetwork, StatusFails, InstancesDone,
         InstancesListening, RemoveNetwork, Begin, Labels, StopSteps, StartSteps
<1>5. hostConf' \in [Inst -> Nat] /\ booted' \in [Proc -> SUBSET Inst]
  BY <1>1 DEF TypeOK
<1>6. QED
  BY <1>1, <1>2, <1>3, <1>4, <1>5, FaultTypes, TypesFrom

\* A run begins.
LEMMA LaunchTypes ==
  ASSUME TypeOK, NEW p \in Proc, Launch(p)
  PROVE  TypeOK'
<1>1. PICK m \in Modes : mode' = [mode EXCEPT ![p] = m] /\ GoTo(p, FirstPhase(m, file))
  BY DEF Launch
<1>2. mode' \in [Proc -> Modes]
  BY <1>1 DEF TypeOK
<1>3. phase' \in [Proc -> Resting \union Phases]
  BY <1>1 DEF TypeOK, GoTo, FirstPhase, Phases
<1>4. cfg' \in [Proc -> Configs]
  BY DEF TypeOK, Launch
<1>5. solo' \in [Proc -> BOOLEAN]
  <2>1. \A q \in Proc : solo'[q] \in BOOLEAN
    BY DEF TypeOK, Launch
  <2>2. QED
    BY <2>1 DEF Launch
<1>6. QED
  BY <1>2, <1>3, <1>4, <1>5 DEF TypeOK, Launch, dockerVars

LEMMA InitTypes == Init => TypeOK
<1> SUFFICES ASSUME Init PROVE TypeOK
  OBVIOUS
<1>1. PICK l \in LeftBehind : container = l.container /\ network = l.network /\ hostConf = l.hostConf
  BY DEF Init
<1>2. l \in Leftovers
  BY LeftoversAssumption
<1>3. container \in [Inst -> Containers] /\ network \in BOOLEAN /\ hostConf \in [Inst -> Nat]
  BY <1>1, <1>2 DEF Leftovers
<1>4. file \in Configs /\ cfg \in [Proc -> Configs]
  BY ConfigsAssumption DEF Init
<1>5. QED
  BY <1>3, <1>4, FaultAssumption
     DEF Init, TypeOK, Resting, Modes, StepEnds

\* Types of a step.
LEMMA NextTypes == TypeOK /\ [Next]_vars => TypeOK'
<1> SUFFICES ASSUME TypeOK, [Next]_vars PROVE TypeOK'
  OBVIOUS
<1>1. CASE Edit
  BY <1>1 DEF Edit, TypeOK, dockerVars, histVars
<1>2. ASSUME NEW p \in Proc, Run(p)
      PROVE  TypeOK'
  BY <1>2, LaunchTypes, RunTypes, StopTypes, StartTypes, InstancesAreInst DEF Run
<1>3. ASSUME NEW i \in Inst, Crash(i)
      PROVE  TypeOK'
  <2>1. container' \in [Inst -> Containers]
    <3>1. Exists(i)
      BY <1>3 DEF Crash, IsRunning, Exists
    <3>2. QED
      BY <1>3, <3>1, ContainerTypes DEF Crash, Becomes, TypeOK
  <2>2. calm' \in [Proc -> BOOLEAN]
    <3>1. \A p \in Proc : calm'[p] \in BOOLEAN
      BY <1>3 DEF Crash, TypeOK
    <3>2. QED
      BY <1>3, <3>1 DEF Crash
  <2>3. faults' \in 0..MaxFaults
    BY <1>3, FaultAssumption DEF Crash, TypeOK
  <2>4. QED
    BY <1>3, <2>1, <2>2, <2>3 DEF Crash, Stays, TypeOK
<1>4. CASE UNCHANGED vars
  BY <1>4 DEF TypeOK, vars, dockerVars, histVars
<1>5. QED
  BY <1>1, <1>2, <1>3, <1>4 DEF Next

\* All variables keep their types.
THEOREM TypeCorrect == Spec => []TypeOK
BY InitTypes, NextTypes, PTL DEF Spec

-----------------------------------------------------------------------------
(* The order in which start takes the instances                            *)

Through == (StartSteps \ {"wait"}) \union {"todo", "up"}

\* A run that has not begun has done nothing, and none does anything to instances
\* it does not have.  Only stop removes the network.  start brings up one instance
\* after the other, and stops none.
StartInv ==
  \A p \in Proc :
    /\ phase[p] = "idle" => \A i \in Inst : step[p][i] = "todo"
    /\ \A i \in Inst : step[p][i] # "todo" => i \in Instances(p)
    /\ mode[p] # "stop" => phase[p] # "removeNetwork"
    /\ mode[p] = "start" =>
         /\ \A i \in Inst : step[p][i] \in Through
         /\ \A i, j \in Inst : j < i /\ step[p][i] # "todo" => step[p][j] = "up"

LEMMA InstNumbers == Inst \subseteq Nat \ {0}
BY ConfigsAssumption DEF Inst, Config

\* One run goes on with one instance.
LEMMA StepOrders ==
  ASSUME TypeOK, StartInv, NEW p \in Proc, NEW i \in Instances(p), NEW t,
         phase[p] = "instances", StepTo(p, i, t), UNCHANGED <<mode, cfg, phase>>,
         mode[p] = "start" =>
           /\ t \in Through \ {"todo"} /\ step[p][i] # "up"
           /\ step[p][i] = "todo" => \A j \in 1..(i-1) : step[p][j] = "up"
  PROVE  StartInv'
<1>1. i \in Inst
  BY InstancesAreInst
<1>2. \A q \in Proc, j \in Inst :
        step'[q][j] = IF q = p /\ j = i THEN t ELSE step[q][j]
  BY <1>1 DEF TypeOK, StepTo
<1>3. ASSUME NEW q \in Proc
      PROVE  /\ phase[q] = "idle" => \A j \in Inst : step'[q][j] = "todo"
             /\ \A j \in Inst : step'[q][j] # "todo" => j \in Instances(q)
  BY <1>2 DEF StartInv
<1>4. ASSUME NEW q \in Proc, mode[q] = "start"
      PROVE  \A j \in Inst : step'[q][j] \in Through
  BY <1>2, <1>4 DEF StartInv
<1>5. ASSUME NEW q \in Proc, mode[q] = "start", NEW k \in Inst, NEW j \in Inst,
             j < k, step'[q][k] # "todo"
      PROVE  step'[q][j] = "up"
  <2>1. CASE q = p /\ k = i
    <3>1. j \in 1..(i-1) /\ j # i
      BY <1>5, <2>1, InstNumbers
    <3>2. QED
      BY <1>1, <1>2, <1>5, <2>1, <3>1 DEF StartInv
  <2>2. CASE ~(q = p /\ k = i)
    BY <1>2, <1>5, <2>2 DEF StartInv
  <2>3. QED
    BY <2>1, <2>2
<1>6. QED
  BY <1>3, <1>4, <1>5 DEF StartInv, Instances

\* One run goes on as a whole.
LEMMA PhaseOrders ==
  ASSUME TypeOK, StartInv, NEW p \in Proc, NEW ph, GoTo(p, ph),
         UNCHANGED <<mode, cfg, step>>,
         ph # "idle", mode[p] # "stop" => ph # "removeNetwork"
  PROVE  StartInv'
<1>1. \A q \in Proc : phase'[q] = IF q = p THEN ph ELSE phase[q]
  BY DEF TypeOK, GoTo
<1>2. QED
  BY <1>1 DEF StartInv, Instances

LEMMA StopOrders ==
  ASSUME TypeOK, StartInv, NEW p \in Proc, NEW i \in Instances(p), StopInstance(p, i)
  PROVE  StartInv'
<1>1. i \in Inst
  BY InstancesAreInst
<1>2. phase[p] = "instances" /\ step[p][i] \in StopSteps /\ UNCHANGED <<mode, cfg>>
  BY DEF StopInstance, StopInspects, StopInspectFault, StopContainer, StopFault,
         RemoveStopped, Stays, StopSteps
<1>3. mode[p] # "start"
  BY <1>1, <1>2 DEF StartInv, Through, StopSteps, StartSteps
<1>4. \/ \E t : StepTo(p, i, t) /\ UNCHANGED phase
      \/ GoTo(p, "failed") /\ UNCHANGED step
  BY DEF StopInstance, StopInspects, StopInspectFault, StopContainer, StopFault,
         RemoveStopped, StopFailed, AfterStop
<1>5. QED
  BY <1>2, <1>3, <1>4, StepOrders, PhaseOrders

LEMMA StartOrders ==
  ASSUME TypeOK, StartInv, NEW p \in Proc, NEW i \in Instances(p),
         StartInstance(p, i) \/ Begin(p, i)
  PROVE  StartInv'
<1>1. i \in Inst
  BY InstancesAreInst
<1>2. phase[p] = "instances" /\ UNCHANGED <<mode, cfg>>
  BY DEF StartInstance, WriteConf, StartExists, StartHash, RemoveContainer, StartRunning,
         StartContainer, RunContainer, DockerFault, InstanceListening, Begin, MayBegin, Stays
<1>3. CASE Begin(p, i)
  BY <1>2, <1>3, StepOrders DEF Begin, MayBegin, Through, StartSteps
<1>4. CASE StartInstance(p, i)
  <2>1. step[p][i] \in StartSteps
    BY <1>4 DEF StartInstance, WriteConf, StartExists, StartHash, RemoveContainer,
                StartRunning, StartContainer, RunContainer, DockerFault,
                InstanceListening, StartSteps
  <2>2. \/ \E t \in (StartSteps \ {"wait"}) \union {"up"} : StepTo(p, i, t) /\ UNCHANGED phase
        \/ AfterBoot(p, i) /\ UNCHANGED phase
        \/ GoTo(p, "failed") /\ UNCHANGED step
    BY <1>4 DEF StartInstance, WriteConf, StartExists, StartHash, RemoveContainer,
                StartRunning, StartContainer, RunContainer, DockerFault,
                InstanceListening, StartSteps
  <2>3. \/ \E t \in Labels \ {"todo"} : /\ StepTo(p, i, t) /\ UNCHANGED phase
                                        /\ mode[p] = "start" => t \in Through
        \/ GoTo(p, "failed") /\ UNCHANGED step
    BY <2>2 DEF AfterBoot, Through, Labels, StartSteps, StepEnds
  <2>4. step[p][i] \notin {"up", "todo"}
    BY <2>1 DEF StartSteps
  <2>5. CASE \E t \in Labels \ {"todo"} : /\ StepTo(p, i, t) /\ UNCHANGED phase
                                          /\ mode[p] = "start" => t \in Through
    <3>1. PICK t \in Labels \ {"todo"} : /\ StepTo(p, i, t) /\ UNCHANGED phase
                                         /\ mode[p] = "start" => t \in Through
      BY <2>5
    <3>2. mode[p] = "start" =>
            /\ t \in Through \ {"todo"} /\ step[p][i] # "up"
            /\ step[p][i] = "todo" => \A j \in 1..(i-1) : step[p][j] = "up"
      BY <2>4, <3>1
    <3>3. QED
      BY <1>2, <3>1, <3>2, StepOrders
  <2>6. CASE GoTo(p, "failed") /\ UNCHANGED step
    BY <1>2, <2>6, PhaseOrders
  <2>7. QED
    BY <2>3, <2>5, <2>6
<1>5. QED
  BY <1>3, <1>4

LEMMA NextOrders == TypeOK /\ StartInv /\ [Next]_vars => StartInv'
<1> SUFFICES ASSUME TypeOK, StartInv, [Next]_vars PROVE StartInv'
  OBVIOUS
<1>1. CASE Edit \/ UNCHANGED vars \/ \E i \in Inst : Crash(i)
  <2>1. UNCHANGED <<phase, mode, cfg, step>>
    BY <1>1 DEF Edit, Crash, Stays, vars
  <2>2. QED
    BY <2>1 DEF StartInv, Instances
<1>2. ASSUME NEW p \in Proc, Run(p)
      PROVE  StartInv'
  <2>1. CASE Launch(p)
    <3>1. PICK m \in Modes : mode' = [mode EXCEPT ![p] = m] /\ GoTo(p, FirstPhase(m, file))
      BY <2>1 DEF Launch
    <3>2. \A q \in Proc : /\ phase'[q] = IF q = p THEN FirstPhase(m, file) ELSE phase[q]
                          /\ mode'[q] = IF q = p THEN m ELSE mode[q]
                          /\ q # p => cfg'[q] = cfg[q]
      BY <2>1, <3>1 DEF Launch, TypeOK, GoTo
    <3>3. phase[p] = "idle" /\ step' = step
      BY <2>1 DEF Launch
    <3>4. FirstPhase(m, file) \notin {"idle", "removeNetwork"}
      BY DEF FirstPhase
    <3>5. QED
      BY <3>2, <3>3, <3>4 DEF StartInv, Instances, Through
  <2>2. CASE \/ Kill(p) \/ NetworkExists(p) \/ CreateNetwork(p) \/ StatusFails(p)
             \/ InstancesListening(p) \/ RemoveNetwork(p)
    BY <2>2, PhaseOrders
       DEF Kill, NetworkExists, CreateNetwork, StatusFails, InstancesListening,
           RemoveNetwork, Stays
  <2>3. CASE InstancesDone(p)
    <3>1. mode[p] \in {"start", "stop", "restart"}
      BY DEF TypeOK, Modes
    <3>2. QED
      BY <2>3, <3>1, PhaseOrders DEF InstancesDone, Stays
  <2>4. QED
    BY <1>2, <2>1, <2>2, <2>3, StopOrders, StartOrders DEF Run
<1>3. QED
  BY <1>1, <1>2 DEF Next

-----------------------------------------------------------------------------
(* Starts that race                                                        *)

\* Nothing has failed and all runs so far are starts of one configuration.
Alike ==
  /\ faults = 0
  /\ \A p \in Launched : mode[p] = "start"
  /\ \A p, q \in Launched : cfg[p] = cfg[q]

\* Steps at which the container is one that the run keeps, or none.
Settled == {"running", "start", "create", "up"}
Fits(p, i) == container[i] = Absent \/ container[i].label = RunConfigFingerprint(p)
Making(i) == \E r \in Launched : phase[r] = "instances" /\ step[r][i] = "create"

\* Once a run has found or made a container of the configuration, no other kind
\* comes back; and what it has seen up is up, unless somebody has removed it and
\* is about to make it again.
InstanceInv(p, i) ==
  /\ step[p][i] \in Settled => Fits(p, i)
  /\ step[p][i] = "up" => Current(p, i) \/ (container[i] = Absent /\ Making(i))
RunInv(p) ==
  /\ phase[p] \in {"listen", "done"} => \A i \in Instances(p) : step[p][i] = "up"
  /\ phase[p] \in {"instances", "listen", "done"} /\ cfg[p].net => network

RaceInv ==
  Alike => \A p \in Launched : RunInv(p) /\ \A i \in Inst : InstanceInv(p, i)

\* What a run that has begun does not change.
LEMMA RunKeeps ==
  ASSUME TypeOK, NEW p \in Proc, Run(p), ~Launch(p)
  PROVE  /\ phase[p] \in Phases
         /\ UNCHANGED <<mode, cfg, solo>>
         /\ NoFault \/ Fault(p)
         /\ phase' = phase \/ \E ph \in {"failed", "done"} \union Phases : GoTo(p, ph)
<1>1. CASE Kill(p)
  BY <1>1 DEF Kill, Running, Stays, TypeOK
<1>2. CASE \E i \in Instances(p) : StopInstance(p, i)
  BY <1>2 DEF StopInstance, StopInspects, StopInspectFault, StopContainer, StopFault,
         RemoveStopped, StopFailed, Stays, Phases
<1>3. CASE \E i \in Instances(p) : StartInstance(p, i)
  BY <1>3 DEF StartInstance, WriteConf, StartExists, StartHash, RemoveContainer,
         StartRunning, StartContainer, RunContainer, DockerFault, InstanceListening,
         Stays, Phases
<1>4. CASE InstancesDone(p)
  <2>1. mode[p] \in {"start", "stop", "restart"}
    BY DEF TypeOK, Modes
  <2>2. QED
    BY <1>4, <2>1 DEF InstancesDone, Stays, Phases
<1>5. CASE \/ NetworkExists(p) \/ CreateNetwork(p) \/ StatusFails(p)
           \/ InstancesListening(p) \/ RemoveNetwork(p)
           \/ \E i \in Instances(p) : Begin(p, i)
  BY <1>5 DEF NetworkExists, CreateNetwork, StatusFails, InstancesListening,
         RemoveNetwork, Begin, MayBegin, Stays, Phases
<1>6. QED
  BY <1>1, <1>2, <1>3, <1>4, <1>5 DEF Run

\* The same for all runs that have begun.
LEMMA LaunchedKeep ==
  ASSUME TypeOK, NEW p \in Proc, Run(p)
  PROVE  /\ faults' = faults \/ faults' = faults + 1
         /\ \A q \in Launched : q \in Launched' /\ mode'[q] = mode[q] /\ cfg'[q] = cfg[q]
<1>1. CASE Launch(p)
  <2>1. \A q \in Proc \ {p} : phase'[q] = phase[q] /\ mode'[q] = mode[q] /\ cfg'[q] = cfg[q]
    BY <1>1 DEF Launch, GoTo, TypeOK
  <2>2. QED
    BY <1>1, <2>1 DEF Launch, Launched
<1>2. CASE ~Launch(p)
  <2>1. CASE phase' = phase
    BY <1>2, <2>1, RunKeeps DEF Launched, NoFault, Fault
  <2>2. ASSUME NEW ph \in {"failed", "done"} \union Phases, GoTo(p, ph)
        PROVE  \A q \in Launched : q \in Launched'
    BY <2>2 DEF Launched, GoTo, TypeOK, Phases
  <2>3. QED
    BY <1>2, <2>1, <2>2, RunKeeps DEF NoFault, Fault
<1>3. QED
  BY <1>1, <1>2

\* What has been alike for all runs so far was so before.
LEMMA AlikeBefore ==
  ASSUME TypeOK, NEW p \in Proc, Run(p), Alike'
  PROVE  Alike
<1>1. faults \in Nat
  BY DEF TypeOK
<1>2. QED
  BY <1>1, LaunchedKeep DEF Alike

\* Runs that are alike want the same containers.
LEMMA SameFingerprint ==
  ASSUME Alike, NEW p \in Launched, NEW q \in Launched
  PROVE  RunConfigFingerprint(p) = RunConfigFingerprint(q)
BY DEF Alike, RunConfigFingerprint

\* The step of one run at one instance, with nothing done to the container.
LEMMA StepRace ==
  ASSUME TypeOK, RaceInv, Alike, NEW p \in Launched, NEW i \in Inst, NEW t,
         phase[p] = "instances", StepTo(p, i, t), step[p][i] # "create",
         UNCHANGED <<container, network, phase, mode, cfg>>,
         t \in Settled => Fits(p, i),
         t = "up" => Current(p, i),
         step[p][i] # "up"
  PROVE  RaceInv'
<1>1. \A q \in Proc, j \in Inst :
        step'[q][j] = IF q = p /\ j = i THEN t ELSE step[q][j]
  BY DEF TypeOK, StepTo
<1>2. Launched' = Launched /\ Launched \subseteq Proc
  BY DEF Launched
<1>3. ASSUME NEW q \in Launched
      PROVE  RunInv(q)'
  <2>1. Instances(q)' = Instances(q) /\ Instances(q) \subseteq Inst
    BY <1>2, InstancesAreInst DEF Instances
  <2>2. QED
    BY <1>1, <1>2, <2>1 DEF RaceInv, RunInv
<1>4. ASSUME NEW q \in Launched, NEW j \in Inst
      PROVE  InstanceInv(q, j)'
  <2>1. Making(j) => Making(j)'
    BY <1>1, <1>2 DEF Making
  <2>2. (Fits(q, j)' <=> Fits(q, j)) /\ (Current(q, j)' <=> Current(q, j))
    BY DEF Fits, Current, IsRunning, RunConfigFingerprint
  <2>3. QED
    BY <1>1, <1>2, <2>1, <2>2 DEF RaceInv, InstanceInv
<1>5. QED
  BY <1>2, <1>3, <1>4 DEF RaceInv

\* The step of a run that is about all of its instances.
LEMMA PhaseRace ==
  ASSUME TypeOK, RaceInv, Alike, NEW p \in Launched, NEW ph, GoTo(p, ph), ph # "idle",
         UNCHANGED <<container, step, mode, cfg>>,
         network => network',
         ph \in {"listen", "done"} => \A i \in Instances(p) : step[p][i] = "up",
         ph \in {"instances", "listen", "done"} /\ cfg[p].net => network',
         \A i \in Inst : phase[p] = "instances" /\ step[p][i] = "create" =>
                         container[i] # Absent
  PROVE  RaceInv'
<1>1. \A q \in Proc : phase'[q] = IF q = p THEN ph ELSE phase[q]
  BY DEF TypeOK, GoTo
<1>2. Launched' = Launched /\ Launched \subseteq Proc
  BY <1>1 DEF Launched
<1>3. ASSUME NEW q \in Launched
      PROVE  RunInv(q)'
  BY <1>1, <1>2 DEF RaceInv, RunInv, Instances
<1>4. ASSUME NEW q \in Launched, NEW j \in Inst
      PROVE  InstanceInv(q, j)'
  <2>1. container[j] = Absent /\ Making(j) => Making(j)'
    BY <1>1, <1>2 DEF Making
  <2>2. (Fits(q, j)' <=> Fits(q, j)) /\ (Current(q, j)' <=> Current(q, j))
    BY DEF Fits, Current, IsRunning, RunConfigFingerprint
  <2>3. QED
    BY <2>1, <2>2 DEF RaceInv, InstanceInv
<1>5. QED
  BY <1>2, <1>3, <1>4 DEF RaceInv

\* A run brings an instance up.
LEMMA BootRace ==
  ASSUME TypeOK, RaceInv, Alike, NEW p \in Launched, NEW i \in Inst, NEW c,
         Becomes(i, c), c.state = "running", c.label = RunConfigFingerprint(p),
         phase[p] = "instances", StepTo(p, i, "up"),
         UNCHANGED <<network, phase, mode, cfg>>
  PROVE  RaceInv'
<1>1. \A q \in Proc, j \in Inst :
        step'[q][j] = IF q = p /\ j = i THEN "up" ELSE step[q][j]
  BY DEF TypeOK, StepTo
<1>2. \A j \in Inst : container'[j] = IF j = i THEN c ELSE container[j]
  BY DEF TypeOK, Becomes
<1>3. Launched' = Launched /\ Launched \subseteq Proc
  BY DEF Launched
<1>4. ASSUME NEW q \in Launched
      PROVE  RunInv(q)'
  <2>1. Instances(q)' = Instances(q) /\ Instances(q) \subseteq Inst
    BY <1>3, InstancesAreInst DEF Instances
  <2>2. QED
    BY <1>1, <1>3, <2>1 DEF RaceInv, RunInv
<1>5. ASSUME NEW q \in Launched, NEW j \in Inst
      PROVE  InstanceInv(q, j)'
  <2>1. CASE j = i
    <3>1. RunConfigFingerprint(q)' = c.label
      BY SameFingerprint DEF RunConfigFingerprint
    <3>2. QED
      BY <1>2, <2>1, <3>1 DEF InstanceInv, Fits, Current, IsRunning
  <2>2. CASE j # i
    <3>1. Making(j) => Making(j)'
      BY <1>1, <1>3, <2>2 DEF Making
    <3>2. (Fits(q, j)' <=> Fits(q, j)) /\ (Current(q, j)' <=> Current(q, j))
      BY <1>2, <2>2 DEF Fits, Current, IsRunning, RunConfigFingerprint
    <3>3. QED
      BY <1>1, <1>2, <1>3, <2>2, <3>1, <3>2 DEF RaceInv, InstanceInv
  <2>3. QED
    BY <2>1, <2>2
<1>6. QED
  BY <1>3, <1>4, <1>5 DEF RaceInv

\* A run removes the container that it has found outdated, or its successor.
LEMMA RemoveRace ==
  ASSUME TypeOK, RaceInv, Alike, NEW p \in Launched, NEW i \in Inst,
         phase[p] = "instances", step[p][i] = "remove",
         Becomes(i, Absent), StepTo(p, i, "create"),
         UNCHANGED <<network, phase, mode, cfg>>
  PROVE  RaceInv'
<1>1. \A q \in Proc, j \in Inst :
        step'[q][j] = IF q = p /\ j = i THEN "create" ELSE step[q][j]
  BY DEF TypeOK, StepTo
<1>2. \A j \in Inst : container'[j] = IF j = i THEN Absent ELSE container[j]
  BY DEF TypeOK, Becomes
<1>3. Launched' = Launched /\ Launched \subseteq Proc
  BY DEF Launched
<1>4. ASSUME NEW q \in Launched
      PROVE  RunInv(q)'
  <2>1. Instances(q)' = Instances(q) /\ Instances(q) \subseteq Inst
    BY <1>3, InstancesAreInst DEF Instances
  <2>2. QED
    BY <1>1, <1>3, <2>1 DEF RaceInv, RunInv
<1>5. ASSUME NEW q \in Launched, NEW j \in Inst
      PROVE  InstanceInv(q, j)'
  <2>1. CASE j = i
    <3>1. Making(i)'
      BY <1>1, <1>3 DEF Making
    <3>2. QED
      BY <1>2, <2>1, <3>1 DEF InstanceInv, Fits
  <2>2. CASE j # i
    <3>1. Making(j) => Making(j)'
      BY <1>1, <1>3, <2>2 DEF Making
    <3>2. (Fits(q, j)' <=> Fits(q, j)) /\ (Current(q, j)' <=> Current(q, j))
      BY <1>2, <2>2 DEF Fits, Current, IsRunning, RunConfigFingerprint
    <3>3. QED
      BY <1>1, <1>2, <1>3, <2>2, <3>1, <3>2 DEF RaceInv, InstanceInv
  <2>3. QED
    BY <2>1, <2>2
<1>6. QED
  BY <1>3, <1>4, <1>5 DEF RaceInv

\* What start does at one instance.
LEMMA StartRace ==
  ASSUME TypeOK, StartInv, RaceInv, Alike, Alike', NEW p \in Launched,
         NEW i \in Instances(p), StartInstance(p, i) \/ Begin(p, i)
  PROVE  RaceInv'
<1> DEFINE At(s) == phase[p] = "instances" /\ step[p][i] = s
<1>1. /\ p \in Proc /\ i \in Inst /\ mode[p] = "start"
      /\ step[p][i] \in Through
      /\ step[p][i] \in Settled => Fits(p, i)
      /\ phase[p] = "instances" /\ cfg[p].net => network
      /\ faults' = faults /\ faults \in Nat
  BY InstancesAreInst DEF Launched, Alike, StartInv, RaceInv, RunInv, InstanceInv, TypeOK
<1>2. ASSUME NEW j \in Inst, step[p][j] = "create", step[p][i] \in StartSteps
      PROVE  j = i
  <2>1. step[p][i] \notin {"todo", "up"} /\ step[p][j] \notin {"todo", "up"}
    BY <1>2 DEF StartSteps
  <2>2. ~(i < j) /\ ~(j < i)
    BY <1>1, <2>1 DEF StartInv
  <2>3. i \in Nat /\ j \in Nat
    BY <1>1, InstNumbers
  <2>4. QED
    BY <2>2, <2>3
<1>3. ~Fault(p)
  BY <1>1 DEF Fault
<1>4. CASE Begin(p, i)
  BY <1>1, <1>4, StepRace DEF Begin, MayBegin, Settled, dockerVars, Stays
<1>5. CASE WriteConf(p, i)
  BY <1>1, <1>5, StepRace DEF WriteConf, Settled, Stays
<1>6. CASE StartExists(p, i)
  <2>1. StepTo(p, i, "hash") \/ (StepTo(p, i, "create") /\ container[i] = Absent)
    BY <1>1, <1>3, <1>6 DEF StartExists, Exists, TypeOK, Containers
  <2>2. QED
    BY <1>1, <1>6, <2>1, StepRace DEF StartExists, Settled, Fits, dockerVars, Stays
<1>7. CASE StartHash(p, i)
  BY <1>1, <1>3, <1>7, StepRace
     DEF StartHash, ConfigChanged, Settled, Fits, dockerVars, Stays
<1>8. CASE RemoveContainer(p, i)
  BY <1>1, <1>8, RemoveRace DEF RemoveContainer, Stays
<1>9. CASE StartRunning(p, i)
  <2>1. Fits(p, i) /\ (IsRunning(i) => Current(p, i))
    BY <1>1, <1>9 DEF StartRunning, Settled, Fits, Current, IsRunning, Absent
  <2>2. StepTo(p, i, "start") \/ (StepTo(p, i, "up") /\ IsRunning(i))
    BY <1>1, <1>3, <1>9 DEF StartRunning, AfterBoot
  <2>3. QED
    BY <1>1, <1>9, <2>1, <2>2, StepRace DEF StartRunning, dockerVars, Stays
<1>10. CASE StartContainer(p, i)
  <2>1. Fits(p, i) /\ (Exists(i) => container[i].label = RunConfigFingerprint(p))
    BY <1>1, <1>10 DEF StartContainer, Settled, Fits, Exists, Absent
  <2>2. CASE IsRunning(i)
    <3>1. Current(p, i)
      BY <2>1, <2>2 DEF Current, IsRunning, Exists
    <3>2. StepTo(p, i, "up") /\ UNCHANGED <<container, phase>>
      BY <1>1, <1>10, <2>2 DEF StartContainer, AfterBoot
    <3>3. QED
      BY <1>1, <1>10, <2>1, <3>1, <3>2, StepRace DEF StartContainer, Stays
  <2>3. CASE ~IsRunning(i) /\ Exists(i) /\ MayBoot(container[i].label)
    <3>1. Boot(p, i, container[i].label) /\ StepTo(p, i, "up") /\ UNCHANGED phase
      BY <1>1, <1>10, <2>3 DEF StartContainer, AfterBoot
    <3>2. QED
      BY <1>1, <1>10, <2>1, <2>3, <3>1, BootRace DEF StartContainer, Boot, Stays
  <2>4. CASE ~IsRunning(i) /\ ~(Exists(i) /\ MayBoot(container[i].label))
    <3>1. GoTo(p, "failed") /\ UNCHANGED <<container, step>>
      BY <1>10, <2>4 DEF StartContainer
    <3>2. \A j \in Inst : step[p][j] # "create"
      BY <1>2, <1>10 DEF StartContainer, StartSteps
    <3>3. QED
      BY <1>10, <3>1, <3>2, PhaseRace DEF StartContainer, Stays
  <2>5. QED
    BY <2>2, <2>3, <2>4
<1>11. CASE RunContainer(p, i)
  <2>1. MayBoot(RunConfigFingerprint(p))
    BY <1>1, <1>11 DEF RunContainer, MayBoot, RunConfigFingerprint
  <2>2. CASE ~Exists(i)
    <3>1. Boot(p, i, RunConfigFingerprint(p)) /\ StepTo(p, i, "up") /\ UNCHANGED phase
      BY <1>1, <1>11, <2>1, <2>2 DEF RunContainer, AfterBoot
    <3>2. QED
      BY <1>1, <1>11, <3>1, BootRace DEF RunContainer, Boot, Stays
  <2>3. CASE Exists(i)
    <3>1. GoTo(p, "failed") /\ UNCHANGED <<container, step>>
      BY <1>11, <2>3 DEF RunContainer
    <3>2. \A j \in Inst : step[p][j] = "create" => container[j] # Absent
      BY <1>2, <1>11, <2>3 DEF RunContainer, StartSteps, Exists, Absent
    <3>3. QED
      BY <1>11, <3>1, <3>2, PhaseRace DEF RunContainer, Stays
  <2>4. QED
    BY <2>2, <2>3
<1>12. CASE DockerFault(p, i)
  BY <1>3, <1>12 DEF DockerFault
<1>13. CASE InstanceListening(p, i)
  BY <1>1, <1>13 DEF InstanceListening, Through, StartSteps
<1>14. QED
  BY <1>4, <1>5, <1>6, <1>7, <1>8, <1>9, <1>10, <1>11, <1>12, <1>13 DEF StartInstance

\* A run begins; it has not come to an instance yet.
LEMMA LaunchRace ==
  ASSUME TypeOK, StartInv, RaceInv, Alike, Alike', NEW p \in Proc, Launch(p)
  PROVE  RaceInv'
<1>1. PICK m \in Modes : mode' = [mode EXCEPT ![p] = m] /\ GoTo(p, FirstPhase(m, file))
  BY DEF Launch
<1>2. /\ phase[p] = "idle" /\ UNCHANGED <<container, network, step>>
      /\ cfg' = [cfg EXCEPT ![p] = file]
  BY DEF Launch, dockerVars
<1>3. \A q \in Proc : /\ phase'[q] = IF q = p THEN FirstPhase(m, file) ELSE phase[q]
                      /\ mode'[q] = IF q = p THEN m ELSE mode[q]
                      /\ cfg'[q] = IF q = p THEN file ELSE cfg[q]
  BY <1>1, <1>2 DEF TypeOK, GoTo
<1>4. Launched' = Launched \union {p} /\ p \notin Launched /\ Launched \subseteq Proc
  BY <1>2, <1>3 DEF Launched, FirstPhase
<1>5. m = "start"
  BY <1>3, <1>4 DEF Alike
<1>6. RunInv(p)'
  BY <1>3, <1>5 DEF RunInv, FirstPhase
<1>7. \A j \in Inst : InstanceInv(p, j)'
  BY <1>2 DEF InstanceInv, StartInv, Settled
<1>8. ASSUME NEW q \in Launched
      PROVE  RunInv(q)'
  BY <1>2, <1>3, <1>4 DEF RaceInv, RunInv, Instances
<1>9. ASSUME NEW q \in Launched, NEW j \in Inst
      PROVE  InstanceInv(q, j)'
  <2>1. Making(j) => Making(j)'
    BY <1>2, <1>3, <1>4 DEF Making
  <2>2. (Fits(q, j)' <=> Fits(q, j)) /\ (Current(q, j)' <=> Current(q, j))
    BY <1>2, <1>3, <1>4 DEF Fits, Current, IsRunning, RunConfigFingerprint
  <2>3. QED
    BY <1>2, <2>1, <2>2 DEF RaceInv, InstanceInv
<1>10. QED
  BY <1>4, <1>6, <1>7, <1>8, <1>9 DEF RaceInv

LEMMA NextRace == TypeOK /\ StartInv /\ RaceInv /\ [Next]_vars => RaceInv'
<1> SUFFICES ASSUME TypeOK, StartInv, RaceInv, [Next]_vars, Alike' PROVE RaceInv'
  BY DEF RaceInv
<1>1. CASE Edit \/ UNCHANGED vars
  <2>1. UNCHANGED <<container, network, phase, mode, cfg, step, faults>>
    BY <1>1 DEF Edit, vars, dockerVars
  <2>2. QED
    BY <2>1 DEF RaceInv, Alike, RunInv, InstanceInv, Launched, Instances, Settled, Fits,
                Making, Current, IsRunning, RunConfigFingerprint
<1>2. ASSUME NEW p \in Proc, Run(p)
      PROVE  RaceInv'
  <2>1. Alike
    BY <1>2, AlikeBefore
  <2>2. CASE Launch(p)
    BY <2>1, <2>2, LaunchRace
  <2>3. CASE ~Launch(p)
    <3>1. p \in Launched /\ mode[p] = "start" /\ phase[p] \in Phases
      BY <1>2, <2>1, <2>3, RunKeeps DEF Launched, Alike, Phases
    <3>2. faults' = faults /\ faults \in Nat /\ ~Fault(p)
      BY <2>1 DEF Alike, Fault, TypeOK
    <3>3. CASE NetworkExists(p) \/ CreateNetwork(p)
      BY <2>1, <3>1, <3>3, PhaseRace DEF NetworkExists, CreateNetwork, Stays, dockerVars
    <3>4. CASE InstancesDone(p)
      <4>1. \A i \in Instances(p) : step[p][i] = "up"
        BY <3>1, <3>4, InstancesAreInst
           DEF InstancesDone, StartInv, Through, StartSteps, StepEnds
      <4>2. \A i \in Inst : step[p][i] # "create"
        BY <3>1, <3>4 DEF InstancesDone, StartInv, StepEnds
      <4>3. cfg[p].net => network
        BY <2>1, <3>1, <3>4 DEF RaceInv, RunInv, InstancesDone
      <4>4. GoTo(p, "listen") /\ UNCHANGED <<container, network, step, mode, cfg>>
        BY <3>1, <3>4 DEF InstancesDone, Stays, dockerVars
      <4>5. QED
        BY <2>1, <3>1, <4>1, <4>2, <4>3, <4>4, PhaseRace
    <3>5. CASE InstancesListening(p)
      <4>1. (\A i \in Instances(p) : step[p][i] = "up") /\ (cfg[p].net => network)
        BY <2>1, <3>1, <3>5 DEF RaceInv, RunInv, InstancesListening
      <4>2. QED
        BY <2>1, <3>1, <3>5, <4>1, PhaseRace DEF InstancesListening, Stays, dockerVars
    <3>6. ASSUME NEW i \in Instances(p), StartInstance(p, i) \/ Begin(p, i)
          PROVE  RaceInv'
      BY <2>1, <3>1, <3>6, StartRace
    <3>7. ASSUME NEW i \in Instances(p), StopInstance(p, i)
          PROVE  FALSE
      <4>1. step[p][i] \in StopSteps
        BY <3>7 DEF StopInstance, StopInspects, StopInspectFault, StopContainer, StopFault,
                    RemoveStopped, StopSteps
      <4>2. QED
        BY <3>1, <4>1, InstancesAreInst DEF StartInv, Through, StopSteps, StartSteps
    <3>8. ~Kill(p) /\ ~StatusFails(p) /\ ~RemoveNetwork(p)
      BY <3>1, <3>2 DEF Kill, StatusFails, RemoveNetwork, StartInv
    <3>9. QED
      BY <1>2, <2>3, <3>3, <3>4, <3>5, <3>6, <3>7, <3>8 DEF Run
  <2>4. QED
    BY <2>2, <2>3
<1>3. ASSUME NEW i \in Inst, Crash(i)
      PROVE  FALSE
  BY <1>3 DEF Crash, Alike, TypeOK
<1>4. QED
  BY <1>1, <1>2, <1>3 DEF Next

\* Starts of one configuration may race and even replace what the other has just
\* created; when none is left running and one has reported success, every instance
\* is up in a container made for the configuration.
THEOREM RaceIsHarmless == Spec => []RaceLeavesAllUp
<1> DEFINE Inv == TypeOK /\ StartInv /\ RaceInv
<1>1. Init => Inv
  <2> SUFFICES ASSUME Init PROVE Inv
    OBVIOUS
  <2>1. StartInv
    BY DEF Init, StartInv, Through
  <2>2. Launched = {}
    BY DEF Init, Launched
  <2>3. QED
    BY <2>1, <2>2, InitTypes DEF RaceInv
<1>2. Inv /\ [Next]_vars => Inv'
  BY NextTypes, NextOrders, NextRace
<1>3. Inv => RaceLeavesAllUp
  <2> SUFFICES ASSUME Inv, faults = 0,
                      \A p \in Launched : mode[p] = "start" /\ ~Running(p),
                      \A p, q \in Launched : cfg[p] = cfg[q],
                      NEW p \in Launched, phase[p] = "done", NEW i \in Instances(p)
               PROVE  Current(p, i)
    BY DEF RaceLeavesAllUp
  <2>1. i \in Inst /\ step[p][i] = "up" /\ InstanceInv(p, i)
    BY InstancesAreInst DEF RaceInv, RunInv, Alike, Launched
  <2>2. ~Making(i)
    BY DEF Making, Running, Resting
  <2>3. QED
    BY <2>1, <2>2 DEF InstanceInv
<1>4. QED
  BY <1>1, <1>2, <1>3, PTL DEF Spec

-----------------------------------------------------------------------------
(* A run alone                                                             *)

\* While a run is alone nobody else is running.
SoloInv == \A p \in Proc : solo[p] /\ Running(p) => \A q \in Proc \ {p} : ~Running(q)

\* What a run has brought up it has come past, and only stop gives an instance up.
PastInv ==
  \A p \in Proc, i \in Inst :
    /\ i \in booted[p] => step[p][i] \in {"wait", "up"}
    /\ mode[p] # "stop" => step[p][i] \notin {"down", "stopFailed"}

\* What a run that is alone and met no fault knows of an instance at each step.
Alone(p) == Running(p) /\ solo[p] /\ calm[p] /\ mode[p] # "stop"
OwnInv(p, i) ==
  /\ step[p][i] \in {"running", "start", "wait", "up"} =>
       Exists(i) /\ container[i].label = RunConfigFingerprint(p)
  /\ step[p][i] = "create" => ~Exists(i)
  /\ step[p][i] \in {"wait", "up"} => IsRunning(i)
  /\ mode[p] = "restart" =>
       /\ step[p][i] \in {"rm"} \union (StartSteps \ {"wait"}) => ~IsRunning(i)
       /\ step[p][i] \in {"wait", "up"} => i \in booted[p]
  /\ step[p][i] \in StartSteps \ {"conf", "wait"} => hostConf[i] = cfg[p].conf
  /\ i \in booted[p] => container[i].conf = cfg[p].conf
AloneInv ==
  \A p \in Proc : Alone(p) =>
    /\ \A i \in Inst : OwnInv(p, i)
    /\ phase[p] = "listen" => \A i \in Instances(p) : step[p][i] = "up"

LEMMA NextSolo == TypeOK /\ SoloInv /\ [Next]_vars => SoloInv'
<1> SUFFICES ASSUME TypeOK, SoloInv, [Next]_vars PROVE SoloInv'
  OBVIOUS
<1>1. CASE UNCHANGED <<phase, solo>>
  BY <1>1 DEF SoloInv, Running
<1>2. CASE Edit \/ UNCHANGED vars \/ \E i \in Inst : Crash(i)
  BY <1>1, <1>2 DEF Edit, Crash, Stays, vars, histVars
<1>3. ASSUME NEW p \in Proc, Launch(p)
      PROVE  SoloInv'
  <2>1. \A q \in Proc \ {p} : Running(q)' <=> Running(q)
    BY <1>3 DEF Launch, GoTo, Running, TypeOK
  <2>2. \A q \in Proc : solo'[q] = IF q = p THEN \A r \in Proc \ {p} : ~Running(r)
                                  ELSE solo[q] /\ ~Running(q)
    BY <1>3 DEF Launch
  <2>3. QED
    BY <2>1, <2>2 DEF SoloInv
<1>4. ASSUME NEW p \in Proc, Run(p), ~Launch(p)
      PROVE  SoloInv'
  <2>1. Running(p) /\ solo' = solo
    <3>1. Running(p)
      BY <1>4, RunKeeps DEF Running, Resting, Phases
    <3>2. solo' = solo
      BY <1>4, RunKeeps
    <3>3. QED
      BY <3>1, <3>2
  <2>2. \A q \in Proc \ {p} : phase'[q] = phase[q]
    BY <1>4, RunKeeps DEF GoTo, TypeOK
  <2>3. QED
    BY <2>1, <2>2 DEF SoloInv, Running
<1>5. QED
  BY <1>2, <1>3, <1>4 DEF Next

\* What a run does at one instance leaves the others and other runs as they are.
LEMMA InstanceFrame ==
  ASSUME TypeOK, NEW p \in Proc, NEW i \in Instances(p),
         StopInstance(p, i) \/ StartInstance(p, i) \/ Begin(p, i)
  PROVE  /\ UNCHANGED <<mode, cfg, solo>>
         /\ \A q \in Proc, j \in Inst : q # p \/ j # i =>
              step'[q][j] = step[q][j] /\ (j \in booted'[q] <=> j \in booted[q])
         /\ \A j \in Inst \ {i} : container'[j] = container[j] /\ hostConf'[j] = hostConf[j]
<1>1. i \in Inst
  BY InstancesAreInst
<1>2. UNCHANGED <<mode, cfg, solo>>
  BY DEF StopInstance, StopInspects, StopInspectFault, StopContainer, StopFault,
         RemoveStopped, StartInstance, WriteConf, StartExists, StartHash,
         RemoveContainer, StartRunning, StartContainer, RunContainer, DockerFault,
         InstanceListening, Begin, Stays
<1>3. step' = step \/ \E s : StepTo(p, i, s)
  BY DEF StopInstance, StopInspects, StopInspectFault, StopContainer, StopFault,
         RemoveStopped, StopFailed, AfterStop, StartInstance, WriteConf, StartExists,
         StartHash, RemoveContainer, StartRunning, StartContainer, RunContainer,
         DockerFault, InstanceListening, AfterBoot, Begin
<1>4. booted' = booted \/ booted' = [booted EXCEPT ![p] = @ \union {i}]
  BY DEF StopInstance, StopInspects, StopInspectFault, StopContainer, StopFault,
         RemoveStopped, StartInstance, WriteConf, StartExists, StartHash,
         RemoveContainer, StartRunning, StartContainer, RunContainer, DockerFault,
         InstanceListening, Begin, Boot
<1>5. container' = container \/ \E c : Becomes(i, c)
  BY DEF StopInstance, StopInspects, StopInspectFault, StopContainer, StopFault,
         RemoveStopped, StartInstance, WriteConf, StartExists, StartHash,
         RemoveContainer, StartRunning, StartContainer, RunContainer, DockerFault,
         InstanceListening, Begin, Boot, dockerVars
<1>6. hostConf' = hostConf \/ hostConf' = [hostConf EXCEPT ![i] = MongodConf(p)]
  BY DEF StopInstance, StopInspects, StopInspectFault, StopContainer, StopFault,
         RemoveStopped, StartInstance, WriteConf, StartExists, StartHash,
         RemoveContainer, StartRunning, StartContainer, RunContainer, DockerFault,
         InstanceListening, Begin, dockerVars
<1>7. \A q \in Proc, j \in Inst : q # p \/ j # i => step'[q][j] = step[q][j]
  BY <1>1, <1>3 DEF StepTo, TypeOK
<1>8. \A q \in Proc, j \in Inst : q # p \/ j # i => (j \in booted'[q] <=> j \in booted[q])
  BY <1>4 DEF TypeOK
<1>9. \A j \in Inst \ {i} : container'[j] = container[j] /\ hostConf'[j] = hostConf[j]
  BY <1>1, <1>5, <1>6 DEF Becomes, TypeOK
<1>10. QED
  BY <1>2, <1>7, <1>8, <1>9

LEMMA InstancePast ==
  ASSUME TypeOK, PastInv, NEW p \in Proc, NEW i \in Instances(p),
         StopInstance(p, i) \/ StartInstance(p, i) \/ Begin(p, i)
  PROVE  PastInv'
<1>1. i \in Inst
  BY InstancesAreInst
<1>2. \A s : StepTo(p, i, s) => step'[p][i] = s
  BY <1>1 DEF StepTo, TypeOK
<1>3. booted' = booted \/ step'[p][i] \in {"wait", "up"}
  BY <1>2 DEF StopInstance, StopInspects, StopInspectFault, StopContainer, StopFault,
         RemoveStopped, StartInstance, WriteConf, StartExists, StartHash,
         RemoveContainer, StartRunning, StartContainer, RunContainer, DockerFault,
         InstanceListening, AfterBoot, Begin
<1>4. step' = step \/ step[p][i] \notin {"wait", "up"} \/ step'[p][i] = "up"
  BY <1>2 DEF StopInstance, StopInspects, StopInspectFault, StopContainer, StopFault,
         RemoveStopped, StopFailed, AfterStop, StartInstance, WriteConf, StartExists,
         StartHash, RemoveContainer, StartRunning, StartContainer, RunContainer,
         DockerFault, InstanceListening, AfterBoot, Begin, MayBegin
<1>5. i \in booted'[p] => step'[p][i] \in {"wait", "up"}
  BY <1>1, <1>3, <1>4 DEF PastInv
<1>6. mode[p] # "stop" =>
        step' = step \/ step'[p][i] \notin {"down", "stopFailed"}
  BY <1>2 DEF StopInstance, StopInspects, StopInspectFault, StopContainer, StopFault,
         RemoveStopped, StopFailed, AfterStop, StartInstance, WriteConf, StartExists,
         StartHash, RemoveContainer, StartRunning, StartContainer, RunContainer,
         DockerFault, InstanceListening, AfterBoot, Begin, MayBegin
<1>7. QED
  BY <1>1, <1>5, <1>6, InstanceFrame DEF PastInv

LEMMA NextPast == TypeOK /\ StartInv /\ PastInv /\ [Next]_vars => PastInv'
<1> SUFFICES ASSUME TypeOK, StartInv, PastInv, [Next]_vars PROVE PastInv'
  OBVIOUS
<1>1. CASE UNCHANGED <<step, booted, mode>>
  BY <1>1 DEF PastInv
<1>2. CASE Edit \/ UNCHANGED vars \/ \E i \in Inst : Crash(i)
  BY <1>1, <1>2 DEF Edit, Crash, Stays, vars, histVars
<1>3. ASSUME NEW p \in Proc, Launch(p)
      PROVE  PastInv'
  <2>1. phase[p] = "idle" /\ UNCHANGED <<step, booted>>
    BY <1>3 DEF Launch
  <2>2. \A q \in Proc \ {p} : mode'[q] = mode[q]
    BY <1>3 DEF Launch, TypeOK
  <2>3. QED
    BY <2>1, <2>2 DEF PastInv, StartInv
<1>4. ASSUME NEW p \in Proc, Run(p), ~Launch(p)
      PROVE  PastInv'
  <2>1. CASE \E i \in Instances(p) : StopInstance(p, i) \/ StartInstance(p, i) \/ Begin(p, i)
    BY <2>1, InstancePast
  <2>2. CASE \/ Kill(p) \/ NetworkExists(p) \/ CreateNetwork(p) \/ StatusFails(p)
             \/ InstancesDone(p) \/ InstancesListening(p) \/ RemoveNetwork(p)
    BY <1>1, <2>2 DEF Kill, NetworkExists, CreateNetwork, StatusFails, InstancesDone,
                      InstancesListening, RemoveNetwork, Stays
  <2>3. QED
    BY <1>4, <2>1, <2>2 DEF Run
<1>5. QED
  BY <1>2, <1>3, <1>4 DEF Next

\* A run that is alone after a step has taken it, or nothing has happened to it.
LEMMA StillAlone ==
  ASSUME TypeOK, SoloInv, [Next]_vars, NEW p \in Proc, Alone(p)'
  PROVE  \/ Launch(p)
         \/ Alone(p) /\ Run(p) /\ ~Launch(p) /\ NoFault
         \/ Alone(p) /\ UNCHANGED <<container, hostConf, booted, step, phase, mode, cfg>>
<1>1. CASE Edit \/ UNCHANGED vars
  BY <1>1 DEF Edit, vars, dockerVars, histVars, Alone, Running
<1>2. ASSUME NEW i \in Inst, Crash(i)
      PROVE  FALSE
  BY <1>2 DEF Crash, Stays, Alone, Running, TypeOK
<1>3. ASSUME NEW q \in Proc, Launch(q), q # p
      PROVE  FALSE
  BY <1>3 DEF Launch, GoTo, Alone, Running, TypeOK
<1>4. ASSUME NEW q \in Proc, Run(q), ~Launch(q)
      PROVE  q = p /\ Alone(p) /\ NoFault
  <2>1. Running(q) /\ UNCHANGED <<solo, mode>> /\ (NoFault \/ Fault(q))
    BY <1>4, RunKeeps DEF Running, Resting, Phases
  <2>2. \A r \in Proc \ {q} : phase'[r] = phase[r]
    BY <1>4, RunKeeps DEF GoTo, TypeOK
  <2>3. q = p
    BY <2>1, <2>2 DEF SoloInv, Alone, Running
  <2>4. NoFault
    BY <2>1, <2>3 DEF Fault, Alone, TypeOK
  <2>5. QED
    BY <2>1, <2>3, <2>4 DEF Alone, NoFault
<1>5. QED
  BY <1>1, <1>2, <1>3, <1>4 DEF Next

\* What such a run knows of an instance after a step at it.
LEMMA OwnStep ==
  ASSUME TypeOK, StartInv, PastInv, NEW p \in Proc, Alone(p), Running(p)', NoFault,
         NEW i \in Instances(p), OwnInv(p, i),
         StopInstance(p, i) \/ StartInstance(p, i) \/ Begin(p, i)
  PROVE  OwnInv(p, i)'
<1>1. /\ i \in Inst /\ mode[p] \in {"start", "restart"}
      /\ UNCHANGED <<mode, cfg>> /\ RunConfigFingerprint(p)' = RunConfigFingerprint(p)
  BY InstancesAreInst, InstanceFrame DEF Alone, TypeOK, Modes, RunConfigFingerprint
<1>2. ~Fault(p)
  BY DEF NoFault, Fault, TypeOK
<1>3. /\ \A s : StepTo(p, i, s) => step'[p][i] = s
      /\ \A c : Becomes(i, c) => container'[i] = c
  BY <1>1 DEF StepTo, Becomes, TypeOK
<1>4. step[p][i] \notin {"wait", "up"} => i \notin booted[p]
  BY <1>1 DEF PastInv
<1>5. container[i] = Absent \/ container[i].state \in {"running", "exited"}
  BY <1>1 DEF TypeOK, Containers
<1>6. CASE Begin(p, i)
  BY <1>1, <1>3, <1>4, <1>6 DEF Begin, MayBegin, OwnInv, StartSteps, dockerVars
<1>7. CASE StopInspects(p, i)
  BY <1>1, <1>3, <1>4, <1>7
     DEF StopInspects, AfterStop, OwnInv, StartSteps, dockerVars, Exists, IsRunning
<1>8. CASE StopContainer(p, i)
  <2>1. container[i] \in Containers
    BY <1>1 DEF TypeOK
  <2>2. Exists(i) => [container[i] EXCEPT !.state = "exited"].state = "exited"
    BY <2>1 DEF Exists, Containers, Absent
  <2>3. QED
    BY <1>1, <1>3, <1>4, <1>8, <2>2
       DEF StopContainer, StopFailed, OwnInv, StartSteps, IsRunning
<1>9. CASE RemoveStopped(p, i)
  BY <1>1, <1>2, <1>3, <1>4, <1>9
     DEF RemoveStopped, AfterStop, OwnInv, StartSteps, IsRunning, Absent
<1>10. CASE WriteConf(p, i)
  <2>1. hostConf'[i] = cfg[p].conf
    BY <1>1, <1>10 DEF WriteConf, MongodConf, TypeOK
  <2>2. QED
    BY <1>1, <1>3, <1>4, <1>10, <2>1 DEF WriteConf, OwnInv, StartSteps, IsRunning
<1>11. CASE StartExists(p, i)
  BY <1>1, <1>2, <1>3, <1>4, <1>11
     DEF StartExists, OwnInv, StartSteps, IsRunning, Exists, dockerVars
<1>12. CASE StartHash(p, i)
  BY <1>1, <1>2, <1>3, <1>4, <1>12
     DEF StartHash, ConfigChanged, OwnInv, StartSteps, IsRunning, Exists, dockerVars
<1>13. CASE RemoveContainer(p, i)
  BY <1>1, <1>3, <1>4, <1>13
     DEF RemoveContainer, OwnInv, StartSteps, IsRunning, Exists, Absent
<1>14. CASE StartRunning(p, i)
  BY <1>1, <1>2, <1>3, <1>4, <1>14
     DEF StartRunning, AfterBoot, OwnInv, StartSteps, IsRunning, Exists, dockerVars
<1>15. CASE StartContainer(p, i)
  <2>1. step[p][i] = "start"
    BY <1>15 DEF StartContainer
  <2>2. CASE IsRunning(i)
    BY <1>1, <1>3, <1>4, <1>15, <2>1, <2>2
       DEF StartContainer, AfterBoot, OwnInv, StartSteps, IsRunning, Exists
  <2>3. CASE ~IsRunning(i) /\ MayBoot(container[i].label)
    <3>1. Boot(p, i, container[i].label) /\ AfterBoot(p, i) /\ hostConf' = hostConf
      BY <1>15, <2>1, <2>3 DEF StartContainer, OwnInv
    <3>2. i \in booted'[p]
      BY <1>1, <3>1 DEF Boot, TypeOK
    <3>3. container'[i] = [state |-> "running", label |-> container[i].label,
                           conf |-> hostConf[i]]
      BY <1>3, <3>1 DEF Boot
    <3>4. step'[p][i] \in {"wait", "up"}
      BY <1>3, <3>1 DEF AfterBoot
    <3>5. QED
      BY <1>1, <2>1, <3>2, <3>3, <3>4 DEF OwnInv, StartSteps, IsRunning, Exists
  <2>4. CASE ~IsRunning(i) /\ ~MayBoot(container[i].label)
    BY <1>1, <1>3, <1>4, <1>15, <2>1, <2>4
       DEF StartContainer, OwnInv, StartSteps, IsRunning, Exists
  <2>5. QED
    BY <2>2, <2>3, <2>4
<1>16. CASE RunContainer(p, i)
  <2>1. step[p][i] = "create" /\ ~Exists(i)
    BY <1>16 DEF RunContainer, OwnInv
  <2>2. CASE MayBoot(RunConfigFingerprint(p))
    <3>1. Boot(p, i, RunConfigFingerprint(p)) /\ AfterBoot(p, i) /\ hostConf' = hostConf
      BY <1>16, <2>1, <2>2 DEF RunContainer
    <3>2. i \in booted'[p]
      BY <1>1, <3>1 DEF Boot, TypeOK
    <3>3. container'[i] = [state |-> "running", label |-> RunConfigFingerprint(p),
                           conf |-> hostConf[i]]
      BY <1>3, <3>1 DEF Boot
    <3>4. step'[p][i] \in {"wait", "up"}
      BY <1>3, <3>1 DEF AfterBoot
    <3>5. QED
      BY <1>1, <2>1, <3>2, <3>3, <3>4 DEF OwnInv, StartSteps, IsRunning, Exists
  <2>3. CASE ~MayBoot(RunConfigFingerprint(p))
    BY <1>16, <2>1, <2>3 DEF RunContainer, GoTo, Running, Resting, TypeOK
  <2>4. QED
    BY <2>2, <2>3
<1>17. CASE InstanceListening(p, i)
  BY <1>1, <1>3, <1>17
     DEF InstanceListening, OwnInv, StartSteps, IsRunning, Exists, dockerVars
<1>18. CASE StopInspectFault(p, i) \/ StopFault(p, i) \/ DockerFault(p, i)
  BY <1>2, <1>18 DEF StopInspectFault, StopFault, DockerFault
<1>19. QED
  BY <1>6, <1>7, <1>8, <1>9, <1>10, <1>11, <1>12, <1>13, <1>14, <1>15, <1>16, <1>17, <1>18
     DEF StopInstance, StartInstance

LEMMA NextAlone ==
  TypeOK /\ StartInv /\ SoloInv /\ PastInv /\ AloneInv /\ [Next]_vars => AloneInv'
<1> SUFFICES ASSUME TypeOK, StartInv, SoloInv, PastInv, AloneInv, [Next]_vars,
                    NEW p \in Proc, Alone(p)'
             PROVE  /\ \A i \in Inst : OwnInv(p, i)'
                    /\ phase'[p] = "listen" => \A i \in Instances(p)' : step'[p][i] = "up"
  BY DEF AloneInv
<1>1. CASE Launch(p)
  <2>1. phase[p] = "idle" /\ step' = step /\ booted' = booted
    BY <1>1 DEF Launch
  <2>2. \A i \in Inst : step[p][i] = "todo" /\ i \notin booted[p]
    BY <2>1 DEF StartInv, PastInv
  <2>3. phase'[p] # "listen"
    BY <1>1 DEF Launch, GoTo, FirstPhase, TypeOK
  <2>4. QED
    BY <2>1, <2>2, <2>3 DEF OwnInv, StartSteps
<1>2. CASE Alone(p) /\ UNCHANGED <<container, hostConf, booted, step, phase, mode, cfg>>
  BY <1>2 DEF AloneInv, OwnInv, Exists, IsRunning, RunConfigFingerprint, Instances
<1>3. CASE Alone(p) /\ Run(p) /\ ~Launch(p) /\ NoFault
  <2>1. Running(p)' /\ UNCHANGED <<mode, cfg>>
    BY <1>3, RunKeeps DEF Alone
  <2>2. ~Fault(p)
    BY <1>3 DEF NoFault, Fault, TypeOK
  <2>3. ASSUME NEW i \in Instances(p), StopInstance(p, i) \/ StartInstance(p, i) \/ Begin(p, i)
        PROVE  /\ \A j \in Inst : OwnInv(p, j)'
               /\ phase'[p] # "listen"
    <3>1. OwnInv(p, i)'
      BY <1>3, <2>1, <2>3, OwnStep, InstancesAreInst DEF AloneInv
    <3>2. ASSUME NEW j \in Inst \ {i}
          PROVE  OwnInv(p, j)'
      <4>1. OwnInv(p, j)
        BY <1>3 DEF AloneInv
      <4>2. /\ step'[p][j] = step[p][j] /\ (j \in booted'[p] <=> j \in booted[p])
            /\ container'[j] = container[j] /\ hostConf'[j] = hostConf[j]
        BY <2>3, InstanceFrame
      <4>3. QED
        BY <2>1, <4>1, <4>2 DEF OwnInv, Exists, IsRunning, RunConfigFingerprint
    <3>3. phase[p] = "instances" /\ (phase' = phase \/ GoTo(p, "failed"))
      BY <2>3 DEF StopInstance, StopInspects, StopInspectFault, StopContainer, StopFault,
         RemoveStopped, StopFailed, StartInstance, WriteConf, StartExists,
         StartHash, RemoveContainer, StartRunning, StartContainer, RunContainer,
         DockerFault, InstanceListening, Begin, MayBegin
    <3>4. QED
      BY <3>1, <3>2, <3>3 DEF GoTo, TypeOK
  <2>4. CASE \/ NetworkExists(p) \/ CreateNetwork(p) \/ StatusFails(p)
             \/ InstancesDone(p) \/ InstancesListening(p) \/ RemoveNetwork(p)
    <3>1. UNCHANGED <<container, hostConf, booted, step>>
      BY <2>4 DEF NetworkExists, CreateNetwork, StatusFails, InstancesDone,
                  InstancesListening, RemoveNetwork, dockerVars
    <3>2. \A i \in Inst : OwnInv(p, i)'
      BY <1>3, <2>1, <3>1 DEF AloneInv, OwnInv, Exists, IsRunning, RunConfigFingerprint
    <3>3. phase'[p] = "listen" => InstancesDone(p) /\ mode[p] = "start"
      BY <1>3, <2>4 DEF NetworkExists, CreateNetwork, StatusFails, InstancesDone,
         InstancesListening, RemoveNetwork, GoTo, TypeOK, Alone, Modes
    <3>4. ASSUME phase'[p] = "listen"
          PROVE  \A i \in Instances(p) : step[p][i] = "up"
      BY <3>3, <3>4, InstancesAreInst
         DEF InstancesDone, StartInv, Through, StartSteps, StepEnds
    <3>5. QED
      BY <2>1, <3>1, <3>2, <3>4 DEF Instances
  <2>5. QED
    BY <1>3, <2>2, <2>3, <2>4 DEF Run, Kill
<1>4. QED
  BY <1>1, <1>2, <1>3, StillAlone

\* A start or restart that was alone and met no fault ends with every instance
\* running in a container made for its configuration, and what it brought up itself
\* has read its mongod.conf; a restart has brought up all of them.
THEOREM RunsEndCurrent == Spec => EndsCurrent
<1> DEFINE Inv == TypeOK /\ StartInv /\ SoloInv /\ PastInv /\ AloneInv
           End == \A p \in Proc :
             BecomesDone(p) /\ mode[p] \in {"start", "restart"} /\ solo[p] /\ calm[p] =>
               /\ \A i \in Instances(p) :
                    /\ Current(p, i)'
                    /\ i \in booted[p] => container'[i].conf = cfg[p].conf
               /\ mode[p] = "restart" => booted[p] = Instances(p)
<1>1. Init => Inv
  <2> SUFFICES ASSUME Init PROVE Inv
    OBVIOUS
  <2>1. StartInv /\ PastInv
    BY DEF Init, StartInv, PastInv, Through
  <2>2. SoloInv /\ AloneInv
    BY DEF Init, SoloInv, AloneInv, Alone, Running, Resting
  <2>3. QED
    BY <2>1, <2>2, InitTypes
<1>2. Inv /\ [Next]_vars => Inv'
  BY NextTypes, NextOrders, NextSolo, NextPast, NextAlone
<1>3. Inv /\ [Next]_vars => [End]_vars
  <2> SUFFICES ASSUME Inv, [Next]_vars, NEW p \in Proc, BecomesDone(p),
                      mode[p] \in {"start", "restart"}, solo[p], calm[p]
               PROVE  /\ \A i \in Instances(p) :
                           /\ Current(p, i)'
                           /\ i \in booted[p] => container'[i].conf = cfg[p].conf
                      /\ mode[p] = "restart" => booted[p] = Instances(p)
    OBVIOUS
  <2>1. InstancesDone(p) \/ InstancesListening(p)
    <3>1. PICK q \in Proc : Run(q)
      BY DEF BecomesDone, Next, Edit, Crash, Stays, vars
    <3>2. q = p /\ ~Launch(p)
      <4>1. ~Launch(p)
        BY DEF BecomesDone, Launch, GoTo, FirstPhase, TypeOK
      <4>2. q # p => phase'[p] = phase[p]
        <5>1. CASE Launch(q)
          BY <5>1 DEF Launch, GoTo, TypeOK
        <5>2. CASE ~Launch(q)
          BY <3>1, <5>2, RunKeeps DEF GoTo, TypeOK
        <5>3. QED
          BY <5>1, <5>2
      <4>3. QED
        BY <4>1, <4>2 DEF BecomesDone
    <3>3. ASSUME NEW i \in Instances(p), StopInstance(p, i) \/ StartInstance(p, i) \/ Begin(p, i)
          PROVE  FALSE
      <4>1. phase' = phase \/ GoTo(p, "failed")
        BY <3>3 DEF StopInstance, StopInspects, StopInspectFault, StopContainer, StopFault,
           RemoveStopped, StopFailed, StartInstance, WriteConf, StartExists,
           StartHash, RemoveContainer, StartRunning, StartContainer, RunContainer,
           DockerFault, InstanceListening, Begin
      <4>2. QED
        BY <4>1 DEF BecomesDone, GoTo, TypeOK
    <3>4. ~(Kill(p) \/ NetworkExists(p) \/ CreateNetwork(p) \/ StatusFails(p))
      BY DEF BecomesDone, Kill, NetworkExists, CreateNetwork, StatusFails, GoTo, TypeOK
    <3>5. ~RemoveNetwork(p)
      BY DEF RemoveNetwork, StartInv
    <3>6. QED
      BY <3>1, <3>2, <3>3, <3>4, <3>5 DEF Run
  <2>2. Alone(p) /\ UNCHANGED <<container, cfg, mode>>
    BY <2>1 DEF InstancesDone, InstancesListening, Stays, dockerVars, Alone, Running, Resting
  <2>3. \A i \in Instances(p) : i \in Inst /\ OwnInv(p, i)
    BY <2>2, InstancesAreInst DEF AloneInv
  <2>4. \A i \in Instances(p) : step[p][i] = "up"
    BY <2>1, <2>2, <2>3 DEF InstancesDone, InstancesListening, AloneInv, PastInv, StepEnds
  <2>5. \A i \in Instances(p) : Current(p, i)'
    BY <2>2, <2>3, <2>4 DEF OwnInv, Current, IsRunning, RunConfigFingerprint
  <2>6. mode[p] = "restart" => booted[p] = Instances(p)
    <3>1. booted[p] \subseteq Inst
      BY DEF TypeOK
    <3>2. \A i \in booted[p] : i \in Instances(p)
      BY <3>1 DEF PastInv, StartInv
    <3>3. mode[p] = "restart" => \A i \in Instances(p) : i \in booted[p]
      BY <2>3, <2>4 DEF OwnInv
    <3>4. QED
      BY <3>2, <3>3
  <2>7. QED
    BY <2>2, <2>3, <2>5, <2>6 DEF OwnInv
<1>4. Spec => [][End]_vars
  BY <1>1, <1>2, <1>3, PTL DEF Spec
<1>5. QED
  BY <1>4 DEF EndsCurrent

-----------------------------------------------------------------------------
(* A stop alone                                                            *)

GivenUp == {"down", "stopFailed"}

\* Instances that a stop is done with and that run nevertheless.
Surviving(p) == {i \in Instances(p) : step[p][i] \in GivenUp /\ IsRunning(i)}

\* A stop only stops; while it is alone each instance that it leaves running costs
\* a fault, and what it is about to remove does not run.
StopInv ==
  \A p \in Proc : mode[p] = "stop" =>
    /\ phase[p] # "listen"
    /\ \A i \in Inst : step[p][i] \in {"todo"} \union StopSteps \union GivenUp
    /\ solo[p] /\ Running(p) =>
         /\ Cardinality(Surviving(p)) <= faults
         /\ \A i \in Inst : step[p][i] = "rm" => ~IsRunning(i)
         /\ phase[p] = "removeNetwork" => \A i \in Instances(p) : step[p][i] \in GivenUp

LEMMA SurvivingIsFinite ==
  ASSUME TypeOK, NEW p \in Proc
  PROVE  IsFiniteSet(Surviving(p)) /\ Cardinality(Surviving(p)) \in Nat
<1>1. cfg[p].n \in Nat
  BY InstancesAreInst DEF Config
<1>2. IsFiniteSet(Instances(p))
  BY <1>1, FS_Interval DEF Instances
<1>3. Surviving(p) \subseteq Instances(p)
  BY DEF Surviving
<1>4. QED
  BY <1>2, <1>3, FS_Subset, FS_CardinalityType

\* One step of stop at one instance: either it is a fault, or an instance that it
\* is done with does not run.
LEMMA StopLeaves ==
  ASSUME TypeOK, NEW p \in Proc, NEW i \in Instances(p), mode[p] = "stop",
         StopInstance(p, i), step[p][i] = "rm" => ~IsRunning(i)
  PROVE  /\ phase' = phase /\ phase[p] = "instances"
         /\ step'[p][i] \in StopSteps \union GivenUp
         /\ step'[p][i] = "rm" => ~IsRunning(i)'
         /\ \/ Fault(p)
            \/ NoFault /\ (step'[p][i] \in GivenUp => ~IsRunning(i)')
<1>1. i \in Inst
  BY InstancesAreInst
<1>2. \A t : StepTo(p, i, t) => step'[p][i] = t
  BY <1>1 DEF StepTo, TypeOK
<1>3. \A c : Becomes(i, c) => container'[i] = c
  BY <1>1 DEF Becomes, TypeOK
<1>4. CASE StopInspects(p, i)
  BY <1>2, <1>4 DEF StopInspects, AfterStop, Exists, IsRunning, dockerVars, StopSteps, GivenUp
<1>5. CASE StopInspectFault(p, i)
  BY <1>2, <1>5 DEF StopInspectFault, AfterStop, StopSteps, GivenUp
<1>6. CASE StopContainer(p, i)
  <2>1. Exists(i) => [container[i] EXCEPT !.state = "exited"].state = "exited"
    BY <1>1, ContainerTypes
  <2>2. CASE Exists(i)
    BY <1>2, <1>3, <1>6, <2>1, <2>2 DEF StopContainer, IsRunning, StopSteps, GivenUp
  <2>3. CASE ~Exists(i)
    BY <1>2, <1>6, <2>3 DEF StopContainer, StopFailed, Exists, IsRunning, StopSteps, GivenUp
  <2>4. QED
    BY <2>2, <2>3
<1>7. CASE StopFault(p, i)
  BY <1>2, <1>7 DEF StopFault, StopFailed, StopSteps, GivenUp
<1>8. CASE RemoveStopped(p, i)
  BY <1>2, <1>3, <1>8 DEF RemoveStopped, AfterStop, IsRunning, Absent, StopSteps, GivenUp
<1>9. QED
  BY <1>4, <1>5, <1>6, <1>7, <1>8 DEF StopInstance

\* A run that does not begin keeps what StopInv says of another one, since that one
\* is not alone.
LEMMA StopOfAnother ==
  ASSUME TypeOK, SoloInv, StopInv, NEW q \in Proc, Run(q),
         NEW p \in Proc, p # q, mode'[p] = "stop"
  PROVE  /\ phase'[p] # "listen"
         /\ \A i \in Inst : step'[p][i] \in {"todo"} \union StopSteps \union GivenUp
         /\ ~(solo'[p] /\ Running(p)')
<1>1. CASE Launch(q)
  <2>1. phase'[p] = phase[p] /\ mode'[p] = mode[p] /\ step' = step
    BY <1>1 DEF Launch, GoTo, TypeOK
  <2>2. solo'[p] => ~Running(p)
    BY <1>1 DEF Launch
  <2>3. QED
    BY <2>1, <2>2 DEF StopInv, Running
<1>2. CASE ~Launch(q)
  <2>1. phase'[p] = phase[p] /\ mode' = mode /\ solo' = solo
    BY <1>2, RunKeeps DEF GoTo, TypeOK
  <2>2. Running(q)
    BY <1>2, RunKeeps DEF Running, Resting, Phases
  <2>3. \A i \in Inst : step'[p][i] = step[p][i]
    <3>1. CASE \E j \in Instances(q) : StopInstance(q, j) \/ StartInstance(q, j) \/ Begin(q, j)
      BY <3>1, InstanceFrame
    <3>2. CASE ~\E j \in Instances(q) : StopInstance(q, j) \/ StartInstance(q, j) \/ Begin(q, j)
      BY <1>2, <3>2 DEF Run, Kill, NetworkExists, CreateNetwork, StatusFails, InstancesDone,
                        InstancesListening, RemoveNetwork
    <3>3. QED
      BY <3>1, <3>2
  <2>4. QED
    BY <2>1, <2>2, <2>3 DEF StopInv, SoloInv, Running
<1>3. QED
  BY <1>1, <1>2

\* A step of a stop at one instance.
LEMMA StopStep ==
  ASSUME TypeOK, StopInv, NEW p \in Proc, mode[p] = "stop", solo[p], Running(p),
         NEW i \in Instances(p), StopInstance(p, i)
  PROVE  /\ phase'[p] = "instances"
         /\ Cardinality(Surviving(p)') <= faults'
         /\ \A j \in Inst : step'[p][j] = "rm" => ~IsRunning(j)'
<1>1. i \in Inst
  BY InstancesAreInst
<1>2. /\ Cardinality(Surviving(p)) <= faults
      /\ \A j \in Inst : step[p][j] = "rm" => ~IsRunning(j)
  BY DEF StopInv
<1>3. /\ phase' = phase /\ phase[p] = "instances"
      /\ step'[p][i] = "rm" => ~IsRunning(i)'
      /\ \/ Fault(p)
         \/ NoFault /\ (step'[p][i] \in GivenUp => ~IsRunning(i)')
  BY <1>1, <1>2, StopLeaves
<1>4. /\ cfg' = cfg
      /\ \A j \in Inst \ {i} : step'[p][j] = step[p][j] /\ container'[j] = container[j]
  BY InstanceFrame
<1>5. Surviving(p)' \subseteq Surviving(p) \union {i}
  BY <1>4, InstancesAreInst DEF Surviving, IsRunning, Instances
<1>6. /\ IsFiniteSet(Surviving(p)) /\ Cardinality(Surviving(p)) \in Nat
      /\ faults \in Nat
  BY SurvivingIsFinite DEF TypeOK
<1>7. Cardinality(Surviving(p)') <= faults'
  <2>1. CASE Fault(p)
    <3>1. /\ IsFiniteSet(Surviving(p) \union {i})
          /\ Cardinality(Surviving(p) \union {i}) \in Nat
          /\ Cardinality(Surviving(p) \union {i}) <= Cardinality(Surviving(p)) + 1
      <4>1. /\ IsFiniteSet(Surviving(p) \union {i})
            /\ Cardinality(Surviving(p) \union {i}) =
                 IF i \in Surviving(p) THEN Cardinality(Surviving(p))
                 ELSE Cardinality(Surviving(p)) + 1
        BY <1>6, FS_AddElement
      <4>2. QED
        BY <1>6, <4>1
    <3>2. /\ Cardinality(Surviving(p)') \in Nat
          /\ Cardinality(Surviving(p)') <= Cardinality(Surviving(p) \union {i})
      BY <1>5, <3>1, FS_Subset, FS_CardinalityType
    <3>3. faults' = faults + 1
      BY <2>1 DEF Fault
    <3>4. QED
      BY <1>2, <1>6, <3>1, <3>2, <3>3
  <2>2. CASE NoFault /\ (step'[p][i] \in GivenUp => ~IsRunning(i)')
    <3>1. i \notin Surviving(p)'
      BY <2>2 DEF Surviving
    <3>2. Surviving(p)' \subseteq Surviving(p)
      BY <1>5, <3>1
    <3>3. /\ Cardinality(Surviving(p)') \in Nat
          /\ Cardinality(Surviving(p)') <= Cardinality(Surviving(p))
      BY <1>6, <3>2, FS_Subset, FS_CardinalityType
    <3>4. QED
      BY <1>2, <1>6, <2>2, <3>3 DEF NoFault
  <2>3. QED
    BY <1>3, <2>1, <2>2
<1>8. ASSUME NEW j \in Inst, step'[p][j] = "rm"
      PROVE  ~IsRunning(j)'
  BY <1>2, <1>3, <1>4, <1>8 DEF IsRunning
<1>9. QED
  BY <1>3, <1>7, <1>8

\* Fewer survive, and nothing else of StopInv moves.
LEMMA StopShrinks ==
  ASSUME TypeOK, NEW p \in Proc, Cardinality(Surviving(p)) <= faults,
         Surviving(p)' \subseteq Surviving(p), faults' \in {faults, faults + 1}
  PROVE  Cardinality(Surviving(p)') <= faults'
<1>1. /\ IsFiniteSet(Surviving(p)) /\ Cardinality(Surviving(p)) \in Nat
      /\ faults \in Nat
  BY SurvivingIsFinite DEF TypeOK
<1>2. /\ Cardinality(Surviving(p)') \in Nat
      /\ Cardinality(Surviving(p)') <= Cardinality(Surviving(p))
  BY <1>1, FS_Subset, FS_CardinalityType
<1>3. QED
  BY <1>1, <1>2

\* What a stop does itself.
LEMMA StopOwn ==
  ASSUME TypeOK, StartInv, StopInv, NEW p \in Proc, Run(p), mode'[p] = "stop"
  PROVE  /\ phase'[p] # "listen"
         /\ \A i \in Inst : step'[p][i] \in {"todo"} \union StopSteps \union GivenUp
         /\ solo'[p] /\ Running(p)' =>
              /\ Cardinality(Surviving(p)') <= faults'
              /\ \A i \in Inst : step'[p][i] = "rm" => ~IsRunning(i)'
              /\ phase'[p] = "removeNetwork" =>
                   \A i \in Instances(p)' : step'[p][i] \in GivenUp
<1>1. CASE Launch(p)
  <2>1. /\ step' = step /\ faults' = faults /\ faults \in Nat
        /\ \A i \in Inst : step[p][i] = "todo"
    BY <1>1 DEF Launch, StartInv, TypeOK
  <2>2. phase'[p] \in {"network", "instances"}
    BY <1>1 DEF Launch, GoTo, FirstPhase, TypeOK
  <2>3. TypeOK'
    BY <1>1, LaunchTypes
  <2>4. Instances(p)' \subseteq Inst
    <3>1. cfg'[p] \in Configs /\ Configs \subseteq Config
      BY <2>3, ConfigsAssumption DEF TypeOK
    <3>2. QED
      BY <3>1 DEF Instances, Inst
  <2>5. Surviving(p)' = {}
    BY <2>1, <2>4 DEF Surviving, GivenUp
  <2>6. Cardinality(Surviving(p)') <= faults'
    BY <2>1, <2>5, FS_EmptySet
  <2>7. QED
    BY <2>1, <2>2, <2>6
<1>2. CASE ~Launch(p)
  <2>1. UNCHANGED <<mode, cfg, solo>> /\ Running(p) /\ mode[p] = "stop"
    <3>1. UNCHANGED <<mode, cfg, solo>> /\ phase[p] \in Phases
      BY <1>2, RunKeeps
    <3>2. QED
      BY <3>1 DEF Running, Resting, Phases
  <2>2. /\ phase[p] # "listen"
        /\ \A i \in Inst : step[p][i] \in {"todo"} \union StopSteps \union GivenUp
        /\ solo[p] => /\ Cardinality(Surviving(p)) <= faults
                      /\ \A i \in Inst : step[p][i] = "rm" => ~IsRunning(i)
    BY <2>1 DEF StopInv
  <2>3. CASE \E i \in Instances(p) : StopInstance(p, i)
    <3>1. PICK i \in Instances(p) : StopInstance(p, i)
      BY <2>3
    <3>2. i \in Inst /\ \A j \in Inst \ {i} : step'[p][j] = step[p][j]
      BY <3>1, InstancesAreInst, InstanceFrame
    <3>3. phase'[p] \in {"instances", "failed"} /\ step'[p][i] \in StopSteps \union GivenUp
      <4>1. phase[p] = "instances" /\ step[p][i] \in StopSteps
        BY <3>1 DEF StopInstance, StopInspects, StopInspectFault, StopContainer, StopFault,
                    RemoveStopped, StopSteps
      <4>2. phase' = phase /\ \E t \in StopSteps \union GivenUp : StepTo(p, i, t)
        BY <2>1, <3>1 DEF StopInstance, StopInspects, StopInspectFault, StopContainer,
                    StopFault, RemoveStopped, StopFailed, AfterStop, StopSteps, GivenUp
      <4>3. QED
        BY <3>2, <4>1, <4>2 DEF StepTo, TypeOK
    <3>4. QED
      BY <2>1, <2>2, <3>1, <3>2, <3>3, StopStep
  <2>4. CASE \E i \in Instances(p) : Begin(p, i)
    <3>1. PICK i \in Instances(p) : Begin(p, i)
      BY <2>4
    <3>2. /\ i \in Inst /\ UNCHANGED <<container, faults, phase>> /\ phase[p] = "instances"
          /\ \A j \in Inst : step'[p][j] = IF j = i THEN "stopExists" ELSE step[p][j]
      BY <2>1, <3>1, InstancesAreInst
         DEF Begin, MayBegin, StepTo, TypeOK, NoFault, dockerVars
    <3>3. Surviving(p)' \subseteq Surviving(p)
      BY <2>1, <3>2, InstancesAreInst DEF Surviving, GivenUp, IsRunning, Instances
    <3>4. QED
      BY <2>1, <2>2, <3>2, <3>3, StopShrinks DEF IsRunning, StopSteps
  <2>5. ASSUME NEW i \in Instances(p), StartInstance(p, i)
        PROVE  FALSE
    <3>1. step[p][i] \in StartSteps
      BY <2>5 DEF StartInstance, WriteConf, StartExists, StartHash, RemoveContainer,
                  StartRunning, StartContainer, RunContainer, DockerFault,
                  InstanceListening, StartSteps
    <3>2. QED
      BY <2>2, <3>1, InstancesAreInst DEF StartSteps, StopSteps, GivenUp
  <2>6. CASE \/ Kill(p) \/ NetworkExists(p) \/ CreateNetwork(p) \/ StatusFails(p)
             \/ InstancesDone(p) \/ InstancesListening(p) \/ RemoveNetwork(p)
    <3>1. UNCHANGED <<container, step>> /\ faults' \in {faults, faults + 1}
      BY <2>6 DEF Kill, NetworkExists, CreateNetwork, StatusFails, InstancesDone,
             InstancesListening, RemoveNetwork, dockerVars, Fault, NoFault
    <3>2. Surviving(p)' = Surviving(p) /\ Instances(p)' = Instances(p)
      BY <2>1, <3>1 DEF Surviving, Instances, IsRunning
    <3>3. phase'[p] # "listen"
      BY <2>1, <2>2, <2>6
         DEF Kill, NetworkExists, CreateNetwork, StatusFails, InstancesDone,
             InstancesListening, RemoveNetwork, GoTo, TypeOK
    <3>4. phase'[p] = "removeNetwork" => \A i \in Instances(p) : step[p][i] \in GivenUp
      <4>1. CASE InstancesDone(p)
        BY <2>2, <4>1, InstancesAreInst DEF InstancesDone, StepEnds, StopSteps, GivenUp
      <4>2. CASE ~InstancesDone(p)
        BY <2>6, <4>2
           DEF Kill, NetworkExists, CreateNetwork, StatusFails, InstancesListening,
               RemoveNetwork, GoTo, TypeOK
      <4>3. QED
        BY <4>1, <4>2
    <3>5. \A i \in Inst : IsRunning(i)' <=> IsRunning(i)
      BY <3>1 DEF IsRunning
    <3>6. solo'[p] => Cardinality(Surviving(p)') <= faults'
      BY <2>1, <2>2, <3>1, <3>2, StopShrinks
    <3>7. QED
      BY <2>1, <2>2, <3>1, <3>2, <3>3, <3>4, <3>5, <3>6
  <2>7. QED
    BY <1>2, <2>3, <2>4, <2>5, <2>6 DEF Run
<1>3. QED
  BY <1>1, <1>2

LEMMA NextStop == TypeOK /\ StartInv /\ SoloInv /\ StopInv /\ [Next]_vars => StopInv'
<1> SUFFICES ASSUME TypeOK, StartInv, SoloInv, StopInv, [Next]_vars PROVE StopInv'
  OBVIOUS
<1>1. CASE Edit \/ UNCHANGED vars
  <2>1. UNCHANGED <<container, phase, mode, cfg, step, solo, faults>>
    BY <1>1 DEF Edit, vars, dockerVars, histVars
  <2>2. QED
    BY <2>1 DEF StopInv, Surviving, Instances, Running, IsRunning
<1>2. ASSUME NEW q \in Proc, Run(q)
      PROVE  StopInv'
  <2>1. ASSUME NEW p \in Proc, mode'[p] = "stop"
        PROVE  /\ phase'[p] # "listen"
               /\ \A i \in Inst : step'[p][i] \in {"todo"} \union StopSteps \union GivenUp
               /\ solo'[p] /\ Running(p)' =>
                    /\ Cardinality(Surviving(p)') <= faults'
                    /\ \A i \in Inst : step'[p][i] = "rm" => ~IsRunning(i)'
                    /\ phase'[p] = "removeNetwork" =>
                         \A i \in Instances(p)' : step'[p][i] \in GivenUp
    BY <1>2, <2>1, StopOwn, StopOfAnother
  <2>2. QED
    BY <2>1 DEF StopInv
<1>3. ASSUME NEW c \in Inst, Crash(c)
      PROVE  StopInv'
  <2>1. UNCHANGED <<phase, mode, cfg, step, solo>> /\ faults' = faults + 1
    BY <1>3 DEF Crash, Stays
  <2>2. \A i \in Inst : IsRunning(i)' => IsRunning(i)
    BY <1>3 DEF Crash, Becomes, IsRunning, TypeOK
  <2>3. ASSUME NEW p \in Proc
        PROVE  Surviving(p)' \subseteq Surviving(p)
    BY <2>1, <2>2, InstancesAreInst DEF Surviving, Instances
  <2>4. ASSUME NEW p \in Proc, mode[p] = "stop", solo[p], Running(p)
        PROVE  Cardinality(Surviving(p)') <= faults'
    BY <2>1, <2>3, <2>4, StopShrinks DEF StopInv
  <2>5. QED
    BY <2>1, <2>2, <2>4 DEF StopInv, Running, Instances
<1>4. QED
  BY <1>1, <1>2, <1>3 DEF Next

\* A stop that was alone leaves no more instances running than there were faults,
\* and the network only to containers that run, in whatever order it came to the
\* instances.
THEOREM StopGoesOnToTheEnd == Spec => StopGoesOn
<1> DEFINE Inv == TypeOK /\ StartInv /\ SoloInv /\ StopInv
           End == \A p \in Proc :
             BecomesDone(p) /\ mode[p] = "stop" /\ solo[p] =>
               /\ Cardinality({i \in Instances(p) : IsRunning(i)'}) <= faults'
               /\ cfg[p].net /\ network' => \E i \in Inst : IsRunning(i)'
<1>1. Init => Inv
  <2> SUFFICES ASSUME Init PROVE Inv
    OBVIOUS
  <2>1. StartInv /\ SoloInv
    BY DEF Init, StartInv, Through, SoloInv, Running, Resting
  <2>2. StopInv
    BY DEF Init, StopInv
  <2>3. QED
    BY <2>1, <2>2, InitTypes
<1>2. Inv /\ [Next]_vars => Inv'
  BY NextTypes, NextOrders, NextSolo, NextStop
<1>3. Inv /\ [Next]_vars => [End]_vars
  <2> SUFFICES ASSUME Inv, [Next]_vars, NEW p \in Proc, BecomesDone(p),
                      mode[p] = "stop", solo[p]
               PROVE  /\ Cardinality({i \in Instances(p) : IsRunning(i)'}) <= faults'
                      /\ cfg[p].net /\ network' => \E i \in Inst : IsRunning(i)'
    OBVIOUS
  <2>1. InstancesDone(p) \/ RemoveNetwork(p)
    <3>1. PICK q \in Proc : Run(q)
      BY DEF BecomesDone, Next, Edit, Crash, Stays, vars
    <3>2. q = p /\ ~Launch(p)
      <4>1. ~Launch(p)
        BY DEF BecomesDone, Launch, GoTo, FirstPhase, TypeOK
      <4>2. q # p => phase'[p] = phase[p]
        <5>1. CASE Launch(q)
          BY <5>1 DEF Launch, GoTo, TypeOK
        <5>2. CASE ~Launch(q)
          BY <3>1, <5>2, RunKeeps DEF GoTo, TypeOK
        <5>3. QED
          BY <5>1, <5>2
      <4>3. QED
        BY <4>1, <4>2 DEF BecomesDone
    <3>3. ASSUME NEW i \in Instances(p), StopInstance(p, i) \/ StartInstance(p, i) \/ Begin(p, i)
          PROVE  FALSE
      <4>1. phase' = phase \/ GoTo(p, "failed")
        BY <3>3 DEF StopInstance, StopInspects, StopInspectFault, StopContainer, StopFault,
           RemoveStopped, StopFailed, StartInstance, WriteConf, StartExists,
           StartHash, RemoveContainer, StartRunning, StartContainer, RunContainer,
           DockerFault, InstanceListening, Begin
      <4>2. QED
        BY <4>1 DEF BecomesDone, GoTo, TypeOK
    <3>4. ~(Kill(p) \/ NetworkExists(p) \/ CreateNetwork(p) \/ StatusFails(p))
      BY DEF BecomesDone, Kill, NetworkExists, CreateNetwork, StatusFails, GoTo, TypeOK
    <3>5. ~InstancesListening(p)
      BY DEF InstancesListening, StopInv
    <3>6. QED
      BY <3>1, <3>2, <3>3, <3>4, <3>5 DEF Run
  <2>2. Running(p) /\ container' = container /\ faults' = faults
    BY <2>1 DEF InstancesDone, RemoveNetwork, dockerVars, NoFault, Running, Resting
  <2>3. \A i \in Instances(p) : step[p][i] \in GivenUp
    <3>1. CASE InstancesDone(p)
      BY <3>1, InstancesAreInst DEF InstancesDone, StopInv, StepEnds, StopSteps, GivenUp
    <3>2. CASE RemoveNetwork(p)
      BY <2>2, <3>2 DEF RemoveNetwork, StopInv
    <3>3. QED
      BY <2>1, <3>1, <3>2
  <2>4. Cardinality({i \in Instances(p) : IsRunning(i)'}) <= faults'
    <3>1. {i \in Instances(p) : IsRunning(i)'} = Surviving(p)
      BY <2>2, <2>3 DEF Surviving, IsRunning
    <3>2. QED
      BY <2>2, <3>1 DEF StopInv
  <2>5. cfg[p].net /\ network' => \E i \in Inst : IsRunning(i)'
    <3>1. CASE InstancesDone(p)
      BY <3>1 DEF InstancesDone, BecomesDone, GoTo, TypeOK
    <3>2. CASE RemoveNetwork(p)
      BY <2>2, <3>2 DEF RemoveNetwork, IsRunning
    <3>3. QED
      BY <2>1, <3>1, <3>2
  <2>6. QED
    BY <2>4, <2>5
<1>4. Spec => [][End]_vars
  BY <1>1, <1>2, <1>3, PTL DEF Spec
<1>5. QED
  BY <1>4 DEF StopGoesOn

=============================================================================
