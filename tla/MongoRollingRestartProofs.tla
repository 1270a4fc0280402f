--------------------- MODULE MongoRollingRestartProofs ---------------------
(***************************************************************************)
(* Theorems about MongoRollingRestart, for every number of instances and   *)
(* every bound.                                                            *)
(***************************************************************************)
EXTENDS MongoRollingRestart, FiniteSetTheorems, TLAPS

-----------------------------------------------------------------------------
(***************************************************************************)
(* Type correctness.  First what the shared pieces of the actions keep.    *)
(***************************************************************************)

LEMMA NothingSeenType == NothingSeen \in [Instances -> Reports \union {Unseen}]
BY DEF NothingSeen

LEMMA ZeroAttempts == 0 \in 0..Retries
BY RetriesAssumption

LEMMA InitType == Init => TypeOK
<1> SUFFICES ASSUME Init PROVE TypeOK
  OBVIOUS
<1>1. EnvTypeOK
  BY DEF Init, EnvTypeOK, Roles
<1>2. CliTypeOK
  BY NothingSeenType, ZeroAttempts DEF Init, CliTypeOK, Steps, Phases
<1>3. HistTypeOK /\ force \in BOOLEAN
  BY DEF Init, HistTypeOK
<1>4. BoundTypeOK
  BY BoundsAssumption DEF Init, BoundTypeOK
<1>5. pc \notin RestartSteps
  BY DEF Init, RestartSteps
<1> QED BY <1>1, <1>2, <1>3, <1>4, <1>5 DEF TypeOK

LEMMA EnvKept == ASSUME EnvTypeOK, UNCHANGED envVars PROVE EnvTypeOK'
BY DEF EnvTypeOK, envVars

LEMMA CliKept == ASSUME CliTypeOK, UNCHANGED cliVars PROVE CliTypeOK'
BY DEF CliTypeOK, cliVars

LEMMA HistKept == ASSUME HistTypeOK, UNCHANGED histVars PROVE HistTypeOK'
BY DEF HistTypeOK, histVars

LEMMA BoundKept == ASSUME BoundTypeOK, UNCHANGED boundVars PROVE BoundTypeOK'
BY DEF BoundTypeOK, boundVars

LEMMA EndType ==
  ASSUME NEW p \in Resting, End(p)
  PROVE  CliTypeOK' /\ pc' \notin RestartSteps
BY NothingSeenType, ZeroAttempts
DEF End, CliTypeOK, Resting, Phases, RestartSteps

LEMMA GoToType ==
  ASSUME NEW p \in RestartSteps, CliTypeOK, GoTo(p)
  PROVE  CliTypeOK' /\ target' = target
BY DEF GoTo, CliTypeOK, Steps

LEMMA BeginPassType ==
  ASSUME NEW ph \in Phases, CliTypeOK, HistTypeOK, BeginPass(ph),
         UNCHANGED <<target, attempts, clientOpen, served, cliDown>>,
         restarted' \in SUBSET Instances, booted' \in SUBSET Instances
  PROVE  CliTypeOK' /\ HistTypeOK' /\ pc' \notin RestartSteps
BY NothingSeenType DEF BeginPass, CliTypeOK, HistTypeOK, Steps, RestartSteps

LEMMA TargetDownType ==
  ASSUME NEW c \in {"absent", "stopped"}, target \in Instances,
         EnvTypeOK, HistTypeOK, TargetDown(c)
  PROVE  EnvTypeOK' /\ HistTypeOK'
BY DEF TargetDown, EnvTypeOK, HistTypeOK, Roles

LEMMA TargetBootsType ==
  ASSUME target \in Instances, EnvTypeOK, HistTypeOK, TargetBoots,
         current' \in SUBSET Instances
  PROVE  EnvTypeOK' /\ HistTypeOK'
BY DEF TargetBoots, EnvTypeOK, HistTypeOK, Roles

LEMMA ForceRemoveType ==
  ASSUME target \in Instances, EnvTypeOK, HistTypeOK, ForceRemove
  PROVE  EnvTypeOK' /\ HistTypeOK'
<1>1. CASE container[target] = "running"
  BY <1>1, TargetDownType DEF ForceRemove
<1>2. CASE container[target] # "running"
  BY <1>2 DEF ForceRemove, EnvTypeOK, HistTypeOK, histVars
<1> QED BY <1>1, <1>2

LEMMA FaultType ==
  ASSUME BoundTypeOK, UseFault PROVE BoundTypeOK'
BY BoundsAssumption DEF BoundTypeOK, UseFault

-----------------------------------------------------------------------------
(***************************************************************************)
(* One lemma per part of the next-state relation.                          *)
(***************************************************************************)

LEMMA LookType == TypeOK /\ Look => TypeOK'
<1> SUFFICES ASSUME TypeOK, Look PROVE TypeOK'
  OBVIOUS
<1> USE DEF TypeOK
<1>1. ASSUME NEW i \in Instances, ReadMember(i) PROVE TypeOK'
  BY <1>1, EnvKept, HistKept, BoundKept
  DEF ReadMember, CliTypeOK, Reachable, Reports, RestartSteps
<1>2. ASSUME NEW i \in Instances, ReadFails(i) PROVE TypeOK'
  BY <1>2, EnvKept, HistKept, BoundKept, EndType DEF ReadFails, Fail, Resting
<1>3. ASSUME NEW i \in Instances, ChooseNonPrimary(i) PROVE TypeOK'
  BY <1>3, EnvKept, HistKept, BoundKept, NothingSeenType
  DEF ChooseNonPrimary, CliTypeOK, Steps, RestartSteps
<1>4. ASSUME NEW i \in Instances, ChoosePrimary(i) PROVE TypeOK'
  BY <1>4, EnvKept, HistKept, BoundKept, NothingSeenType
  DEF ChoosePrimary, CliTypeOK, Steps, RestartSteps
<1>5. ASSUME NEW i \in Instances, PrimaryAlreadyRestarted(i) PROVE TypeOK'
  BY <1>5, EnvKept, BoundKept, BeginPassType
  DEF PrimaryAlreadyRestarted, Phases, CliTypeOK, HistTypeOK
<1>6. CASE NonPrimariesDone
  BY <1>6, EnvKept, BoundKept, BeginPassType
  DEF NonPrimariesDone, Phases, CliTypeOK, HistTypeOK
<1>7. CASE NoPrimaryFound
  BY <1>7, EnvKept, HistKept, BoundKept, EndType DEF NoPrimaryFound, Fail, Resting
<1>8. CASE Finish
  BY <1>8, EnvKept, HistKept, BoundKept, EndType DEF Finish, Resting
<1> QED BY <1>1, <1>2, <1>3, <1>4, <1>5, <1>6, <1>7, <1>8 DEF Look

LEMMA HandOverType == TypeOK /\ HandOver => TypeOK'
<1> SUFFICES ASSUME TypeOK, HandOver PROVE TypeOK'
  OBVIOUS
<1> USE DEF TypeOK
<1>1. CASE Connect
  BY <1>1, EnvKept, HistKept, BoundKept
  DEF Connect, CliTypeOK, Steps, RestartSteps
<1>2. CASE ConnectFails
  BY <1>2, EnvKept, HistKept, BoundKept, EndType DEF ConnectFails, Fail, Resting
<1>3. ASSUME NEW p \in Instances, StepDown(p) PROVE TypeOK'
  <2>1. EnvTypeOK'
    BY <1>3 DEF StepDown, EnvTypeOK, Roles
  <2>2. CliTypeOK' /\ target' \in Instances
    BY <1>3, ZeroAttempts DEF StepDown, CliTypeOK, Steps, RestartSteps
  <2> QED BY <1>3, <2>1, <2>2, HistKept, BoundKept DEF StepDown
<1>4. CASE StepDownAttemptFails
  <2>1. CASE attempts = Retries
    BY <1>4, <2>1, EnvKept, HistKept, BoundKept, EndType
    DEF StepDownAttemptFails, Fail, Resting
  <2>2. CASE attempts # Retries
    <3>1. attempts + 1 \in 0..Retries
      BY <2>2, RetriesAssumption DEF CliTypeOK
    <3>2. CliTypeOK' /\ target' = target /\ pc' = pc
      BY <1>4, <2>2, <3>1 DEF StepDownAttemptFails, CliTypeOK
    <3> QED BY <1>4, <3>2, EnvKept, HistKept, BoundKept
            DEF StepDownAttemptFails, RestartSteps
  <2> QED BY <2>1, <2>2
<1>5. CASE NewPrimaryFound
  BY <1>5, EnvKept, HistKept, BoundKept, GoToType DEF NewPrimaryFound, RestartSteps
<1>6. CASE NewPrimaryTimeout
  BY <1>6, EnvKept, HistKept, BoundKept, EndType
  DEF NewPrimaryTimeout, Fail, Resting
<1> QED BY <1>1, <1>2, <1>3, <1>4, <1>5, <1>6 DEF HandOver

LEMMA RestartType == TypeOK /\ Restart => TypeOK'
<1> SUFFICES ASSUME TypeOK, Restart PROVE TypeOK'
  OBVIOUS
<1> USE DEF TypeOK
<1>1. CASE StopFindsRunning
  BY <1>1, EnvKept, HistKept, BoundKept, GoToType
  DEF StopFindsRunning, RestartSteps
<1>2. CASE StopSkips
  BY <1>2, EnvKept, HistKept, BoundKept, GoToType
  DEF StopSkips, RestartSteps
<1>3. CASE StartFindsNothing
  BY <1>3, EnvKept, HistKept, BoundKept, GoToType
  DEF StartFindsNothing, RestartSteps
<1>4. CASE StartFindsRunning
  BY <1>4, EnvKept, HistKept, BoundKept, GoToType
  DEF StartFindsRunning, RestartSteps
<1>5. CASE Listening
  BY <1>5, EnvKept, HistKept, BoundKept, GoToType
  DEF Listening, RestartSteps
<1>6. CASE StateReached
  BY <1>6, EnvKept, HistKept, BoundKept, GoToType
  DEF StateReached, RestartSteps
<1>7. CASE CreateConflicts
  BY <1>7, EnvKept, HistKept, BoundKept, EndType DEF CreateConflicts, Fail, Resting
<1>8. CASE NotListening
  BY <1>8, EnvKept, HistKept, BoundKept, EndType DEF NotListening, Fail, Resting
<1>9. CASE StateTimeout
  BY <1>9, EnvKept, HistKept, BoundKept, EndType DEF StateTimeout, Fail, Resting
<1>10. CASE HealthFails
  BY <1>10, EnvKept, HistKept, BoundKept, EndType DEF HealthFails, Fail, Resting
<1>11. CASE Kill
  BY <1>11, TargetDownType, BoundKept, GoToType DEF Kill, RestartSteps
<1>12. CASE KillFindsStopped
  <2>1. CASE force
    BY <1>12, <2>1, EnvKept, HistKept, BoundKept, EndType
    DEF KillFindsStopped, Fail, Resting
  <2>2. CASE ~force
    BY <1>12, <2>2, EnvKept, HistKept, BoundKept, GoToType
    DEF KillFindsStopped, RestartSteps
  <2> QED BY <2>1, <2>2
<1>13. CASE RemoveStopped
  <2>1. EnvTypeOK'
    BY <1>13 DEF RemoveStopped, EnvTypeOK
  <2> QED BY <1>13, <2>1, HistKept, BoundKept, GoToType DEF RemoveStopped, RestartSteps
<1>14. CASE StartFindsOutdated
  BY <1>14, ForceRemoveType, BoundKept, GoToType
  DEF StartFindsOutdated, RestartSteps
<1>15. CASE StartFindsStopped
  BY <1>15, TargetBootsType, BoundKept, GoToType
  DEF StartFindsStopped, RestartSteps, EnvTypeOK
<1>16. CASE Create
  BY <1>16, TargetBootsType, BoundKept, GoToType
  DEF Create, RestartSteps, EnvTypeOK
<1>17. CASE MarkRestarted
  <2>1. target \in Instances
    BY <1>17 DEF MarkRestarted, RestartSteps
  <2> QED BY <1>17, <2>1, EnvKept, BoundKept, BeginPassType
          DEF MarkRestarted, Phases, CliTypeOK, HistTypeOK
<1> QED BY <1>1, <1>2, <1>3, <1>4, <1>5, <1>6, <1>7, <1>8, <1>9,
          <1>10, <1>11, <1>12, <1>13, <1>14, <1>15, <1>16, <1>17 DEF Restart

LEMMA DockerFaultType == TypeOK /\ DockerFault => TypeOK'
<1> SUFFICES ASSUME TypeOK, DockerFault PROVE TypeOK'
  OBVIOUS
<1> USE DEF TypeOK
<1>1. CASE StopInspectFault
  BY <1>1, EnvKept, HistKept, FaultType, GoToType DEF StopInspectFault, RestartSteps
<1>2. CASE CommandFault
  BY <1>2, EnvKept, HistKept, FaultType, EndType DEF CommandFault, Fail, Resting
<1>3. CASE RemoveFault
  BY <1>3, EnvKept, HistKept, FaultType, GoToType DEF RemoveFault, RestartSteps
<1>4. CASE StartExistsFault
  BY <1>4, EnvKept, HistKept, FaultType, GoToType DEF StartExistsFault, RestartSteps
<1>5. CASE StartHashFault
  BY <1>5, ForceRemoveType, FaultType, GoToType DEF StartHashFault, RestartSteps
<1>6. CASE CreateFault
  <2>1. EnvTypeOK'
    BY <1>6 DEF CreateFault, EnvTypeOK, RestartSteps
  <2> QED BY <1>6, <2>1, HistKept, FaultType, EndType DEF CreateFault, Fail, Resting
<1> QED BY <1>1, <1>2, <1>3, <1>4, <1>5, <1>6 DEF DockerFault

LEMMA ReplicaSetType == TypeOK /\ ReplicaSet => TypeOK'
<1> SUFFICES ASSUME TypeOK, ReplicaSet PROVE TypeOK'
  OBVIOUS
<1> USE DEF TypeOK, RoleBecomes
<1>1. ASSUME NEW i \in Instances, Boot(i) \/ LoseMajority(i) PROVE TypeOK'
  <2>1. EnvTypeOK' /\ UNCHANGED cliVars /\ UNCHANGED histVars /\ UNCHANGED boundVars
    BY <1>1 DEF Boot, LoseMajority, EnvTypeOK, Roles
  <2> QED BY <1>1, <2>1, CliKept, HistKept, BoundKept DEF Boot, LoseMajority, cliVars
<1>2. ASSUME NEW i \in Instances, CatchUp(i) \/ Elect(i) PROVE TypeOK'
  <2>1. EnvTypeOK' /\ HistTypeOK' /\ UNCHANGED cliVars /\ UNCHANGED boundVars
    BY <1>2 DEF CatchUp, Elect, EnvTypeOK, HistTypeOK, Roles
  <2> QED BY <1>2, <2>1, CliKept, BoundKept DEF CatchUp, Elect, cliVars
<1>3. ASSUME NEW i \in Instances, Thaw(i) PROVE TypeOK'
  <2>1. EnvTypeOK'
    BY <1>3 DEF Thaw, EnvTypeOK
  <2> QED BY <1>3, <2>1, CliKept, HistKept, BoundKept DEF Thaw, cliVars
<1>4. ASSUME NEW i \in Instances, Failover(i) PROVE TypeOK'
  <2>1. EnvTypeOK'
    BY <1>4 DEF Failover, EnvTypeOK, Roles
  <2>2. BoundTypeOK'
    BY <1>4, BoundsAssumption DEF Failover, BoundTypeOK
  <2> QED BY <1>4, <2>1, <2>2, CliKept, HistKept DEF Failover, cliVars
<1>5. ASSUME NEW i \in Instances, Crash(i) PROVE TypeOK'
  <2>1. EnvTypeOK'
    BY <1>5 DEF Crash, EnvTypeOK, Roles
  <2>2. BoundTypeOK'
    BY <1>5, BoundsAssumption DEF Crash, BoundTypeOK
  <2> QED BY <1>5, <2>1, <2>2, CliKept, HistKept DEF Crash, cliVars
<1> QED BY <1>1, <1>2, <1>3, <1>4, <1>5 DEF ReplicaSet

LEMMA OperatorType == TypeOK /\ Operator => TypeOK'
<1> SUFFICES ASSUME TypeOK, Operator PROVE TypeOK'
  OBVIOUS
<1> USE DEF TypeOK
<1>1. CASE Interrupt
  BY <1>1, EnvKept, HistKept, BoundKept, EndType DEF Interrupt, Fail, Resting
<1>2. CASE Rerun
  <2>1. BoundTypeOK'
    BY <1>2, BoundsAssumption DEF Rerun, BoundTypeOK
  <2> QED BY <1>2, <2>1, EnvKept, BeginPassType DEF Rerun, Phases, CliTypeOK
<1> QED BY <1>1, <1>2 DEF Operator

\* Every reachable state is well typed; the command has a target whenever it
\* works on one.
THEOREM TypeCorrect == Spec => []TypeOK
<1>1. TypeOK /\ UNCHANGED vars => TypeOK'
  BY EnvKept, CliKept, HistKept, BoundKept DEF vars, TypeOK, cliVars
<1>2. TypeOK /\ [Next]_vars => TypeOK'
  BY <1>1, LookType, HandOverType, RestartType, DockerFaultType, ReplicaSetType,
     OperatorType
  DEF Next, Command
<1> QED BY <1>2, InitType, PTL DEF Spec

-----------------------------------------------------------------------------
(***************************************************************************)
(* At most one member is down, and each is renewed once: the inductive     *)
(* invariant.  AtMostOneDown alone is not inductive: that Kill finds nobody *)
(* down follows from the status pass before it, which a stopped member     *)
(* cannot answer.                                                          *)
(***************************************************************************)

\* What the command stopped is stopped: it answers nothing, until the command
\* starts it.
DownIsStopped ==
  \A i \in cliDown : role[i] = "DOWN" /\ container[i] # "running"

BeforeDown == {"connect", "stepdown", "await", "stop", "kill"}
WhileDown == {"remove", "start", "create"}
AfterDown == {"listen", "state", "health"}

\* Where the command is bounds what it has down: during a pass only members
\* that have not answered, in a restart only the target, and not before the
\* kill nor after the start.
DownPlace ==
  /\ AtMostOneDown
  /\ pc = "scan" => cliDown \subseteq unread
  /\ pc \in BeforeDown \union AfterDown => cliDown = {}
  /\ pc \in WhileDown => cliDown \subseteq {target}

\* The renewed members are the restarted ones and, after its start, the target.
RenewedPlace ==
  /\ pc \in {"scan"} \union BeforeDown \union WhileDown => booted \subseteq restarted
  /\ pc \in BeforeDown \union WhileDown => target \notin restarted
  /\ pc \in AfterDown => booted \subseteq restarted \union {target}
  /\ pc \in Resting => restarted = {}

PlanInv == DownIsStopped /\ DownPlace /\ RenewedPlace

\* Inv with the plan's steps: what each part of the next-state relation does.
PlanStep == Plan!PlanNext \/ UNCHANGED <<cliDown, booted>>

LEMMA InitPlanInv == Init => PlanInv /\ Plan!PlanInit
BY DEF Init, PlanInv, DownIsStopped, DownPlace, RenewedPlace, AtMostOneDown,
       BeforeDown, WhileDown, AfterDown, Resting, Plan!PlanInit

\* A failing command leaves one member down at most, and renews nobody.
LEMMA FailKeeps ==
  ASSUME PlanInv, NEW p \in Resting, End(p), UNCHANGED <<container, role, histVars>>
  PROVE  PlanInv' /\ UNCHANGED <<cliDown, booted>>
BY DEF PlanInv, DownIsStopped, DownPlace, RenewedPlace, AtMostOneDown, End,
       BeforeDown, WhileDown, AfterDown, Resting, histVars

\* A status pass begins with nobody down but members that have yet to answer.
LEMMA PassKeeps ==
  ASSUME TypeOK, PlanInv, NEW ph, BeginPass(ph),
         UNCHANGED <<container, role, booted, cliDown>>, booted \subseteq restarted'
  PROVE  PlanInv' /\ PlanStep
BY DEF PlanInv, DownIsStopped, DownPlace, RenewedPlace, AtMostOneDown, BeginPass,
       BeforeDown, WhileDown, AfterDown, Resting, PlanStep, TypeOK, HistTypeOK

LEMMA LookPlan == TypeOK /\ PlanInv /\ Look => PlanInv' /\ PlanStep
<1> SUFFICES ASSUME TypeOK, PlanInv, Look PROVE PlanInv' /\ PlanStep
  OBVIOUS
<1> USE DEF PlanStep
<1>1. ASSUME NEW i \in Instances, ReadMember(i) PROVE PlanInv' /\ PlanStep
  BY <1>1 DEF ReadMember, PlanInv, DownIsStopped, DownPlace, RenewedPlace,
              AtMostOneDown, BeforeDown, WhileDown, AfterDown, Resting, Reachable,
              Reports, envVars, histVars
<1>2. ASSUME NEW i \in Instances, ReadFails(i) PROVE PlanInv' /\ PlanStep
  BY <1>2, FailKeeps DEF ReadFails, Fail, Resting, envVars
<1>3. ASSUME NEW i \in Instances, ChooseNonPrimary(i) PROVE PlanInv' /\ PlanStep
  BY <1>3 DEF ChooseNonPrimary, PassComplete, NonPrimaryToRestart, IsFirst, PlanInv,
              DownIsStopped, DownPlace, RenewedPlace, AtMostOneDown, BeforeDown,
              WhileDown, AfterDown, Resting, envVars, histVars
<1>4. ASSUME NEW i \in Instances, ChoosePrimary(i) PROVE PlanInv' /\ PlanStep
  BY <1>4 DEF ChoosePrimary, PassComplete, PlanInv, DownIsStopped, DownPlace,
              RenewedPlace, AtMostOneDown, BeforeDown, WhileDown, AfterDown, Resting,
              envVars, histVars
<1>5. ASSUME NEW i \in Instances, PrimaryAlreadyRestarted(i)
      PROVE  PlanInv' /\ PlanStep
  BY <1>5, PassKeeps
  DEF PrimaryAlreadyRestarted, PassComplete, PlanInv, RenewedPlace, envVars
<1>6. CASE NonPrimariesDone
  BY <1>6, PassKeeps DEF NonPrimariesDone, PassComplete, PlanInv, RenewedPlace, envVars
<1>7. CASE NoPrimaryFound
  BY <1>7, FailKeeps DEF NoPrimaryFound, Fail, Resting, envVars
<1>8. CASE Finish
  BY <1>8, FailKeeps DEF Finish, Resting, envVars
<1> QED BY <1>1, <1>2, <1>3, <1>4, <1>5, <1>6, <1>7, <1>8 DEF Look

LEMMA HandOverPlan == TypeOK /\ PlanInv /\ HandOver => PlanInv' /\ PlanStep
<1> SUFFICES ASSUME TypeOK, PlanInv, HandOver PROVE PlanInv' /\ PlanStep
  OBVIOUS
<1> USE DEF PlanStep
<1>1. CASE Connect
  BY <1>1 DEF Connect, PlanInv, DownIsStopped, DownPlace, RenewedPlace, AtMostOneDown,
              BeforeDown, WhileDown, AfterDown, Resting, envVars, histVars
<1>2. CASE ConnectFails
  BY <1>2, FailKeeps DEF ConnectFails, Fail, Resting, envVars
<1>3. ASSUME NEW p \in Instances, StepDown(p) PROVE PlanInv' /\ PlanStep
  BY <1>3 DEF StepDown, PlanInv, DownIsStopped, DownPlace, RenewedPlace,
              AtMostOneDown, BeforeDown, WhileDown, AfterDown, Resting, histVars,
              TypeOK, EnvTypeOK
<1>4. CASE StepDownAttemptFails
  <2>1. CASE attempts = Retries
    BY <1>4, <2>1, FailKeeps DEF StepDownAttemptFails, Fail, Resting, envVars
  <2>2. CASE attempts # Retries
    BY <1>4, <2>2
    DEF StepDownAttemptFails, PlanInv, DownIsStopped, DownPlace, RenewedPlace,
        AtMostOneDown, envVars, histVars
  <2> QED BY <2>1, <2>2
<1>5. CASE NewPrimaryFound
  BY <1>5 DEF NewPrimaryFound, GoTo, PlanInv, DownIsStopped, DownPlace, RenewedPlace,
              AtMostOneDown, BeforeDown, WhileDown, AfterDown, Resting, envVars,
              histVars
<1>6. CASE NewPrimaryTimeout
  BY <1>6, FailKeeps DEF NewPrimaryTimeout, Fail, Resting, envVars
<1> QED BY <1>1, <1>2, <1>3, <1>4, <1>5, <1>6 DEF HandOver

\* Taking the target down is the plan's TakeDown.
LEMMA TargetDownPlan ==
  ASSUME TypeOK, PlanInv, NEW c \in {"absent", "stopped"}, target \in Instances,
         container[target] = "running", pc \in BeforeDown \union WhileDown,
         TargetDown(c), NEW p \in WhileDown, GoTo(p)
  PROVE  PlanInv' /\ PlanStep
<1>1. cliDown = {} /\ cliDown' = {target}
  BY DEF PlanInv, DownPlace, DownIsStopped, TargetDown, WhileDown, BeforeDown
<1>2. booted \subseteq restarted /\ target \notin restarted
  BY DEF PlanInv, RenewedPlace
<1>3. PlanInv'
  BY <1>1, <1>2
  DEF PlanInv, DownIsStopped, DownPlace, RenewedPlace, AtMostOneDown, TargetDown,
      GoTo, BeforeDown, WhileDown, AfterDown, Resting, TypeOK, EnvTypeOK
<1>4. Plan!TakeDown(target)
  BY <1>1, <1>2 DEF Plan!TakeDown, TargetDown
<1> QED BY <1>3, <1>4 DEF PlanStep, Plan!PlanNext

\* Giving the target a new mongod is the plan's Renew.
LEMMA TargetBootsPlan ==
  ASSUME TypeOK, PlanInv, target \in Instances, pc \in WhileDown,
         TargetBoots, GoTo("listen")
  PROVE  PlanInv' /\ PlanStep
<1>1. cliDown \subseteq {target} /\ cliDown' = {}
  BY DEF PlanInv, DownPlace, TargetBoots, WhileDown
<1>2. booted \subseteq restarted /\ target \notin restarted
  BY DEF PlanInv, RenewedPlace
<1>3. PlanInv'
  BY <1>1, <1>2
  DEF PlanInv, DownIsStopped, DownPlace, RenewedPlace, AtMostOneDown, TargetBoots,
      GoTo, BeforeDown, WhileDown, AfterDown, Resting
<1>4. Plan!Renew(target)
  BY <1>1, <1>2 DEF Plan!Renew, TargetBoots
<1> QED BY <1>3, <1>4 DEF PlanStep, Plan!PlanNext

LEMMA ForceRemovePlan ==
  ASSUME TypeOK, PlanInv, target \in Instances, pc = "start",
         ForceRemove, GoTo("create")
  PROVE  PlanInv' /\ PlanStep
<1>1. CASE container[target] = "running"
  BY <1>1, TargetDownPlan DEF ForceRemove, WhileDown
<1>2. CASE container[target] # "running"
  <2>1. UNCHANGED <<role, histVars>> /\ \A i \in Instances : container'[i] \in {container[i], "absent"}
    BY <1>2 DEF ForceRemove, TypeOK, EnvTypeOK
  <2>2. UNCHANGED <<cliDown, booted>> /\ cliDown \subseteq Instances
    BY <2>1 DEF histVars, TypeOK, HistTypeOK
  <2> QED BY <2>1, <2>2
          DEF PlanInv, DownIsStopped, DownPlace, RenewedPlace, AtMostOneDown, GoTo,
              BeforeDown, WhileDown, AfterDown, Resting, PlanStep
<1> QED BY <1>1, <1>2

\* A step of the restart that touches neither containers nor mongods.
LEMMA GoToPlan ==
  ASSUME PlanInv, NEW p \in RestartSteps, GoTo(p), UNCHANGED <<container, role, histVars>>,
         \/ pc \in BeforeDown /\ p \in BeforeDown \union WhileDown
         \/ pc \in WhileDown /\ p \in WhileDown
         \/ pc \in WhileDown /\ p \in AfterDown /\ cliDown = {}
         \/ pc \in AfterDown /\ p \in AfterDown
  PROVE  PlanInv' /\ PlanStep
BY DEF PlanInv, DownIsStopped, DownPlace, RenewedPlace, AtMostOneDown, GoTo,
       BeforeDown, WhileDown, AfterDown, Resting, histVars, PlanStep

LEMMA RestartPlan == TypeOK /\ PlanInv /\ Restart => PlanInv' /\ PlanStep
<1> SUFFICES ASSUME TypeOK, PlanInv, Restart PROVE PlanInv' /\ PlanStep
  OBVIOUS
<1> USE DEF envVars
<1>1. CASE StopFindsRunning
  BY <1>1, GoToPlan DEF StopFindsRunning, RestartSteps, BeforeDown, WhileDown, AfterDown
<1>2. CASE StopSkips
  BY <1>2, GoToPlan DEF StopSkips, RestartSteps, BeforeDown, WhileDown, AfterDown
<1>3. CASE StartFindsNothing
  BY <1>3, GoToPlan DEF StartFindsNothing, RestartSteps, BeforeDown, WhileDown, AfterDown
<1>4. CASE Listening
  BY <1>4, GoToPlan DEF Listening, RestartSteps, BeforeDown, WhileDown, AfterDown
<1>5. CASE StateReached
  BY <1>5, GoToPlan DEF StateReached, RestartSteps, BeforeDown, WhileDown, AfterDown
<1>6. CASE CreateConflicts
  BY <1>6, FailKeeps DEF CreateConflicts, Fail, Resting, PlanStep
<1>7. CASE NotListening
  BY <1>7, FailKeeps DEF NotListening, Fail, Resting, PlanStep
<1>8. CASE StateTimeout
  BY <1>8, FailKeeps DEF StateTimeout, Fail, Resting, PlanStep
<1>9. CASE HealthFails
  BY <1>9, FailKeeps DEF HealthFails, Fail, Resting, PlanStep
<1>10. CASE Kill
  BY <1>10, TargetDownPlan DEF Kill, TypeOK, RestartSteps, BeforeDown, WhileDown
<1>11. CASE KillFindsStopped
  <2>1. CASE force
    BY <1>11, <2>1, FailKeeps DEF KillFindsStopped, Fail, Resting, PlanStep
  <2>2. CASE ~force
    BY <1>11, <2>2, GoToPlan DEF KillFindsStopped, RestartSteps, BeforeDown, WhileDown
  <2> QED BY <2>1, <2>2
<1>12. CASE RemoveStopped
  BY <1>12 DEF RemoveStopped, GoTo, PlanInv, DownIsStopped, DownPlace, RenewedPlace,
           AtMostOneDown, BeforeDown, WhileDown, AfterDown, Resting, histVars, PlanStep,
           TypeOK, EnvTypeOK, HistTypeOK
<1>13. CASE StartFindsOutdated
  BY <1>13, ForceRemovePlan DEF StartFindsOutdated, TypeOK, RestartSteps
<1>14. CASE StartFindsRunning
  <2>1. cliDown = {}
    BY <1>14 DEF StartFindsRunning, PlanInv, DownIsStopped, DownPlace, WhileDown
  <2> QED BY <1>14, <2>1, GoToPlan
          DEF StartFindsRunning, RestartSteps, WhileDown, AfterDown
<1>15. CASE StartFindsStopped
  BY <1>15, TargetBootsPlan DEF StartFindsStopped, TypeOK, RestartSteps, WhileDown
<1>16. CASE Create
  BY <1>16, TargetBootsPlan DEF Create, TypeOK, RestartSteps, WhileDown
<1>17. CASE MarkRestarted
  BY <1>17, PassKeeps DEF MarkRestarted, PlanInv, RenewedPlace, AfterDown
<1> QED BY <1>1, <1>2, <1>3, <1>4, <1>5, <1>6, <1>7, <1>8, <1>9,
          <1>10, <1>11, <1>12, <1>13, <1>14, <1>15, <1>16, <1>17 DEF Restart

LEMMA DockerFaultPlan == TypeOK /\ PlanInv /\ DockerFault => PlanInv' /\ PlanStep
<1> SUFFICES ASSUME TypeOK, PlanInv, DockerFault PROVE PlanInv' /\ PlanStep
  OBVIOUS
<1> USE DEF envVars
<1>1. CASE StopInspectFault
  BY <1>1, GoToPlan DEF StopInspectFault, RestartSteps, BeforeDown, WhileDown
<1>2. CASE CommandFault
  BY <1>2, FailKeeps DEF CommandFault, Fail, Resting, PlanStep
<1>3. CASE RemoveFault
  BY <1>3, GoToPlan DEF RemoveFault, RestartSteps, BeforeDown, WhileDown
<1>4. CASE StartExistsFault
  BY <1>4, GoToPlan DEF StartExistsFault, RestartSteps, BeforeDown, WhileDown
<1>5. CASE StartHashFault
  BY <1>5, ForceRemovePlan DEF StartHashFault, TypeOK, RestartSteps
<1>6. CASE CreateFault
  BY <1>6 DEF CreateFault, Fail, End, PlanInv, DownIsStopped, DownPlace, RenewedPlace,
              AtMostOneDown, BeforeDown, WhileDown, AfterDown, Resting, histVars,
              PlanStep, TypeOK, EnvTypeOK, HistTypeOK
<1> QED BY <1>1, <1>2, <1>3, <1>4, <1>5, <1>6 DEF DockerFault

\* Nothing the replica set does brings back a member that is down.
LEMMA ReplicaSetPlan == TypeOK /\ PlanInv /\ ReplicaSet => PlanInv' /\ PlanStep
<1> SUFFICES ASSUME TypeOK, PlanInv, ReplicaSet PROVE PlanInv' /\ PlanStep
  OBVIOUS
<1>1. UNCHANGED <<cliVars, cliDown, booted>>
  BY DEF ReplicaSet, Boot, CatchUp, Elect, Thaw, LoseMajority, Failover, Crash,
         RoleBecomes, cliVars, histVars
<1>2. \A j \in Instances :
        role[j] = "DOWN" /\ container[j] # "running"
          => role'[j] = "DOWN" /\ container'[j] # "running"
  BY DEF ReplicaSet, Boot, CatchUp, Elect, Thaw, LoseMajority, Failover, Crash,
         RoleBecomes, TypeOK, EnvTypeOK
<1>3. DownIsStopped'
  BY <1>1, <1>2 DEF PlanInv, DownIsStopped, TypeOK, HistTypeOK
<1> QED BY <1>1, <1>3
        DEF PlanInv, DownPlace, RenewedPlace, AtMostOneDown, cliVars, PlanStep

LEMMA OperatorPlan == TypeOK /\ PlanInv /\ Operator => PlanInv' /\ PlanStep
<1> SUFFICES ASSUME TypeOK, PlanInv, Operator PROVE PlanInv' /\ PlanStep
  OBVIOUS
<1>1. CASE Interrupt
  BY <1>1, FailKeeps DEF Interrupt, Fail, Resting, PlanStep, envVars
<1>2. CASE Rerun
  <2>1. Plan!NewRun
    BY <1>2 DEF Rerun, Plan!NewRun
  <2>2. PlanInv'
    BY <1>2 DEF Rerun, BeginPass, PlanInv, DownIsStopped, DownPlace, RenewedPlace,
                AtMostOneDown, BeforeDown, WhileDown, AfterDown, Resting, envVars,
                TypeOK, HistTypeOK
  <2> QED BY <2>1, <2>2 DEF PlanStep, Plan!PlanNext
<1> QED BY <1>1, <1>2 DEF Operator

\* The invariant is inductive, and every step is one of the plan or none.
LEMMA StepPlan ==
  TypeOK /\ PlanInv /\ [Next]_vars => PlanInv' /\ [Plan!PlanNext]_(Plan!planVars)
<1>1. TypeOK /\ PlanInv /\ Next => PlanInv' /\ PlanStep
  BY LookPlan, HandOverPlan, RestartPlan, DockerFaultPlan, ReplicaSetPlan, OperatorPlan
  DEF Next, Command
<1>2. PlanInv /\ UNCHANGED vars => PlanInv' /\ PlanStep
  BY DEF vars, envVars, cliVars, histVars, PlanInv, DownIsStopped, DownPlace,
         RenewedPlace, AtMostOneDown, PlanStep
<1> QED BY <1>1, <1>2 DEF PlanStep, Plan!planVars

LEMMA PlanInvHolds == Spec => [](TypeOK /\ PlanInv)
<1>1. TypeOK /\ PlanInv /\ [Next]_vars => PlanInv'
  BY StepPlan
<1> QED BY <1>1, InitPlanInv, TypeCorrect, PTL DEF Spec

\* "Restarts one member at a time" (restartReplSet.ts, docs/commands/mongo.md):
\* with any number of members, faults, crashes, failovers, interruptions and
\* reruns, the command never holds two members stopped.
THEOREM OneMemberAtATime == Spec => []AtMostOneDown
<1>1. PlanInv => AtMostOneDown
  BY DEF PlanInv, DownPlace
<1> QED BY <1>1, PlanInvHolds, PTL

\* The command implements the plan: it takes a member down only while nobody
\* is, never one it has renewed in this run, and renews only what is down.
THEOREM RefinesPlan == Spec => ImplementsPlan
<1>1. Spec => Plan!PlanInit
  BY InitPlanInv DEF Spec
<1>2. TypeOK /\ PlanInv /\ [Next]_vars => [Plan!PlanNext]_(Plan!planVars)
  BY StepPlan
<1> QED BY <1>1, <1>2, PlanInvHolds, PTL DEF Spec, ImplementsPlan, Plan!PlanSpec

-----------------------------------------------------------------------------
(***************************************************************************)
(* What the command knows when it takes a member down: that the others     *)
(* serve, and that the member was not primary, or no longer is.            *)
(***************************************************************************)

\* Whoever is SECONDARY or PRIMARY has been so since it booted; what the run
\* has booted has reached that state, but for the target it is waiting for.
ServedInv ==
  /\ \A i \in Instances : role[i] \in Serving => i \in served
  /\ pc \in {"scan", "health"} \union BeforeDown \union WhileDown => booted \subseteq served
  /\ pc \in {"listen", "state"} => booted \subseteq served \union {target}

\* One primary at a time; a member that reported another state is primary only
\* by an election since; so is, from the step-down on, the target.
AfterHandOver == {"await", "stop", "kill"} \union WhileDown
LookInv ==
  /\ \A i, j \in Instances : role[i] = "PRIMARY" /\ role[j] = "PRIMARY" => i = j
  /\ pc = "scan" =>
       \A i \in Instances \ unread :
         /\ seen[i] # Unseen
         /\ seen[i] # "PRIMARY" /\ role[i] = "PRIMARY" => i \in electedSince
  /\ pc \in AfterHandOver /\ role[target] = "PRIMARY" => target \in electedSince

KnowInv == ServedInv /\ LookInv

LEMMA InitKnowInv == Init => KnowInv
BY DEF Init, KnowInv, ServedInv, LookInv, BeforeDown, WhileDown, AfterHandOver

\* Steps that change no mongod.
LEMMA FailKnows ==
  ASSUME KnowInv, NEW p \in Resting, End(p), UNCHANGED <<role, histVars>>
  PROVE  KnowInv'
BY DEF KnowInv, ServedInv, LookInv, End, BeforeDown, WhileDown, AfterHandOver,
       Resting, histVars

LEMMA PassKnows ==
  ASSUME TypeOK, KnowInv, NEW ph, BeginPass(ph), UNCHANGED <<role, booted, served>>,
         booted \subseteq served
  PROVE  KnowInv'
BY DEF KnowInv, ServedInv, LookInv, BeginPass, BeforeDown, WhileDown, AfterHandOver

LEMMA GoToKnows ==
  ASSUME KnowInv, NEW p \in RestartSteps, GoTo(p), UNCHANGED <<role, histVars>>,
         \/ pc \in AfterHandOver /\ p \in AfterHandOver
         \/ pc = "start" /\ p = "listen"
         \/ pc = "listen" /\ p = "state"
         \/ pc = "state" /\ p = "health" /\ target \in served
  PROVE  KnowInv'
BY DEF KnowInv, ServedInv, LookInv, GoTo, BeforeDown, WhileDown, AfterHandOver, histVars

LEMMA LookKnows == TypeOK /\ KnowInv /\ Look => KnowInv'
<1> SUFFICES ASSUME TypeOK, KnowInv, Look PROVE KnowInv'
  OBVIOUS
<1> USE DEF envVars
<1>1. ASSUME NEW i \in Instances, ReadMember(i) PROVE KnowInv'
  BY <1>1 DEF ReadMember, KnowInv, ServedInv, LookInv, BeforeDown, WhileDown,
              AfterHandOver, Reachable, Reports, Unseen, histVars, TypeOK, CliTypeOK
<1>2. ASSUME NEW i \in Instances, ReadFails(i) PROVE KnowInv'
  BY <1>2, FailKnows DEF ReadFails, Fail, Resting
<1>3. ASSUME NEW i \in Instances, ChooseNonPrimary(i) PROVE KnowInv'
  BY <1>3 DEF ChooseNonPrimary, PassComplete, NonPrimaryToRestart, IsFirst, KnowInv,
              ServedInv, LookInv, BeforeDown, WhileDown, AfterHandOver, histVars
<1>4. ASSUME NEW i \in Instances, ChoosePrimary(i) PROVE KnowInv'
  BY <1>4 DEF ChoosePrimary, PassComplete, KnowInv, ServedInv, LookInv, BeforeDown,
              WhileDown, AfterHandOver, histVars
<1>5. ASSUME NEW i \in Instances, PrimaryAlreadyRestarted(i) PROVE KnowInv'
  BY <1>5, PassKnows DEF PrimaryAlreadyRestarted, PassComplete, KnowInv, ServedInv
<1>6. CASE NonPrimariesDone
  BY <1>6, PassKnows DEF NonPrimariesDone, PassComplete, KnowInv, ServedInv
<1>7. CASE NoPrimaryFound
  BY <1>7, FailKnows DEF NoPrimaryFound, Fail, Resting
<1>8. CASE Finish
  BY <1>8, FailKnows DEF Finish, Resting
<1> QED BY <1>1, <1>2, <1>3, <1>4, <1>5, <1>6, <1>7, <1>8 DEF Look

LEMMA HandOverKnows == TypeOK /\ KnowInv /\ HandOver => KnowInv'
<1> SUFFICES ASSUME TypeOK, KnowInv, HandOver PROVE KnowInv'
  OBVIOUS
<1> USE DEF envVars
<1>1. CASE Connect
  BY <1>1 DEF Connect, KnowInv, ServedInv, LookInv, BeforeDown, WhileDown,
              AfterHandOver, histVars
<1>2. CASE ConnectFails
  BY <1>2, FailKnows DEF ConnectFails, Fail, Resting
<1>3. ASSUME NEW p \in Instances, StepDown(p) PROVE KnowInv'
  <2>1. \A i \in Instances : role'[i] # "PRIMARY" /\ (role'[i] \in Serving => i \in served)
    BY <1>3 DEF StepDown, KnowInv, ServedInv, LookInv, Serving, TypeOK, EnvTypeOK
  <2>2. target \in Instances
    BY <1>3 DEF StepDown, TypeOK, RestartSteps
  <2> QED BY <1>3, <2>1, <2>2
          DEF StepDown, KnowInv, ServedInv, LookInv, BeforeDown, WhileDown,
              AfterHandOver, histVars
<1>4. CASE StepDownAttemptFails
  <2>1. CASE attempts = Retries
    BY <1>4, <2>1, FailKnows DEF StepDownAttemptFails, Fail, Resting
  <2>2. CASE attempts # Retries
    BY <1>4, <2>2 DEF StepDownAttemptFails, KnowInv, ServedInv, LookInv, histVars
  <2> QED BY <2>1, <2>2
<1>5. CASE NewPrimaryFound
  BY <1>5, GoToKnows DEF NewPrimaryFound, RestartSteps, AfterHandOver
<1>6. CASE NewPrimaryTimeout
  BY <1>6, FailKnows DEF NewPrimaryTimeout, Fail, Resting
<1> QED BY <1>1, <1>2, <1>3, <1>4, <1>5, <1>6 DEF HandOver

\* A member that stops is nobody's primary.
LEMMA TargetDownKnows ==
  ASSUME TypeOK, KnowInv, NEW c, target \in Instances, pc \in AfterHandOver,
         TargetDown(c), NEW p \in WhileDown, GoTo(p)
  PROVE  KnowInv'
<1>1. role'[target] = "DOWN" /\ \A i \in Instances : i # target => role'[i] = role[i]
  BY DEF TargetDown, TypeOK, EnvTypeOK
<1> QED BY <1>1
        DEF TargetDown, GoTo, KnowInv, ServedInv, LookInv, BeforeDown, WhileDown,
            AfterHandOver, Serving

LEMMA TargetBootsKnows ==
  ASSUME TypeOK, KnowInv, target \in Instances, pc \in WhileDown,
         TargetBoots, GoTo("listen")
  PROVE  KnowInv'
<1>1. role'[target] = "STARTING" /\ \A i \in Instances : i # target => role'[i] = role[i]
  BY DEF TargetBoots, TypeOK, EnvTypeOK
<1>2. booted' \subseteq served' \union {target}
  BY DEF TargetBoots, KnowInv, ServedInv
<1> QED BY <1>1, <1>2
        DEF TargetBoots, GoTo, KnowInv, ServedInv, LookInv, BeforeDown, WhileDown,
            AfterHandOver, Serving

LEMMA ForceRemoveKnows ==
  ASSUME TypeOK, KnowInv, target \in Instances, pc = "start", ForceRemove, GoTo("create")
  PROVE  KnowInv'
<1>1. CASE container[target] = "running"
  BY <1>1, TargetDownKnows DEF ForceRemove, WhileDown, AfterHandOver
<1>2. CASE container[target] # "running"
  BY <1>2, GoToKnows DEF ForceRemove, RestartSteps, AfterHandOver, WhileDown
<1> QED BY <1>1, <1>2

LEMMA RestartKnows == TypeOK /\ KnowInv /\ Restart => KnowInv'
<1> SUFFICES ASSUME TypeOK, KnowInv, Restart PROVE KnowInv'
  OBVIOUS
<1> USE DEF envVars
<1>1. CASE StopFindsRunning
  BY <1>1, GoToKnows DEF StopFindsRunning, RestartSteps, AfterHandOver, WhileDown
<1>2. CASE StopSkips
  BY <1>2, GoToKnows DEF StopSkips, RestartSteps, AfterHandOver, WhileDown
<1>3. CASE RemoveStopped
  BY <1>3, GoToKnows DEF RemoveStopped, RestartSteps, AfterHandOver, WhileDown
<1>4. CASE StartFindsNothing
  BY <1>4, GoToKnows DEF StartFindsNothing, RestartSteps, AfterHandOver, WhileDown
<1>5. CASE StartFindsRunning
  BY <1>5, GoToKnows DEF StartFindsRunning, RestartSteps, AfterHandOver, WhileDown
<1>6. CASE Listening
  BY <1>6, GoToKnows DEF Listening, RestartSteps, AfterHandOver, WhileDown
<1>7. CASE CreateConflicts
  BY <1>7, FailKnows DEF CreateConflicts, Fail, Resting
<1>8. CASE NotListening
  BY <1>8, FailKnows DEF NotListening, Fail, Resting
<1>9. CASE StateTimeout
  BY <1>9, FailKnows DEF StateTimeout, Fail, Resting
<1>10. CASE HealthFails
  BY <1>10, FailKnows DEF HealthFails, Fail, Resting
<1>11. CASE StateReached
  BY <1>11, GoToKnows DEF StateReached, RestartSteps, KnowInv, ServedInv, TypeOK
<1>12. CASE Kill
  BY <1>12, TargetDownKnows DEF Kill, TypeOK, RestartSteps, AfterHandOver, WhileDown
<1>13. CASE KillFindsStopped
  <2>1. CASE force
    BY <1>13, <2>1, FailKnows DEF KillFindsStopped, Fail, Resting
  <2>2. CASE ~force
    BY <1>13, <2>2, GoToKnows DEF KillFindsStopped, RestartSteps, AfterHandOver, WhileDown
  <2> QED BY <2>1, <2>2
<1>14. CASE StartFindsOutdated
  BY <1>14, ForceRemoveKnows DEF StartFindsOutdated, TypeOK, RestartSteps
<1>15. CASE StartFindsStopped
  BY <1>15, TargetBootsKnows DEF StartFindsStopped, TypeOK, RestartSteps, WhileDown
<1>16. CASE Create
  BY <1>16, TargetBootsKnows DEF Create, TypeOK, RestartSteps, WhileDown
<1>17. CASE MarkRestarted
  BY <1>17, PassKnows DEF MarkRestarted, KnowInv, ServedInv
<1> QED BY <1>1, <1>2, <1>3, <1>4, <1>5, <1>6, <1>7, <1>8, <1>9,
          <1>10, <1>11, <1>12, <1>13, <1>14, <1>15, <1>16, <1>17 DEF Restart

LEMMA DockerFaultKnows == TypeOK /\ KnowInv /\ DockerFault => KnowInv'
<1> SUFFICES ASSUME TypeOK, KnowInv, DockerFault PROVE KnowInv'
  OBVIOUS
<1> USE DEF envVars
<1>1. CASE StopInspectFault
  BY <1>1, GoToKnows DEF StopInspectFault, RestartSteps, AfterHandOver, WhileDown
<1>2. CASE CommandFault
  BY <1>2, FailKnows DEF CommandFault, Fail, Resting
<1>3. CASE RemoveFault
  BY <1>3, GoToKnows DEF RemoveFault, RestartSteps, AfterHandOver, WhileDown
<1>4. CASE StartExistsFault
  BY <1>4, GoToKnows DEF StartExistsFault, RestartSteps, AfterHandOver, WhileDown
<1>5. CASE StartHashFault
  BY <1>5, ForceRemoveKnows DEF StartHashFault, TypeOK, RestartSteps
<1>6. CASE CreateFault
  BY <1>6, FailKnows DEF CreateFault, Fail, Resting
<1> QED BY <1>1, <1>2, <1>3, <1>4, <1>5, <1>6 DEF DockerFault

LEMMA ReplicaSetKnows == TypeOK /\ KnowInv /\ ReplicaSet => KnowInv'
<1> SUFFICES ASSUME TypeOK, KnowInv, ReplicaSet PROVE KnowInv'
  OBVIOUS
<1>1. UNCHANGED <<cliVars, booted>> /\ served \subseteq served'
      /\ electedSince \subseteq electedSince'
  BY DEF ReplicaSet, Boot, CatchUp, Elect, Thaw, LoseMajority, Failover, Crash,
         cliVars, histVars
<1>2. \A j \in Instances : role'[j] \in Serving => j \in served'
  BY DEF ReplicaSet, Boot, CatchUp, Elect, Thaw, LoseMajority, Failover, Crash,
         RoleBecomes, KnowInv, ServedInv, Serving, histVars, TypeOK, EnvTypeOK
<1>3. \A j \in Instances :
        role'[j] = "PRIMARY" => role[j] = "PRIMARY" \/ j \in electedSince'
  BY DEF ReplicaSet, Boot, CatchUp, Elect, Thaw, LoseMajority, Failover, Crash,
         RoleBecomes, TypeOK, EnvTypeOK
<1>4. \A i, j \in Instances : role'[i] = "PRIMARY" /\ role'[j] = "PRIMARY" => i = j
  BY DEF ReplicaSet, Boot, CatchUp, Elect, Thaw, LoseMajority, Failover, Crash,
         RoleBecomes, Primaries, KnowInv, LookInv, TypeOK, EnvTypeOK
<1>5. ServedInv'
  BY <1>1, <1>2 DEF KnowInv, ServedInv, cliVars
<1>6. pc \in AfterHandOver => target \in Instances
  BY DEF TypeOK, RestartSteps, AfterHandOver, WhileDown
<1>7. LookInv'
  BY <1>1, <1>3, <1>4, <1>6 DEF KnowInv, LookInv, cliVars
<1> QED BY <1>5, <1>7 DEF KnowInv

LEMMA OperatorKnows == TypeOK /\ KnowInv /\ Operator => KnowInv'
<1> SUFFICES ASSUME TypeOK, KnowInv, Operator PROVE KnowInv'
  OBVIOUS
<1>1. CASE Interrupt
  BY <1>1, FailKnows DEF Interrupt, Fail, Resting, envVars
<1>2. CASE Rerun
  BY <1>2 DEF Rerun, BeginPass, KnowInv, ServedInv, LookInv, BeforeDown, WhileDown,
              AfterHandOver, envVars
<1> QED BY <1>1, <1>2 DEF Operator

LEMMA KnowInvHolds == Spec => [](TypeOK /\ KnowInv)
<1>1. TypeOK /\ KnowInv /\ Next => KnowInv'
  BY LookKnows, HandOverKnows, RestartKnows, DockerFaultKnows, ReplicaSetKnows,
     OperatorKnows
  DEF Next, Command
<1>2. KnowInv /\ UNCHANGED vars => KnowInv'
  BY DEF vars, envVars, cliVars, histVars, KnowInv, ServedInv, LookInv
<1>3. TypeOK /\ KnowInv /\ [Next]_vars => KnowInv'
  BY <1>1, <1>2
<1> QED BY <1>3, InitKnowInv, TypeCorrect, PTL DEF Spec

\* Members go down at two places only: the kill, and the rm -f of a start.
LEMMA WhoTakesDown ==
  ASSUME TypeOK, [Next]_vars, NEW i \in Instances, CliTakesDown(i)
  PROVE  i = target /\ pc \in {"kill", "start"}
<1>1. CASE Look
  BY <1>1 DEF Look, ReadMember, ReadFails, ChooseNonPrimary, ChoosePrimary,
              PrimaryAlreadyRestarted, NonPrimariesDone, NoPrimaryFound, Finish,
              CliTakesDown, histVars
<1>2. CASE HandOver
  BY <1>2 DEF HandOver, Connect, ConnectFails, StepDown, StepDownAttemptFails,
              NewPrimaryFound, NewPrimaryTimeout, CliTakesDown, histVars
<1>3. CASE Restart
  BY <1>3 DEF Restart, StopFindsRunning, StopSkips, Kill, KillFindsStopped,
              RemoveStopped, StartFindsNothing, StartFindsOutdated, StartFindsRunning,
              StartFindsStopped, Create, CreateConflicts, Listening, NotListening,
              StateReached, StateTimeout, MarkRestarted, HealthFails, ForceRemove,
              TargetDown, TargetBoots, CliTakesDown, histVars
<1>4. CASE DockerFault
  BY <1>4 DEF DockerFault, StopInspectFault, CommandFault, RemoveFault,
              CreateFault, StartExistsFault, StartHashFault, ForceRemove, TargetDown,
              CliTakesDown, histVars
<1>5. CASE ReplicaSet \/ Operator
  BY <1>5 DEF ReplicaSet, Boot, CatchUp, Elect, Thaw, LoseMajority, Failover, Crash,
              Operator, Interrupt, Rerun, CliTakesDown, histVars
<1>6. CASE UNCHANGED vars
  BY <1>6 DEF vars, histVars, CliTakesDown
<1> QED BY <1>1, <1>2, <1>3, <1>4, <1>5, <1>6 DEF Next, Command

\* "Verifies member health after each restart": a member goes down only once
\* everything this run restarted has come back to PRIMARY or SECONDARY.
THEOREM NextOnlyWhenOthersServe == Spec => OthersServe
<1>1. TypeOK /\ KnowInv /\ [Next]_vars =>
        [\A i \in Instances : CliTakesDown(i) => booted \subseteq served]_vars
  BY WhoTakesDown DEF KnowInv, ServedInv, BeforeDown, WhileDown
<1> QED BY <1>1, KnowInvHolds, PTL DEF Spec, OthersServe

\* "Restarts secondaries first, then steps down and restarts primary": only an
\* election the command could not see makes it stop a primary.
THEOREM PrimaryIsSteppedDownFirst == Spec => PrimaryStoppedOnlyIfElectedSince
<1>1. TypeOK /\ KnowInv /\ [Next]_vars =>
        [\A i \in Instances :
           CliTakesDown(i) /\ role[i] = "PRIMARY" => i \in electedSince]_vars
  BY WhoTakesDown DEF KnowInv, LookInv, AfterHandOver, WhileDown
<1> QED BY <1>1, KnowInvHolds, PTL DEF Spec, PrimaryStoppedOnlyIfElectedSince

-----------------------------------------------------------------------------
(***************************************************************************)
(* The majority.  While no mongod dies on its own, what does not answer is *)
(* one member at most: one the command stopped, or started and has not yet *)
(* heard from.                                                             *)
(***************************************************************************)

Silent == {i \in Instances : ~Reachable(i)}

SilentPlace ==
  /\ \A i, j \in Silent : i = j
  /\ pc = "scan" => Silent \subseteq unread
  /\ pc \in BeforeDown \union {"state", "health"} => Silent = {}
  /\ pc \in WhileDown \union {"listen"} => Silent \subseteq {target}

SilentInv == crashes = 0 => SilentPlace

LEMMA InitSilentInv == Init => SilentInv
BY DEF Init, SilentInv, SilentPlace, Silent, Reachable, Reports, BeforeDown, WhileDown

\* Steps after which the command works on nobody, or on the same target.
LEMMA FailSilent ==
  ASSUME SilentInv, NEW p \in Resting, End(p), UNCHANGED <<role, crashes>>
  PROVE  SilentInv'
BY DEF SilentInv, SilentPlace, Silent, Reachable, End, BeforeDown, WhileDown, Resting

LEMMA PassSilent ==
  ASSUME SilentInv, NEW ph, BeginPass(ph), UNCHANGED <<role, crashes>>
  PROVE  SilentInv'
BY DEF SilentInv, SilentPlace, Silent, Reachable, BeginPass, BeforeDown, WhileDown

AtTarget == WhileDown \union {"listen"}

LEMMA GoToSilent ==
  ASSUME SilentInv, NEW p \in RestartSteps, GoTo(p), UNCHANGED <<role, crashes>>,
         \/ pc \in BeforeDown
         \/ pc \in AtTarget /\ p \in AtTarget
         \/ pc = "listen" /\ Reachable(target)
         \/ pc = "state" /\ p = "health"
  PROVE  SilentInv'
BY DEF SilentInv, SilentPlace, Silent, Reachable, GoTo, AtTarget, BeforeDown, WhileDown

\* Only the target's mongod changes, and the command goes on with it.
LEMMA TargetSilent ==
  ASSUME SilentInv, TypeOK, target \in Instances, NEW r, NEW p \in AtTarget,
         pc \in BeforeDown \union AtTarget, GoTo(p), crashes' = crashes,
         role' = [role EXCEPT ![target] = r]
  PROVE  SilentInv'
<1> SUFFICES ASSUME crashes = 0 PROVE SilentPlace'
  BY DEF SilentInv
<1>1. Silent \subseteq {target}
  BY DEF SilentInv, SilentPlace, AtTarget
<1>2. Silent' \subseteq {target}
  BY <1>1 DEF Silent, Reachable, TypeOK, EnvTypeOK
<1> QED BY <1>2 DEF SilentPlace, GoTo, AtTarget, BeforeDown, WhileDown

LEMMA LookSilent == TypeOK /\ SilentInv /\ Look => SilentInv'
<1> SUFFICES ASSUME TypeOK, SilentInv, Look PROVE SilentInv'
  OBVIOUS
<1> USE DEF envVars, boundVars
<1>1. ASSUME NEW i \in Instances, ReadMember(i) PROVE SilentInv'
  BY <1>1 DEF ReadMember, SilentInv, SilentPlace, Silent, Reachable, BeforeDown,
              WhileDown
<1>2. ASSUME NEW i \in Instances, ReadFails(i) PROVE SilentInv'
  BY <1>2, FailSilent DEF ReadFails, Fail, Resting
<1>3. ASSUME NEW i \in Instances, ChooseNonPrimary(i) \/ ChoosePrimary(i)
      PROVE  SilentInv'
  BY <1>3 DEF ChooseNonPrimary, ChoosePrimary, PassComplete, SilentInv, SilentPlace,
              Silent, Reachable, BeforeDown, WhileDown
<1>4. ASSUME NEW i \in Instances, PrimaryAlreadyRestarted(i) PROVE SilentInv'
  BY <1>4, PassSilent DEF PrimaryAlreadyRestarted
<1>5. CASE NonPrimariesDone
  BY <1>5, PassSilent DEF NonPrimariesDone
<1>6. CASE NoPrimaryFound \/ Finish
  BY <1>6, FailSilent DEF NoPrimaryFound, Finish, Fail, Resting
<1> QED BY <1>1, <1>2, <1>3, <1>4, <1>5, <1>6 DEF Look

LEMMA HandOverSilent == TypeOK /\ SilentInv /\ HandOver => SilentInv'
<1> SUFFICES ASSUME TypeOK, SilentInv, HandOver PROVE SilentInv'
  OBVIOUS
<1> USE DEF envVars, boundVars
<1>1. CASE Connect
  BY <1>1 DEF Connect, SilentInv, SilentPlace, Silent, Reachable, BeforeDown, WhileDown
<1>2. CASE ConnectFails \/ NewPrimaryTimeout
  BY <1>2, FailSilent DEF ConnectFails, NewPrimaryTimeout, Fail, Resting
<1>3. ASSUME NEW p \in Instances, StepDown(p) PROVE SilentInv'
  <2>1. Silent' = Silent
    BY <1>3 DEF StepDown, Silent, Reachable, Reports, TypeOK, EnvTypeOK
  <2> QED BY <1>3, <2>1 DEF StepDown, SilentInv, SilentPlace, BeforeDown, WhileDown
<1>4. CASE StepDownAttemptFails
  <2>1. CASE attempts = Retries
    BY <1>4, <2>1, FailSilent DEF StepDownAttemptFails, Fail, Resting
  <2>2. CASE attempts # Retries
    BY <1>4, <2>2 DEF StepDownAttemptFails, SilentInv, SilentPlace, Silent, Reachable
  <2> QED BY <2>1, <2>2
<1>5. CASE NewPrimaryFound
  BY <1>5, GoToSilent DEF NewPrimaryFound, RestartSteps, BeforeDown
<1> QED BY <1>1, <1>2, <1>3, <1>4, <1>5 DEF HandOver

LEMMA ForceRemoveSilent ==
  ASSUME TypeOK, SilentInv, target \in Instances, pc = "start", ForceRemove,
         GoTo("create"), crashes' = crashes
  PROVE  SilentInv'
<1>1. CASE container[target] = "running"
  BY <1>1, TargetSilent DEF ForceRemove, TargetDown, AtTarget, WhileDown
<1>2. CASE container[target] # "running"
  BY <1>2, GoToSilent DEF ForceRemove, AtTarget, WhileDown, RestartSteps
<1> QED BY <1>1, <1>2

LEMMA RestartSilent == TypeOK /\ SilentInv /\ Restart => SilentInv'
<1> SUFFICES ASSUME TypeOK, SilentInv, Restart PROVE SilentInv'
  OBVIOUS
<1> USE DEF envVars, boundVars
<1>1. CASE StopFindsRunning \/ StopSkips
  BY <1>1, GoToSilent DEF StopFindsRunning, StopSkips, RestartSteps, BeforeDown
<1>2. CASE RemoveStopped \/ StartFindsNothing \/ StartFindsRunning
  BY <1>2, GoToSilent DEF RemoveStopped, StartFindsNothing, StartFindsRunning,
                          RestartSteps, AtTarget, WhileDown
<1>3. CASE Listening
  BY <1>3, GoToSilent DEF Listening, RestartSteps
<1>4. CASE StateReached
  BY <1>4, GoToSilent DEF StateReached, RestartSteps
<1>5. CASE CreateConflicts \/ NotListening \/ StateTimeout \/ HealthFails
  BY <1>5, FailSilent
  DEF CreateConflicts, NotListening, StateTimeout, HealthFails, Fail, Resting
<1>6. CASE Kill
  BY <1>6, TargetSilent
  DEF Kill, TargetDown, TypeOK, RestartSteps, AtTarget, BeforeDown, WhileDown
<1>7. CASE KillFindsStopped
  <2>1. CASE force
    BY <1>7, <2>1, FailSilent DEF KillFindsStopped, Fail, Resting
  <2>2. CASE ~force
    BY <1>7, <2>2, GoToSilent DEF KillFindsStopped, RestartSteps, BeforeDown
  <2> QED BY <2>1, <2>2
<1>8. CASE StartFindsOutdated
  BY <1>8, ForceRemoveSilent DEF StartFindsOutdated, TypeOK, RestartSteps
<1>9. CASE StartFindsStopped \/ Create
  BY <1>9, TargetSilent
  DEF StartFindsStopped, Create, TargetBoots, TypeOK, RestartSteps, AtTarget, WhileDown
<1>10. CASE MarkRestarted
  BY <1>10, PassSilent DEF MarkRestarted
<1> QED BY <1>1, <1>2, <1>3, <1>4, <1>5, <1>6, <1>7, <1>8, <1>9, <1>10 DEF Restart

LEMMA DockerFaultSilent == TypeOK /\ SilentInv /\ DockerFault => SilentInv'
<1> SUFFICES ASSUME TypeOK, SilentInv, DockerFault PROVE SilentInv'
  OBVIOUS
<1> USE DEF envVars, UseFault
<1>1. CASE StopInspectFault
  BY <1>1, GoToSilent DEF StopInspectFault, RestartSteps, BeforeDown
<1>2. CASE CommandFault \/ CreateFault
  BY <1>2, FailSilent DEF CommandFault, CreateFault, Fail, Resting
<1>3. CASE RemoveFault \/ StartExistsFault
  BY <1>3, GoToSilent DEF RemoveFault, StartExistsFault, RestartSteps, AtTarget, WhileDown
<1>4. CASE StartHashFault
  BY <1>4, ForceRemoveSilent DEF StartHashFault, TypeOK, RestartSteps
<1> QED BY <1>1, <1>2, <1>3, <1>4 DEF DockerFault

\* A mongod that does not die keeps answering.
LEMMA ReplicaSetSilent == TypeOK /\ SilentInv /\ ReplicaSet => SilentInv'
<1> SUFFICES ASSUME TypeOK, SilentInv, ReplicaSet, crashes' = 0 PROVE SilentPlace'
  BY DEF SilentInv
<1>1. crashes = 0 /\ ~\E i \in Instances : Crash(i)
  BY DEF ReplicaSet, Boot, CatchUp, Elect, Thaw, LoseMajority, Failover, Crash,
         boundVars, TypeOK, BoundTypeOK
<1>2. UNCHANGED cliVars /\ Silent' \subseteq Silent
  BY <1>1 DEF ReplicaSet, Boot, CatchUp, Elect, Thaw, LoseMajority, Failover,
              RoleBecomes, Silent, Reachable, Reports, cliVars, TypeOK, EnvTypeOK
<1> QED BY <1>1, <1>2 DEF SilentInv, SilentPlace, cliVars

LEMMA OperatorSilent == TypeOK /\ SilentInv /\ Operator => SilentInv'
<1> USE DEF envVars, boundVars
<1>1. TypeOK /\ SilentInv /\ Interrupt => SilentInv'
  BY FailSilent DEF Interrupt, Fail, Resting
<1>2. TypeOK /\ SilentInv /\ Rerun => SilentInv'
  BY PassSilent DEF Rerun
<1> QED BY <1>1, <1>2 DEF Operator

LEMMA SilentInvHolds == Spec => []SilentInv
<1>1. TypeOK /\ SilentInv /\ Next => SilentInv'
  BY LookSilent, HandOverSilent, RestartSilent, DockerFaultSilent, ReplicaSetSilent,
     OperatorSilent
  DEF Next, Command
<1>2. SilentInv /\ UNCHANGED vars => SilentInv'
  BY DEF vars, envVars, cliVars, boundVars, SilentInv, SilentPlace, Silent, Reachable
<1>3. TypeOK /\ SilentInv /\ [Next]_vars => SilentInv'
  BY <1>1, <1>2
<1> QED BY <1>3, InitSilentInv, TypeCorrect, PTL DEF Spec

\* One member of three or more is never half of them.
LEMMA AllButOneIsMajority ==
  ASSUME NEW x \in Instances, NEW S \in SUBSET Instances, Instances \ {x} \subseteq S
  PROVE  2 * Cardinality(S) > N
<1>1. IsFiniteSet(Instances) /\ Cardinality(Instances) = N
  BY NAssumption, FS_Interval DEF Instances
<1>2. IsFiniteSet(Instances \ {x}) /\ Cardinality(Instances \ {x}) = N - 1
  BY <1>1, FS_RemoveElement
<1>3. IsFiniteSet(S)
  BY <1>1, FS_Subset
<1>4. Cardinality(Instances \ {x}) <= Cardinality(S) /\ Cardinality(S) \in Nat
  BY <1>3, FS_Subset, FS_CardinalityType
<1> QED BY <1>2, <1>4, NAssumption

\* "Keeps the majority of nodes up at all times" (docs/commands/mongo.md): as
\* long as no mongod dies on its own, with three members or more.
THEOREM MajorityStaysUp == Spec => []KeepsMajority
<1>1. SilentInv => KeepsMajority
  <2> SUFFICES ASSUME SilentInv, crashes = 0 PROVE HasMajority
    BY DEF KeepsMajority
  <2>1. PICK x \in Instances : Silent \subseteq {x}
    <3>1. CASE Silent = {}
      BY <3>1, NAssumption DEF Instances
    <3>2. CASE Silent # {}
      BY <3>2 DEF SilentInv, SilentPlace, Silent
    <3> QED BY <3>1, <3>2
  <2>2. Instances \ {x} \subseteq Voters /\ Voters \in SUBSET Instances
    BY <2>1 DEF Silent, Reachable, Voters
  <2> QED BY <2>2, AllButOneIsMajority DEF HasMajority
<1> QED BY <1>1, SilentInvHolds, PTL

-----------------------------------------------------------------------------
(***************************************************************************)
(* A quiet run is complete.  Two passes in a row must agree on who the     *)
(* primary is for the run to restart everybody: what changes the primary   *)
(* between them, when nobody asks for a failover, is a mongod that died,   *)
(* and the next pass stumbles over it.                                     *)
(***************************************************************************)

Starting == {i \in Instances : role[i] = "STARTING"}
Dead == {i \in Instances : role[i] = "DOWN"}
Left == Instances \ restarted

\* One mongod boots at a time, even across interrupted runs: a run takes no
\* member down before all have answered.
StartingInv ==
  /\ \A i, j \in Starting : i = j
  /\ pc = "scan" => Starting \subseteq unread
  /\ pc \in BeforeDown \union {"state", "health"} => Starting = {}
  /\ pc \in AtTarget => Starting \subseteq {target}

\* When no Docker command fails, a run starts only what does not run.
RenewedAll ==
  /\ pc \in WhileDown => container[target] # "running"
  /\ pc \in AfterDown => target \in booted
  /\ restarted \subseteq booted

\* Somebody who has not been read is gone.
PassFails == Dead \intersect unread # {}

\* From the end of the secondaries on at most one member is left, and it is the
\* primary, unless a pass fails.
LeftPlace ==
  /\ pc = "scan" /\ Dead = {} => SeenPrimary \subseteq Primaries
  /\ pc = "scan" /\ phase = "primary" =>
       \/ PassFails
       \/ /\ \A i, j \in Left : i = j
          /\ Dead = {} => Left \subseteq Primaries
  /\ pc = "scan" /\ phase = "verify" => PassFails \/ Left = {}
  /\ pc \in RestartSteps /\ phase # "secondaries" => Left \subseteq {target}
  /\ pc = "done" => booted = Instances

Quiet == failovers = 0 /\ faults = 0
QuietInv == StartingInv /\ (Quiet => RenewedAll /\ LeftPlace)

LEMMA InitQuietInv == Init => QuietInv
<1> SUFFICES ASSUME Init PROVE QuietInv
  OBVIOUS
<1>1. Starting = {} /\ SeenPrimary = {}
  BY DEF Init, Starting, SeenPrimary, NothingSeen, Unseen
<1> QED BY <1>1
        DEF Init, QuietInv, StartingInv, RenewedAll, LeftPlace, BeforeDown, WhileDown,
            AfterDown, AtTarget, RestartSteps

\* The command ends badly, or begins a pass.
LEMMA FailQuiet ==
  ASSUME QuietInv, End("failed"), UNCHANGED <<container, role, histVars>>, Quiet' => Quiet
  PROVE  QuietInv'
BY DEF QuietInv, StartingInv, RenewedAll, LeftPlace, Starting, End, BeforeDown,
       WhileDown, AfterDown, AtTarget, RestartSteps, histVars

\* A pass over all members fails if one is gone.
LEMMA PassQuiet ==
  ASSUME TypeOK, QuietInv, NEW ph \in Phases, BeginPass(ph),
         UNCHANGED <<role, boundVars>>, Quiet => restarted' \subseteq booted',
         Quiet /\ ph = "primary" =>
           \/ Dead # {}
           \/ (\A i, j \in Left' : i = j) /\ Left' \subseteq Primaries,
         Quiet /\ ph = "verify" => Dead # {} \/ Left' = {}
  PROVE  QuietInv'
<1>1. Starting' = Starting /\ Dead' = Dead /\ Primaries' = Primaries /\ SeenPrimary' = {}
  BY DEF Starting, Dead, Primaries, SeenPrimary, BeginPass, NothingSeen, Unseen
<1>2. PassFails' <=> Dead # {}
  BY <1>1 DEF PassFails, BeginPass, Dead
<1> QED BY <1>1, <1>2
        DEF QuietInv, StartingInv, RenewedAll, LeftPlace, Starting, Quiet, BeginPass,
            boundVars, BeforeDown, WhileDown, AfterDown, AtTarget, RestartSteps

\* The command goes on with its target.
LEMMA GoToQuiet ==
  ASSUME TypeOK, QuietInv, NEW p \in RestartSteps, GoTo(p), pc \in RestartSteps,
         UNCHANGED <<role, histVars>>, Quiet' => Quiet,
         \/ pc \in BeforeDown
         \/ pc \in AtTarget /\ p \in AtTarget
         \/ pc = "listen" /\ Reachable(target)
         \/ pc = "state" /\ p = "health",
         Quiet' => /\ p \in WhileDown => container'[target] # "running"
                   /\ p \in AfterDown => pc \in AfterDown
  PROVE  QuietInv'
<1>1. Starting' = Starting
  BY DEF Starting
<1>2. StartingInv'
  BY <1>1 DEF QuietInv, StartingInv, Starting, GoTo, Reachable, Reports, AtTarget,
              BeforeDown, WhileDown
<1>3. Quiet' => RenewedAll' /\ LeftPlace'
  BY DEF QuietInv, RenewedAll, LeftPlace, Left, GoTo, histVars, RestartSteps
<1> QED BY <1>2, <1>3 DEF QuietInv

\* Only the target's mongod changes.
LEMMA TargetQuiet ==
  ASSUME TypeOK, QuietInv, target \in Instances, pc \in BeforeDown \union AtTarget,
         NEW r, role' = [role EXCEPT ![target] = r], NEW p \in AtTarget, GoTo(p),
         Quiet' => Quiet, booted \subseteq booted',
         Quiet' => /\ p \in WhileDown => container'[target] # "running"
                   /\ p = "listen" => target \in booted'
  PROVE  QuietInv'
<1>1. Starting \subseteq {target}
  BY DEF QuietInv, StartingInv, AtTarget
<1>2. Starting' \subseteq {target}
  BY <1>1 DEF Starting, TypeOK, EnvTypeOK
<1>3. StartingInv'
  BY <1>2 DEF StartingInv, GoTo, AtTarget, BeforeDown, WhileDown
<1>4. Quiet' => RenewedAll' /\ LeftPlace'
  BY DEF QuietInv, RenewedAll, LeftPlace, Left, GoTo, RestartSteps, AtTarget,
         BeforeDown, WhileDown, AfterDown
<1> QED BY <1>3, <1>4 DEF QuietInv

LEMMA LookQuiet == TypeOK /\ KnowInv /\ QuietInv /\ Look => QuietInv'
<1> SUFFICES ASSUME TypeOK, KnowInv, QuietInv, Look PROVE QuietInv'
  OBVIOUS
<1> USE DEF envVars
<1>1. ASSUME NEW i \in Instances, ReadMember(i) PROVE QuietInv'
  <2>1. Starting' = Starting /\ Dead' = Dead /\ Primaries' = Primaries /\ Left' = Left
    BY <1>1 DEF ReadMember, Starting, Dead, Primaries, Left
  <2>2. i \notin Starting /\ i \notin Dead
    BY <1>1 DEF ReadMember, Reachable, Reports, Starting, Dead
  <2>3. SeenPrimary' \subseteq SeenPrimary \union (Primaries \intersect {i})
    BY <1>1 DEF ReadMember, SeenPrimary, Primaries, TypeOK, CliTypeOK
  <2>4. PassFails' <=> PassFails
    BY <1>1, <2>1, <2>2 DEF ReadMember, PassFails
  <2>5. StartingInv'
    BY <1>1, <2>1, <2>2 DEF ReadMember, QuietInv, StartingInv, BeforeDown, WhileDown,
                            AtTarget
  <2>6. Quiet' => RenewedAll' /\ LeftPlace'
    BY <1>1, <2>1, <2>3, <2>4
    DEF ReadMember, QuietInv, RenewedAll, LeftPlace, Quiet, boundVars, histVars,
        WhileDown, AfterDown, RestartSteps
  <2> QED BY <2>5, <2>6 DEF QuietInv
<1>2. ASSUME NEW i \in Instances, ReadFails(i) PROVE QuietInv'
  BY <1>2, FailQuiet DEF ReadFails, Fail, Quiet, boundVars
<1>3. ASSUME NEW i \in Instances, ChooseNonPrimary(i) \/ ChoosePrimary(i)
      PROVE  QuietInv'
  <2>1. Starting' = Starting /\ Left' = Left /\ Starting \subseteq {}
    BY <1>3 DEF ChooseNonPrimary, ChoosePrimary, PassComplete, Starting, Left,
                QuietInv, StartingInv
  <2>2. StartingInv'
    BY <1>3, <2>1 DEF ChooseNonPrimary, ChoosePrimary, StartingInv, AtTarget,
                      BeforeDown, WhileDown
  <2>3. Quiet' => RenewedAll'
    BY <1>3 DEF ChooseNonPrimary, ChoosePrimary, PassComplete, QuietInv, RenewedAll,
                Quiet, boundVars, histVars, WhileDown, AfterDown
  <2>4. ASSUME Quiet, ChoosePrimary(i) PROVE Left' \subseteq {target'}
    <3>1. i \in Left /\ target' = i /\ ~PassFails
      BY <2>4 DEF ChoosePrimary, PassComplete, PassFails, Left
    <3>2. \A j \in Left : j = i
      BY <2>4, <3>1 DEF QuietInv, LeftPlace, ChoosePrimary, PassComplete
    <3> QED BY <2>1, <3>1, <3>2
  <2>5. Quiet' => LeftPlace'
    BY <1>3, <2>4 DEF ChooseNonPrimary, ChoosePrimary, PassComplete, LeftPlace, Quiet,
                      boundVars, RestartSteps
  <2> QED BY <2>2, <2>3, <2>5 DEF QuietInv
<1>4. ASSUME NEW i \in Instances, PrimaryAlreadyRestarted(i) PROVE QuietInv'
  <2>1. Left' = Left /\ i \in SeenPrimary /\ i \notin Left /\ ~PassFails
    BY <1>4 DEF PrimaryAlreadyRestarted, PassComplete, PassFails, Left, IsFirst
  <2>2. ASSUME Quiet, Dead = {} PROVE Left = {}
    <3>1. Left \subseteq Primaries /\ i \in Primaries
      BY <1>4, <2>1, <2>2
      DEF QuietInv, LeftPlace, PrimaryAlreadyRestarted, PassComplete
    <3> QED BY <2>1, <3>1 DEF KnowInv, LookInv, Primaries, Left
  <2> QED BY <1>4, <2>1, <2>2, PassQuiet
          DEF PrimaryAlreadyRestarted, Phases, QuietInv, RenewedAll
<1>5. CASE NonPrimariesDone
  <2>1. Left' = Left /\ Left \subseteq SeenPrimary
    BY <1>5 DEF NonPrimariesDone, NonPrimaryToRestart, SeenPrimary, Left
  <2>2. ASSUME Quiet, Dead = {} PROVE Left \subseteq Primaries /\ \A i, j \in Left : i = j
    <3>1. SeenPrimary \subseteq Primaries
      BY <1>5, <2>2 DEF NonPrimariesDone, PassComplete, QuietInv, LeftPlace
    <3> QED BY <2>1, <3>1 DEF KnowInv, LookInv, Primaries
  <2> QED BY <1>5, <2>1, <2>2, PassQuiet
          DEF NonPrimariesDone, Phases, QuietInv, RenewedAll
<1>6. CASE NoPrimaryFound
  BY <1>6, FailQuiet DEF NoPrimaryFound, Fail, Quiet, boundVars
<1>7. CASE Finish
  <2>1. Starting' = Starting
    BY <1>7 DEF Finish, Starting
  <2>2. StartingInv'
    BY <1>7, <2>1 DEF Finish, End, QuietInv, StartingInv, Starting, BeforeDown,
                      WhileDown, AtTarget
  <2>3. ASSUME Quiet PROVE booted = Instances
    <3>1. Left = {}
      BY <1>7, <2>3 DEF Finish, PassComplete, PassFails, QuietInv, LeftPlace
    <3> QED BY <2>3, <3>1 DEF QuietInv, RenewedAll, Left, TypeOK, HistTypeOK
  <2>4. Quiet' => RenewedAll' /\ LeftPlace'
    BY <1>7, <2>3 DEF Finish, End, RenewedAll, LeftPlace, Quiet, boundVars, histVars,
                      WhileDown, AfterDown, RestartSteps
  <2> QED BY <2>2, <2>4 DEF QuietInv
<1> QED BY <1>1, <1>2, <1>3, <1>4, <1>5, <1>6, <1>7 DEF Look

LEMMA HandOverQuiet == TypeOK /\ QuietInv /\ HandOver => QuietInv'
<1> SUFFICES ASSUME TypeOK, QuietInv, HandOver PROVE QuietInv'
  OBVIOUS
<1> USE DEF envVars, boundVars, Quiet
<1>1. CASE Connect
  BY <1>1 DEF Connect, QuietInv, StartingInv, RenewedAll, LeftPlace, Starting, Left,
              BeforeDown, WhileDown, AfterDown, AtTarget, RestartSteps, histVars
<1>2. CASE ConnectFails \/ NewPrimaryTimeout
  BY <1>2, FailQuiet DEF ConnectFails, NewPrimaryTimeout, Fail
<1>3. ASSUME NEW p \in Instances, StepDown(p) PROVE QuietInv'
  <2>1. Starting' = Starting
    BY <1>3 DEF StepDown, Starting, TypeOK, EnvTypeOK
  <2>2. StartingInv'
    BY <1>3, <2>1 DEF StepDown, QuietInv, StartingInv, BeforeDown, WhileDown, AtTarget
  <2>3. Quiet' => RenewedAll' /\ LeftPlace'
    BY <1>3 DEF StepDown, QuietInv, RenewedAll, LeftPlace, Left, WhileDown, AfterDown,
                RestartSteps, histVars
  <2> QED BY <2>2, <2>3 DEF QuietInv
<1>4. CASE StepDownAttemptFails
  <2>1. CASE attempts = Retries
    BY <1>4, <2>1, FailQuiet DEF StepDownAttemptFails, Fail
  <2>2. CASE attempts # Retries
    BY <1>4, <2>2
    DEF StepDownAttemptFails, QuietInv, StartingInv, RenewedAll, LeftPlace, Starting,
        Left, WhileDown, AfterDown, RestartSteps, histVars
  <2> QED BY <2>1, <2>2
<1>5. CASE NewPrimaryFound
  BY <1>5, GoToQuiet DEF NewPrimaryFound, RestartSteps, BeforeDown, WhileDown, AfterDown
<1> QED BY <1>1, <1>2, <1>3, <1>4, <1>5 DEF HandOver

LEMMA ForceRemoveQuiet ==
  ASSUME TypeOK, QuietInv, target \in Instances, pc = "start", ForceRemove,
         GoTo("create"), Quiet' => Quiet
  PROVE  QuietInv'
<1>1. container'[target] # "running"
  BY DEF ForceRemove, TargetDown, TypeOK, EnvTypeOK
<1>2. CASE container[target] = "running"
  BY <1>1, <1>2, TargetQuiet DEF ForceRemove, TargetDown, AtTarget, WhileDown
<1>3. CASE container[target] # "running"
  BY <1>1, <1>3, GoToQuiet DEF ForceRemove, AtTarget, WhileDown, AfterDown, RestartSteps
<1> QED BY <1>2, <1>3

LEMMA RestartQuiet == TypeOK /\ QuietInv /\ Restart => QuietInv'
<1> SUFFICES ASSUME TypeOK, QuietInv, Restart PROVE QuietInv'
  OBVIOUS
<1> USE DEF envVars, boundVars, Quiet
<1>0. pc \in RestartSteps => target \in Instances
  BY DEF TypeOK
<1>1. CASE StopFindsRunning \/ StopSkips
  BY <1>1, GoToQuiet
  DEF StopFindsRunning, StopSkips, RestartSteps, BeforeDown, WhileDown, AfterDown
<1>2. CASE RemoveStopped
  <2>1. container'[target] # "running"
    BY <1>0, <1>2 DEF RemoveStopped, RestartSteps, TypeOK, EnvTypeOK
  <2> QED BY <1>2, <2>1, GoToQuiet
          DEF RemoveStopped, RestartSteps, AtTarget, WhileDown, AfterDown
<1>3. CASE StartFindsNothing
  BY <1>3, GoToQuiet DEF StartFindsNothing, RestartSteps, AtTarget, WhileDown, AfterDown
<1>4. CASE StartFindsRunning
  <2>1. ~Quiet'
    BY <1>4 DEF StartFindsRunning, QuietInv, RenewedAll, WhileDown
  <2> QED BY <1>4, <2>1, GoToQuiet
          DEF StartFindsRunning, RestartSteps, AtTarget, WhileDown, AfterDown
<1>5. CASE Listening
  BY <1>5, GoToQuiet DEF Listening, RestartSteps, WhileDown, AfterDown
<1>6. CASE StateReached
  BY <1>6, GoToQuiet DEF StateReached, RestartSteps, WhileDown, AfterDown
<1>7. CASE CreateConflicts \/ NotListening \/ StateTimeout \/ HealthFails
  BY <1>7, FailQuiet DEF CreateConflicts, NotListening, StateTimeout, HealthFails, Fail
<1>8. CASE Kill
  <2>1. container'[target] # "running"
    BY <1>0, <1>8 DEF Kill, TargetDown, RestartSteps, TypeOK, EnvTypeOK
  <2> QED BY <1>0, <1>8, <2>1, TargetQuiet
          DEF Kill, TargetDown, RestartSteps, AtTarget, BeforeDown, WhileDown
<1>9. CASE KillFindsStopped
  <2>1. CASE force
    BY <1>9, <2>1, FailQuiet DEF KillFindsStopped, Fail
  <2>2. CASE ~force
    BY <1>9, <2>2, GoToQuiet
    DEF KillFindsStopped, RestartSteps, BeforeDown, WhileDown, AfterDown
  <2> QED BY <2>1, <2>2
<1>10. CASE StartFindsOutdated
  BY <1>0, <1>10, ForceRemoveQuiet DEF StartFindsOutdated, RestartSteps
<1>11. CASE StartFindsStopped \/ Create
  BY <1>0, <1>11, TargetQuiet
  DEF StartFindsStopped, Create, TargetBoots, RestartSteps, AtTarget, WhileDown
<1>12. CASE MarkRestarted
  <2>1. Left' = Left \ {target}
    BY <1>12 DEF MarkRestarted, Left
  <2>2. Quiet => restarted' \subseteq booted'
    BY <1>12 DEF MarkRestarted, QuietInv, RenewedAll, AfterDown
  <2>3. Quiet /\ phase # "secondaries" => Left' = {}
    BY <1>12, <2>1 DEF MarkRestarted, QuietInv, LeftPlace, RestartSteps
  <2> QED BY <1>12, <2>2, <2>3, PassQuiet DEF MarkRestarted, Phases
<1> QED BY <1>1, <1>2, <1>3, <1>4, <1>5, <1>6, <1>7, <1>8, <1>9,
          <1>10, <1>11, <1>12 DEF Restart

LEMMA DockerFaultQuiet == TypeOK /\ QuietInv /\ DockerFault => QuietInv'
<1> SUFFICES ASSUME TypeOK, QuietInv, DockerFault PROVE QuietInv'
  OBVIOUS
<1>1. ~Quiet'
  BY DEF DockerFault, StopInspectFault, CommandFault, CreateFault, RemoveFault,
         StartExistsFault, StartHashFault, UseFault, Quiet, TypeOK, BoundTypeOK
<1> USE DEF envVars
<1>2. CASE StopInspectFault
  BY <1>1, <1>2, GoToQuiet DEF StopInspectFault, RestartSteps, BeforeDown
<1>3. CASE CommandFault \/ CreateFault
  <2>1. Starting' = Starting
    BY <1>3 DEF CommandFault, CreateFault, Starting
  <2> QED BY <1>1, <1>3, <2>1
          DEF CommandFault, CreateFault, Fail, End, QuietInv, StartingInv, Starting,
              BeforeDown, WhileDown, AtTarget
<1>4. CASE RemoveFault \/ StartExistsFault
  BY <1>1, <1>4, GoToQuiet
  DEF RemoveFault, StartExistsFault, RestartSteps, AtTarget, WhileDown
<1>5. CASE StartHashFault
  BY <1>1, <1>5, ForceRemoveQuiet DEF StartHashFault, TypeOK, RestartSteps
<1> QED BY <1>2, <1>3, <1>4, <1>5 DEF DockerFault

\* While nobody is gone the primary keeps its majority: only one may be booting.
LEMMA PrimaryStays ==
  ASSUME TypeOK, QuietInv, ReplicaSet, Quiet', Dead' = {}
  PROVE  Dead = {} /\ Primaries \subseteq Primaries'
<1>1. Dead = {} /\ ~\E i \in Instances : Crash(i) \/ Failover(i)
  BY DEF ReplicaSet, Boot, CatchUp, Elect, Thaw, LoseMajority, Failover, Crash,
         RoleBecomes, Dead, Quiet, TypeOK, EnvTypeOK, BoundTypeOK
<1>2. PICK x \in Instances : Starting \subseteq {x}
  <2>1. CASE Starting = {}
    BY <2>1, NAssumption DEF Instances
  <2>2. CASE Starting # {}
    BY <2>2 DEF QuietInv, StartingInv, Starting
  <2> QED BY <2>1, <2>2
<1>3. HasMajority
  <2>1. Instances \ {x} \subseteq Voters /\ Voters \in SUBSET Instances
    BY <1>1, <1>2 DEF Starting, Dead, Voters, Reports, Roles, TypeOK, EnvTypeOK
  <2> QED BY <2>1, AllButOneIsMajority DEF HasMajority
<1> QED BY <1>1, <1>3
        DEF ReplicaSet, Boot, CatchUp, Elect, Thaw, LoseMajority, RoleBecomes, Primaries,
            TypeOK, EnvTypeOK

LEMMA ReplicaSetQuiet == TypeOK /\ QuietInv /\ ReplicaSet => QuietInv'
<1> SUFFICES ASSUME TypeOK, QuietInv, ReplicaSet PROVE QuietInv'
  OBVIOUS
<1>1. UNCHANGED <<cliVars, booted>> /\ Starting' \subseteq Starting /\ Dead \subseteq Dead'
  BY DEF ReplicaSet, Boot, CatchUp, Elect, Thaw, LoseMajority, Failover, Crash,
         RoleBecomes, Starting, Dead, cliVars, histVars, TypeOK, EnvTypeOK
<1>2. StartingInv'
  BY <1>1 DEF QuietInv, StartingInv, cliVars
<1>3. Quiet' => Quiet
  BY DEF ReplicaSet, Boot, CatchUp, Elect, Thaw, LoseMajority, Failover, Crash, Quiet,
         boundVars, TypeOK, BoundTypeOK
<1>4. \A i \in Instances : container'[i] = "running" => container[i] = "running"
  BY DEF ReplicaSet, Boot, CatchUp, Elect, Thaw, LoseMajority, Failover, Crash,
         TypeOK, EnvTypeOK
<1>5. Quiet' => RenewedAll'
  BY <1>1, <1>3, <1>4
  DEF QuietInv, RenewedAll, cliVars, WhileDown, RestartSteps, TypeOK
<1>6. Left' = Left /\ SeenPrimary' = SeenPrimary /\ (PassFails => PassFails')
  BY <1>1 DEF Left, SeenPrimary, PassFails, cliVars
<1>7. Quiet' => LeftPlace'
  BY <1>1, <1>3, <1>6, PrimaryStays DEF QuietInv, LeftPlace, cliVars
<1> QED BY <1>2, <1>5, <1>7 DEF QuietInv

LEMMA OperatorQuiet == TypeOK /\ PlanInv /\ QuietInv /\ Operator => QuietInv'
<1> SUFFICES ASSUME TypeOK, PlanInv, QuietInv, Operator PROVE QuietInv'
  OBVIOUS
<1> USE DEF envVars, boundVars, Quiet
<1>1. CASE Interrupt
  BY <1>1, FailQuiet DEF Interrupt, Fail
<1>2. CASE Rerun
  <2>1. Starting' = Starting /\ SeenPrimary' = {}
    BY <1>2 DEF Rerun, BeginPass, Starting, SeenPrimary, NothingSeen, Unseen
  <2>2. StartingInv'
    BY <1>2, <2>1 DEF Rerun, BeginPass, QuietInv, StartingInv, Starting, BeforeDown,
                      WhileDown, AtTarget
  <2>3. restarted' = {}
    BY <1>2 DEF Rerun, PlanInv, RenewedPlace
  <2> QED BY <1>2, <2>1, <2>2, <2>3
          DEF Rerun, BeginPass, QuietInv, RenewedAll, LeftPlace, WhileDown, AfterDown,
              RestartSteps
<1> QED BY <1>1, <1>2 DEF Operator

LEMMA QuietInvHolds == Spec => []QuietInv
<1>1. TypeOK /\ PlanInv /\ KnowInv /\ QuietInv /\ Next => QuietInv'
  BY LookQuiet, HandOverQuiet, RestartQuiet, DockerFaultQuiet, ReplicaSetQuiet,
     OperatorQuiet
  DEF Next, Command
<1>2. QuietInv /\ UNCHANGED vars => QuietInv'
  BY DEF vars, envVars, cliVars, histVars, boundVars, QuietInv, StartingInv, RenewedAll,
         LeftPlace, PassFails, Quiet, Starting, Dead, Left, Primaries, SeenPrimary
<1>3. TypeOK /\ PlanInv /\ KnowInv /\ QuietInv /\ [Next]_vars => QuietInv'
  BY <1>1, <1>2
<1> QED BY <1>3, InitQuietInv, PlanInvHolds, KnowInvHolds, PTL DEF Spec

\* "Restarts secondaries first, then the primary": unless the primary changes by
\* itself or a Docker command fails, "done" means that every member of the set runs
\* a new mongod, whoever died, and however often earlier runs were interrupted.
THEOREM QuietRunsAreComplete == Spec => []QuietRunIsComplete
<1>1. QuietInv => QuietRunIsComplete
  BY DEF QuietInv, Quiet, LeftPlace, QuietRunIsComplete
<1> QED BY <1>1, QuietInvHolds, PTL

=============================================================================
