---------------------------- MODULE RollingPlan ----------------------------
(***************************************************************************)
(* What a rolling restart promises, without mongod, Docker or elections:   *)
(* an orchestrator renews the members of a set, keeps at most one of them  *)
(* out of service, and takes each of them out at most once per run.  A run *)
(* may be abandoned anywhere and another one begun.                        *)
(*                                                                         *)
(* MongoRollingRestart implements this specification.                      *)
(***************************************************************************)
CONSTANT Member

VARIABLES
  down,      \* members the orchestrator took out and has not brought back
  renewed    \* members brought back by the current run

planVars == <<down, renewed>>

PlanTypeOK ==
  /\ down \in SUBSET Member
  /\ renewed \in SUBSET Member

PlanInit ==
  /\ down = {}
  /\ renewed = {}

\* Take a member out: nobody else is out, and this run has not renewed it yet.
TakeDown(m) ==
  /\ down = {}
  /\ m \notin renewed
  /\ down' = {m}
  /\ UNCHANGED renewed

\* Bring a member back with a new process.  The member may also have died on
\* its own, in which case nobody was out.
Renew(m) ==
  /\ down \subseteq {m}
  /\ m \notin renewed
  /\ down' = {}
  /\ renewed' = renewed \union {m}

\* Another run: what an abandoned run left out stays out.
NewRun ==
  /\ renewed' = {}
  /\ UNCHANGED down

PlanNext ==
  \/ \E m \in Member : TakeDown(m) \/ Renew(m)
  \/ NewRun

PlanSpec == PlanInit /\ [][PlanNext]_planVars

\* At any moment at most one member is out of service at the orchestrator's hand.
OneOut == \A a, b \in down : a = b

=============================================================================
