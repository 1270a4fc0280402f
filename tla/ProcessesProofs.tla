-------------------------- MODULE ProcessesProofs --------------------------
(***************************************************************************)
(* Theorems about Processes, for any pids, calls and bounds.               *)
(***************************************************************************)
EXTENDS Processes, TLAPS

-----------------------------------------------------------------------------
(***************************************************************************)
(* Processes, their parents and groups.                                    *)
(***************************************************************************)

\* What is in the state: processes, and pids where pids are expected.
Shape ==
  /\ proc \in [Pid -> Process \union {Gone}]
  /\ pids \subseteq Pid /\ walk \subseteq Pid

\* The pid of a group is that of its leader or of nobody.
Leads == \A d, e \in Alive : proc[e].group = d => proc[d].group = d

LEMMA WithoutTyped ==
  ASSUME proc \in [Pid -> Process \union {Gone}], NEW Q
  PROVE  Without(Q) \in [Pid -> Process \union {Gone}]
<1>1. \A r \in Process : [r EXCEPT !.parent = InitPid] \in Process
  BY DEF Process
<1>2. \A q \in Pid : (IF q \in Q \/ proc[q] = Gone THEN Gone
                      ELSE IF proc[q].parent \in Q THEN [proc[q] EXCEPT !.parent = InitPid]
                      ELSE proc[q]) \in Process \union {Gone}
  BY <1>1
<1>3. QED
  BY <1>2 DEF Without

\* What a process that ends leaves as it was.
LEMMA WithoutLeaves ==
  ASSUME proc \in [Pid -> Process \union {Gone}], NEW Q, proc' = Without(Q)
  PROVE  /\ proc' \in [Pid -> Process \union {Gone}]
         /\ Alive' = Alive \ Q
         /\ \A k \in Alive' : proc'[k].group = proc[k].group
         /\ \A k, c \in Pid : k \notin Q /\ c \in ChildrenOf(k) =>
              c \in Q \/ c \in ChildrenOf(k)'
         /\ \A k \in Alive' : /\ proc'[k].ours = proc[k].ours
                              /\ proc'[k].parent = IF proc[k].parent \in Q THEN InitPid
                                                   ELSE proc[k].parent
<1> USE PidAssumption
<1>1. \A r \in Process : /\ [r EXCEPT !.parent = InitPid] \in Process
                         /\ [r EXCEPT !.parent = InitPid].group = r.group
                         /\ [r EXCEPT !.parent = InitPid].ours = r.ours
                         /\ [r EXCEPT !.parent = InitPid].parent = InitPid
  BY DEF Process
<1>2. proc' \in [Pid -> Process \union {Gone}]
  BY WithoutTyped
<1>3. \A q \in Pid :
        proc'[q] = IF q \in Q \/ proc[q] = Gone THEN Gone
                   ELSE IF proc[q].parent \in Q THEN [proc[q] EXCEPT !.parent = InitPid]
                   ELSE proc[q]
  BY DEF Without
<1>4. Alive' = Alive \ Q
  <2>1. \A q \in Pid : proc[q] # Gone => [proc[q] EXCEPT !.parent = InitPid] # Gone
    BY <1>1
  <2>2. \A q \in Pid : proc'[q] # Gone <=> proc[q] # Gone /\ q \notin Q
    BY <1>3, <2>1
  <2>3. QED
    BY <2>2 DEF Alive
<1>5. \A k \in Alive' : proc'[k].group = proc[k].group
  BY <1>1, <1>3, <1>4 DEF Alive
<1>6. ASSUME NEW k \in Pid, NEW c \in Pid, k \notin Q, c \in ChildrenOf(k), c \notin Q
      PROVE  c \in ChildrenOf(k)'
  <2>1. c \in Alive /\ proc[c].parent = k
    BY <1>6 DEF ChildrenOf
  <2>2. proc'[c] = proc[c]
    BY <2>1, <1>3, <1>6 DEF Alive
  <2>3. QED
    BY <1>4, <1>6, <2>1, <2>2 DEF ChildrenOf
<1>7. ASSUME NEW k \in Alive'
      PROVE  /\ proc'[k].ours = proc[k].ours
             /\ proc'[k].parent = IF proc[k].parent \in Q THEN InitPid ELSE proc[k].parent
  <2>1. k \in Pid /\ k \notin Q /\ proc[k] # Gone /\ proc[k] \in Process
    BY <1>4 DEF Alive
  <2>2. proc'[k] = IF proc[k].parent \in Q THEN [proc[k] EXCEPT !.parent = InitPid] ELSE proc[k]
    BY <1>3, <2>1
  <2>3. QED
    BY <1>1, <2>1, <2>2
<1>8. QED
  BY <1>2, <1>4, <1>5, <1>6, <1>7

LEMMA LeadsKept ==
  ASSUME Leads, Alive' \subseteq Alive, \A k \in Alive' : proc'[k].group = proc[k].group
  PROVE  Leads'
BY DEF Leads

\* A pid that was free gets a process.
LEMMA BirthDoes ==
  ASSUME proc \in [Pid -> Process \union {Gone}], Leads, NEW c \in Free, NEW r \in Process,
         proc' = [proc EXCEPT ![c] = r],
         r.group = c \/ \E q \in Alive : r.group = proc[q].group
  PROVE  /\ proc' \in [Pid -> Process \union {Gone}]
         /\ c \in Pid /\ c \notin Alive /\ Group(c) = {}
         /\ Alive' = Alive \union {c}
         /\ \A q \in Pid : proc'[q] = IF q = c THEN r ELSE proc[q]
         /\ Leads'
<1> USE PidAssumption
<1>1. c \in Pid /\ c \notin Alive /\ proc[c] = Gone /\ Group(c) = {}
  BY DEF Free, Alive
<1>2. \A q \in Pid : proc'[q] = IF q = c THEN r ELSE proc[q]
  OBVIOUS
<1>3. Alive' = Alive \union {c}
  <2>1. \A q \in Pid : proc'[q] # Gone <=> proc[q] # Gone \/ q = c
    BY <1>2
  <2>2. QED
    BY <1>1, <2>1 DEF Alive
<1>4. Leads'
  <2>1. \A e \in Alive : e # c /\ proc'[e] = proc[e] /\ proc[e].group # c
    BY <1>1, <1>2 DEF Group, Alive
  <2>2. proc'[c] = r
    BY <1>1, <1>2
  <2>3. SUFFICES ASSUME NEW d \in Alive', NEW e \in Alive', proc'[e].group = d
                 PROVE  proc'[d].group = d
    BY DEF Leads
  <2>4. CASE e = c
    BY <1>3, <2>1, <2>2, <2>3, <2>4 DEF Leads
  <2>5. CASE e \in Alive
    BY <1>3, <2>1, <2>2, <2>3, <2>5 DEF Leads
  <2>6. QED
    BY <1>3, <2>4, <2>5
<1>5. QED
  BY <1>1, <1>2, <1>3, <1>4

-----------------------------------------------------------------------------
(***************************************************************************)
(* Whom the signals reach.                                                 *)
(***************************************************************************)

\* The processes of a group are all ours or all others', and so are a parent and its
\* children.
Kindred == \A d, e \in Alive : proc[d].group = proc[e].group => proc[d].ours = proc[e].ours
Families ==
  \A d \in Alive : \/ proc[d].parent = InitPid
                   \/ /\ proc[d].parent \in Alive
                      /\ proc[d].ours = proc[proc[d].parent].ours
Table == Shape /\ Leads /\ Kindred /\ Families

\* The pid in an accurate file is one of ours.
FileIsOurs == accurate => file \in Alive /\ proc[file].ours

\* There is a reason to signal what was found, and the groups it leads.
Fair(q) == proc[q].ours \/ q \in exposed
FoundFairly ==
  \A n \in pids : /\ n \in Alive => Fair(n)
                  /\ opts.stopProcessGroup => \A e \in Group(n) : Fair(e)

\* Reasons are passed on.
ExposedFollow == exposed \subseteq Alive /\ \A k \in exposed : Follow(k) \subseteq exposed

\* Children are asked for only with that option, and nothing is known before the
\* file is read.
Asked == walk \subseteq pids /\ (walk # {} => opts.stopChildren)
NothingYet == ending \in {"idle", "file", "ended"} => pids = {} /\ walk = {} /\ exposed = {}

CallInv == FoundFairly /\ ExposedFollow /\ Asked /\ NothingYet /\ OnlyOursHit
HitInv == Table /\ FileIsOurs /\ CallInv

\* Whom a call signals because of processes: them, and what follows.
LEMMA KinClosed ==
  ASSUME NEW Q \in SUBSET Alive
  PROVE  /\ Q \subseteq Kin(Q) /\ Kin(Q) \subseteq Alive
         /\ \A k \in Kin(Q) : Follow(k) \subseteq Kin(Q)
<1>1. Q \subseteq Kin(Q) /\ Kin(Q) \subseteq Alive
  BY DEF Kin
<1>2. ASSUME NEW k \in Kin(Q), NEW c \in Follow(k)
      PROVE  c \in Kin(Q)
  <2>1. c \in Alive
    BY <1>2 DEF Follow, ChildrenOf, Group
  <2>2. ASSUME NEW S \in SUBSET Alive, Q \subseteq S, \A e \in S : Follow(e) \subseteq S
        PROVE  c \in S
    BY <1>2, <2>2 DEF Kin
  <2>3. QED
    BY <2>1, <2>2 DEF Kin
<1>3. QED
  BY <1>1, <1>2

\* A signal meets nobody innocent.
LEMMA NobodyInnocent ==
  ASSUME HitInv
  PROVE  Innocent(Reached) = {}
<1>1. ASSUME NEW q \in Reached PROVE Fair(q)
  <2>1. PICK n \in pids : q \in IF opts.stopProcessGroup /\ Group(n) # {} THEN Group(n)
                                ELSE {n} \cap Alive
    BY <1>1 DEF Reached
  <2>2. QED
    BY <2>1 DEF HitInv, CallInv, FoundFairly, Fair
<1>2. QED
  BY <1>1 DEF Innocent, Fair

\* What ends takes nothing from the table but itself.
LEMMA EndKeeps ==
  ASSUME Table, FileIsOurs, NEW Q, End(Q), UNCHANGED file, pids' \subseteq Pid, walk' \subseteq Pid
  PROVE  Table' /\ FileIsOurs'
<1> USE DEF Table
<1>1. proc' = Without(Q) /\ accurate' = (accurate /\ file \notin Q)
  BY DEF End
<1>2. /\ proc' \in [Pid -> Process \union {Gone}]
      /\ Alive' = Alive \ Q
      /\ \A k \in Alive' : proc'[k].group = proc[k].group
      /\ \A k \in Alive' : /\ proc'[k].ours = proc[k].ours
                           /\ proc'[k].parent = IF proc[k].parent \in Q THEN InitPid
                                                ELSE proc[k].parent
  BY <1>1, WithoutLeaves DEF Shape
<1>3. Shape' /\ Leads'
  BY <1>2, LeadsKept DEF Shape
<1>4. Kindred'
  BY <1>2 DEF Kindred
<1>5. Families'
  BY <1>2 DEF Families
<1>6. FileIsOurs'
  BY <1>1, <1>2 DEF FileIsOurs
<1>7. QED
  BY <1>3, <1>4, <1>5, <1>6

\* A process ends by itself.
LEMMA ExitKeeps ==
  ASSUME HitInv, NEW q \in Pid, Exit(q)
  PROVE  HitInv'
<1> USE DEF HitInv, CallInv
<1>1. /\ End({q}) /\ proc' = Without({q}) /\ exposed' = exposed \ {q}
      /\ UNCHANGED <<file, ending, opts, pids, walk, hit>>
  BY DEF Exit, End, endVars
<1>2. Table' /\ FileIsOurs'
  BY <1>1, EndKeeps DEF Table, Shape
<1>3. /\ Alive' = Alive \ {q}
      /\ \A k \in Alive' : proc'[k].group = proc[k].group
      /\ \A k \in Alive' : /\ proc'[k].ours = proc[k].ours
                           /\ proc'[k].parent = IF proc[k].parent \in {q} THEN InitPid
                                                ELSE proc[k].parent
  BY <1>1, WithoutLeaves DEF Table, Shape
<1>4. \A n : Group(n)' \subseteq Group(n) \ {q}
  BY <1>3 DEF Group
<1>5. FoundFairly'
  <2>1. \A k \in Alive' : Fair(k) => Fair(k)'
    BY <1>1, <1>3 DEF Fair
  <2>2. \A n : Group(n)' \subseteq Alive'
    BY DEF Group
  <2>3. QED
    BY <1>1, <1>3, <1>4, <2>1, <2>2 DEF FoundFairly, Fair
<1>6. \A k \in Pid : Follow(k)' \subseteq Follow(k) \ {q}
  <2>1. \A k \in Pid : ChildrenOf(k)' \subseteq ChildrenOf(k) \ {q}
    BY <1>3, PidAssumption DEF ChildrenOf
  <2>2. QED
    BY <1>1, <1>4, <2>1 DEF Follow
<1>7. ExposedFollow'
  BY <1>1, <1>3, <1>6 DEF ExposedFollow, Alive
<1>8. Asked' /\ NothingYet' /\ OnlyOursHit'
  BY <1>1 DEF Asked, NothingYet, OnlyOursHit
<1>9. QED
  BY <1>2, <1>5, <1>7, <1>8

\* A process is born, of one that lives or of init: reasons are passed on if those who
\* have one, and the pids that were found, pass them to it.
LEMMA BirthKeeps ==
  ASSUME HitInv, NEW c \in Free, NEW r \in Process,
         proc' = [proc EXCEPT ![c] = r],
         \/ r.parent = InitPid
         \/ r.parent \in Alive /\ r.ours = proc[r.parent].ours,
         \/ r.group = c
         \/ r.parent \in Alive /\ r.group = proc[r.parent].group,
         exposed' \in {exposed, exposed \union {c}},
         c \in exposed' => c \in pids \/ r.parent \in exposed,
         c \in pids => c \in exposed' \/ r.ours,
         r.parent \in exposed /\ (opts.stopChildren \/ (opts.stopProcessGroup /\ r.group # c))
           => c \in exposed',
         UNCHANGED <<file, accurate, endVars, hit>>
  PROVE  HitInv'
<1> USE PidAssumption DEF HitInv, CallInv, Table
<1>1. UNCHANGED <<ending, opts, pids, walk>>
  BY DEF endVars
<1>2. /\ proc' \in [Pid -> Process \union {Gone}] /\ Leads'
      /\ c \in Pid /\ c \notin Alive /\ Group(c) = {}
      /\ Alive' = Alive \union {c}
      /\ \A q \in Pid : proc'[q] = IF q = c THEN r ELSE proc[q]
  BY BirthDoes DEF Shape
<1>3. /\ proc'[c] = r /\ Alive \subseteq Pid
      /\ \A e \in Alive : e # c /\ proc'[e] = proc[e] /\ proc[e].group # c /\ proc[e].parent # c
  <2>1. Alive \subseteq Pid
    BY DEF Alive
  <2>2. \A e \in Alive : proc[e].group # c
    BY <1>2 DEF Group
  <2>3. \A e \in Alive : proc[e].parent # c
    BY <1>2 DEF Families
  <2>4. QED
    BY <1>2, <2>1, <2>2, <2>3
<1>4. Table'
  <2>1. Shape'
    BY <1>1, <1>2 DEF Shape
  <2>2. Families'
    BY <1>2, <1>3 DEF Families
  <2>3. Kindred'
    <3>1. \A d \in Alive : proc[d].group = r.group => proc[d].ours = r.ours
      BY <1>3 DEF Kindred
    <3>2. QED
      BY <1>2, <1>3, <3>1 DEF Kindred
  <2>4. QED
    BY <1>2, <2>1, <2>2, <2>3
<1>5. FileIsOurs'
  BY <1>2, <1>3 DEF FileIsOurs
<1>6. /\ \A n : Group(n)' = Group(n) \union (IF r.group = n THEN {c} ELSE {})
      /\ \A n : ChildrenOf(n)' = ChildrenOf(n) \union (IF r.parent = n THEN {c} ELSE {})
  BY <1>2, <1>3 DEF Group, ChildrenOf
<1>7. r.group = c => r.group \notin Alive
  BY <1>2
<1>8. \A q \in Alive : Fair(q) => Fair(q)'
  BY <1>3 DEF Fair
<1>9. c \in pids => Fair(c)'
  BY <1>3 DEF Fair
<1>10. ASSUME NEW n \in pids, opts.stopProcessGroup, r.group = n
       PROVE  Fair(c)'
  <2>1. CASE n = c
    BY <1>9, <2>1
  <2>2. CASE n # c
    <3>1. r.parent \in Alive /\ r.parent \in Group(n) /\ r.ours = proc[r.parent].ours
      BY <1>10, <2>2 DEF Group, Alive
    <3>2. Fair(r.parent)
      BY <1>10, <3>1 DEF FoundFairly, Fair
    <3>3. QED
      BY <1>3, <1>10, <2>2, <3>1, <3>2 DEF Fair
  <2>3. QED
    BY <2>1, <2>2
<1>11. FoundFairly'
  <2>1. SUFFICES ASSUME NEW n \in pids
                 PROVE  /\ n \in Alive' => Fair(n)'
                        /\ opts.stopProcessGroup => \A e \in Group(n)' : Fair(e)'
    BY <1>1 DEF FoundFairly
  <2>2. n \in Alive' => Fair(n)'
    BY <1>2, <1>8, <1>9 DEF FoundFairly, Fair
  <2>3. ASSUME opts.stopProcessGroup, NEW e \in Group(n)'
        PROVE  Fair(e)'
    <3>1. CASE e \in Group(n)
      BY <1>8, <2>3, <3>1 DEF FoundFairly, Group, Fair
    <3>2. CASE e = c /\ r.group = n
      BY <1>10, <2>3, <3>2
    <3>3. QED
      BY <1>6, <3>1, <3>2
  <2>4. QED
    BY <2>2, <2>3
<1>12. ExposedFollow'
  <2>1. exposed' \subseteq Alive'
    BY <1>2 DEF ExposedFollow
  <2>2. ASSUME NEW k \in exposed PROVE Follow(k)' \subseteq exposed'
    <3>1. Follow(k) \subseteq exposed /\ k \in Alive /\ k # c
      BY <1>3 DEF ExposedFollow
    <3>2. opts.stopChildren /\ r.parent = k => c \in exposed'
      OBVIOUS
    <3>3. ASSUME opts.stopProcessGroup, r.group = k PROVE c \in exposed'
      <4>1. r.parent \in Group(k) /\ r.group # c
        BY <3>1, <3>3 DEF Group, Alive
      <4>2. r.parent \in exposed
        BY <3>1, <3>3, <4>1 DEF Follow
      <4>3. QED
        BY <3>3, <4>1, <4>2
    <3>4. QED
      BY <1>1, <1>6, <3>1, <3>2, <3>3 DEF Follow
  <2>3. ASSUME c \in exposed' PROVE Follow(c)' \subseteq exposed'
    <3>1. Group(c)' \subseteq {c}
      BY <1>2, <1>6
    <3>2. ChildrenOf(c)' = {}
      <4>1. ChildrenOf(c) = {}
        BY <1>3 DEF ChildrenOf
      <4>2. r.parent # c
        BY <1>2
      <4>3. QED
        BY <1>6, <4>1, <4>2
    <3>3. QED
      BY <2>3, <3>1, <3>2 DEF Follow
  <2>4. QED
    BY <2>1, <2>2, <2>3 DEF ExposedFollow
<1>13. Asked' /\ OnlyOursHit'
  BY <1>1 DEF Asked, OnlyOursHit
<1>14. NothingYet'
  <2>1. SUFFICES ASSUME ending \in {"idle", "file", "ended"} PROVE exposed' = {}
    BY <1>1 DEF NothingYet
  <2>2. QED
    BY <2>1 DEF NothingYet
<1>15. QED
  BY <1>4, <1>5, <1>11, <1>12, <1>13, <1>14

LEMMA ProcessesKeep ==
  ASSUME HitInv, NEW q \in Pid, NEW c \in Pid,
         Exit(q) \/ Fork(q, c) \/ Other(q) \/ Spawn(q)
  PROVE  HitInv'
<1> USE PidAssumption
<1>1. CASE Exit(q)
  BY <1>1, ExitKeeps
<1>2. CASE Fork(q, c)
  <2>1. PICK g \in {proc[q].group, c} :
          /\ proc' = [proc EXCEPT ![c] = [parent |-> q, group |-> g, ours |-> proc[q].ours]]
          /\ exposed' = IF \/ c \in pids
                           \/ q \in exposed
                              /\ (opts.stopChildren \/ (opts.stopProcessGroup /\ g # c))
                        THEN exposed \union {c} ELSE exposed
    BY <1>2 DEF Fork
  <2>2. q \in Alive /\ c \in Free /\ UNCHANGED <<file, accurate, endVars, hit>>
    BY <1>2 DEF Fork
  <2> DEFINE r == [parent |-> q, group |-> g, ours |-> proc[q].ours]
  <2>3. r \in Process /\ r.parent = q /\ r.group = g /\ r.ours = proc[q].ours
    BY <2>2 DEF Process, Alive, HitInv, Table, Shape
  <2>4. c \notin exposed
    BY <2>2 DEF HitInv, CallInv, ExposedFollow, Free
  <2> HIDE DEF r
  <2>5. QED
    BY <2>1, <2>2, <2>3, <2>4, BirthKeeps DEF r
<1>3. CASE Other(q)
  <2> DEFINE r == [parent |-> InitPid, group |-> q, ours |-> FALSE]
  <2>1. r \in Process /\ r.parent = InitPid /\ r.group = q
    BY DEF Process
  <2>2. /\ q \in Free /\ proc' = [proc EXCEPT ![q] = r]
        /\ exposed' = exposed \union ({q} \cap pids)
        /\ UNCHANGED <<file, accurate, endVars, hit>>
    BY <1>3 DEF Other
  <2>3. q \notin exposed /\ InitPid \notin exposed
    BY <2>2 DEF HitInv, CallInv, ExposedFollow, Free, Alive
  <2> HIDE DEF r
  <2>4. QED
    BY <2>1, <2>2, <2>3, BirthKeeps
<1>4. CASE Spawn(q)
  <2> DEFINE r == [parent |-> InitPid, group |-> q, ours |-> TRUE]
  <2>1. r \in Process /\ r.parent = InitPid /\ r.group = q /\ r.ours
    BY DEF Process
  <2>2. /\ q \in Free /\ proc' = [proc EXCEPT ![q] = r]
        /\ exposed' = exposed /\ UNCHANGED <<file, accurate, endVars, hit>>
    BY <1>4 DEF Spawn
  <2>3. q \notin exposed /\ InitPid \notin exposed
    BY <2>2 DEF HitInv, CallInv, ExposedFollow, Free, Alive
  <2> HIDE DEF r
  <2>4. QED
    BY <2>1, <2>2, <2>3, BirthKeeps
<1>5. QED
  BY <1>1, <1>2, <1>3, <1>4

\* The table of processes as it was.
LEMMA TableStays ==
  ASSUME HitInv, UNCHANGED <<proc, file>>, pids' \subseteq Pid, walk' \subseteq Pid
  PROVE  /\ Table' /\ Alive' = Alive /\ \A n : Group(n)' = Group(n)
         /\ opts' = opts => \A n : Follow(n)' = Follow(n)
         /\ accurate' = accurate => FileIsOurs'
BY DEF HitInv, Table, Shape, Leads, Kindred, Families, Alive, Group, Follow, ChildrenOf,
       FileIsOurs

\* The rest of startProcess.
LEMMA StartKeeps ==
  ASSUME HitInv, OpenPidFile \/ WritePIDs \/ KillStart
  PROVE  HitInv'
<1>1. UNCHANGED <<proc, exposed, hit, ending, opts, pids, walk>>
  BY DEF OpenPidFile, WritePIDs, KillStart, endVars
<1>2. Table' /\ CallInv'
  BY <1>1 DEF HitInv, Table, Shape, Leads, Kindred, Families, CallInv, FoundFairly, Fair,
              ExposedFollow, Asked, NothingYet, OnlyOursHit, Alive, Group, Follow, ChildrenOf
<1>3. FileIsOurs'
  BY <1>1 DEF HitInv, FileIsOurs, OpenPidFile, WritePIDs, KillStart, Alive
<1>4. QED
  BY <1>2, <1>3 DEF HitInv

\* The process in the file is ours, and its group is, or all that follows from it has
\* a reason.
LEMMA ReadPidFileKeeps ==
  ASSUME HitInv, ReadPidFile
  PROVE  HitInv'
<1> USE DEF HitInv, CallInv
<1>1. /\ ending = "file" /\ ending' = "ports"
      /\ UNCHANGED <<proc, file, accurate, opts, walk, hit>>
      /\ pids = {} /\ walk = {} /\ exposed = {}
  BY DEF ReadPidFile, NothingYet
<1>2. CASE ~(opts.file /\ file \in Alive)
  <2>1. pids' = {} /\ exposed' = {}
    BY <1>1, <1>2 DEF ReadPidFile
  <2>2. Table' /\ FileIsOurs'
    BY <1>1, <2>1, TableStays
  <2>3. CallInv'
    BY <1>1, <2>1 DEF FoundFairly, ExposedFollow, Asked, NothingYet, OnlyOursHit
  <2>4. QED
    BY <2>2, <2>3
<1>3. CASE opts.file /\ file \in Alive
  <2>1. pids' = {file} /\ exposed' = IF accurate THEN {} ELSE Kin({file})
    BY <1>3 DEF ReadPidFile
  <2>2. /\ Table' /\ FileIsOurs' /\ Alive' = Alive /\ \A n : Group(n)' = Group(n)
        /\ \A n : Follow(n)' = Follow(n)
    BY <1>1, <1>3, <2>1, TableStays DEF Alive
  <2>3. Asked' /\ NothingYet' /\ OnlyOursHit'
    BY <1>1, <2>1 DEF Asked, NothingYet, OnlyOursHit
  <2>4. CASE accurate
    <3>1. proc[file].ours
      BY <2>4 DEF FileIsOurs
    <3>2. \A e \in Group(file) : proc[e].ours
      BY <1>3, <3>1 DEF Group, Table, Leads, Kindred
    <3>3. FoundFairly'
      BY <1>1, <2>1, <2>2, <3>1, <3>2 DEF FoundFairly, Fair
    <3>4. ExposedFollow'
      BY <2>1, <2>4 DEF ExposedFollow
    <3>5. QED
      BY <2>2, <2>3, <3>3, <3>4
  <2>5. CASE ~accurate
    <3>1. /\ file \in exposed' /\ exposed' \subseteq Alive
          /\ \A k \in exposed' : Follow(k) \subseteq exposed'
      BY <1>3, <2>1, <2>5, KinClosed
    <3>2. opts.stopProcessGroup => Group(file) \subseteq exposed'
      BY <3>1 DEF Follow
    <3>3. FoundFairly'
      BY <1>1, <2>1, <2>2, <3>1, <3>2 DEF FoundFairly, Fair
    <3>4. ExposedFollow'
      BY <2>2, <3>1 DEF ExposedFollow
    <3>5. QED
      BY <2>2, <2>3, <3>3, <3>4
  <2>6. QED
    BY <2>4, <2>5
<1>4. QED
  BY <1>2, <1>3

\* Who has the port open has a reason, and what follows from them.
LEMMA FindByPortKeeps ==
  ASSUME HitInv, FindByPort
  PROVE  HitInv'
<1> USE DEF HitInv, CallInv
<1>1. PICK found \in SUBSET Alive :
        /\ pids' = pids \union found /\ exposed' = exposed \union Kin(found)
        /\ walk' = IF opts.stopChildren THEN pids \union found ELSE {}
  BY DEF FindByPort
<1>2. ending' = "children" /\ UNCHANGED <<proc, file, accurate, opts, hit>>
  BY DEF FindByPort
<1>3. /\ Table' /\ FileIsOurs' /\ Alive' = Alive /\ \A n : Group(n)' = Group(n)
      /\ \A n : Follow(n)' = Follow(n)
  BY <1>1, <1>2, TableStays DEF Alive, Table, Shape
<1>4. /\ found \subseteq Kin(found) /\ Kin(found) \subseteq Alive
      /\ \A k \in Kin(found) : Follow(k) \subseteq Kin(found)
  BY KinClosed
<1> HIDE DEF HitInv, CallInv
<1>5. FoundFairly'
  <2>1. SUFFICES ASSUME NEW n \in pids'
                 PROVE  /\ n \in Alive => Fair(n)'
                        /\ opts.stopProcessGroup => \A e \in Group(n) : Fair(e)'
    BY <1>2, <1>3 DEF FoundFairly
  <2>2. CASE n \in pids
    BY <1>1, <1>2, <2>2 DEF HitInv, CallInv, FoundFairly, Fair
  <2>3. CASE n \in found
    BY <1>1, <1>4, <2>3 DEF Fair, Follow
  <2>4. QED
    BY <1>1, <2>1, <2>2, <2>3
<1>6. ExposedFollow'
  BY <1>1, <1>3, <1>4 DEF HitInv, CallInv, ExposedFollow
<1>7. Asked' /\ NothingYet' /\ OnlyOursHit'
  BY <1>1, <1>2 DEF HitInv, CallInv, Asked, NothingYet, OnlyOursHit
<1>8. QED
  BY <1>3, <1>5, <1>6, <1>7 DEF HitInv, CallInv

\* The children of ours are ours, and those of one with a reason have it too.
LEMMA FindChildrenKeeps ==
  ASSUME HitInv, NEW q, FindChildren(q)
  PROVE  HitInv'
<1>1. /\ ending = "children" /\ q \in walk
      /\ pids' = pids \union ChildrenOf(q) /\ walk' = (walk \ {q}) \union ChildrenOf(q)
      /\ UNCHANGED <<proc, file, accurate, ending, opts, exposed, hit>>
  BY DEF FindChildren
<1>2. q \in pids /\ q \in Pid /\ opts.stopChildren /\ ChildrenOf(q) \subseteq Alive
  BY <1>1 DEF HitInv, CallInv, Asked, Table, Shape, ChildrenOf
<1>3. /\ Table' /\ FileIsOurs' /\ Alive' = Alive /\ \A n : Group(n)' = Group(n)
      /\ \A n : Follow(n)' = Follow(n)
  BY <1>1, <1>2, TableStays DEF Alive, HitInv, Table, Shape
<1>4. ASSUME NEW n \in ChildrenOf(q)
      PROVE  Fair(n) /\ (opts.stopProcessGroup => \A e \in Group(n) : Fair(e))
  <2>1. n \in Alive /\ proc[n].parent = q
    BY <1>4 DEF ChildrenOf
  <2>2. q \in Alive /\ proc[n].ours = proc[q].ours
    BY <1>2, <2>1, PidAssumption DEF HitInv, Table, Families
  <2>3. CASE proc[q].ours
    <3>1. \A e \in Group(n) : proc[e].ours
      BY <2>1, <2>2, <2>3 DEF Group, HitInv, Table, Leads, Kindred
    <3>2. QED
      BY <2>2, <2>3, <3>1 DEF Fair
  <2>4. CASE q \in exposed
    <3>1. n \in exposed
      BY <1>2, <1>4, <2>4 DEF HitInv, CallInv, ExposedFollow, Follow
    <3>2. opts.stopProcessGroup => Group(n) \subseteq exposed
      BY <3>1 DEF HitInv, CallInv, ExposedFollow, Follow
    <3>3. QED
      BY <3>1, <3>2 DEF Fair
  <2>5. QED
    BY <1>2, <2>2, <2>3, <2>4 DEF HitInv, CallInv, FoundFairly, Fair
<1>5. FoundFairly'
  BY <1>1, <1>3, <1>4 DEF HitInv, CallInv, FoundFairly, Fair
<1>6. ExposedFollow'
  BY <1>1, <1>3 DEF HitInv, CallInv, ExposedFollow
<1>7. Asked' /\ NothingYet' /\ OnlyOursHit'
  BY <1>1, <1>2 DEF HitInv, CallInv, Asked, NothingYet, OnlyOursHit
<1>8. QED
  BY <1>3, <1>5, <1>6, <1>7 DEF HitInv, CallInv

\* A call that knows nothing.
LEMMA NothingKnown ==
  ASSUME Table', FileIsOurs', hit' = {}, pids' = {}, walk' = {}, exposed' = {}
  PROVE  HitInv'
BY DEF HitInv, CallInv, FoundFairly, ExposedFollow, Asked, NothingYet, OnlyOursHit

\* The call begins, sends its signals and returns.
LEMMA SignalsKeep ==
  ASSUME HitInv, Begin \/ NothingFound \/ AllFound \/ Terminate \/ KillAfterWait
  PROVE  HitInv'
<1>1. hit' = {} /\ pids' \subseteq Pid /\ walk' \subseteq Pid /\ file' = file
  BY NobodyInnocent DEF HitInv, CallInv, Table, Shape, OnlyOursHit, Begin, NothingFound,
     AllFound, Terminate, KillAfterWait, Returns
<1>2. ~KillAfterWait => Table' /\ FileIsOurs'
  BY <1>1, TableStays DEF Begin, NothingFound, AllFound, Terminate
<1>3. CASE Begin
  <2>1. pids' = {} /\ walk' = {} /\ exposed' = {}
    BY <1>3 DEF Begin, HitInv, CallInv, NothingYet, Ending
  <2>2. ~KillAfterWait
    BY <1>3 DEF Begin, KillAfterWait, Ending
  <2>3. QED
    BY <1>1, <1>2, <2>1, <2>2, NothingKnown
<1>4. CASE NothingFound \/ (Terminate /\ ~opts.timeout)
  <2>1. pids' = {} /\ walk' = {} /\ exposed' = {}
    BY <1>4 DEF NothingFound, Terminate, Returns
  <2>2. ~KillAfterWait
    BY <1>4 DEF NothingFound, Terminate, KillAfterWait
  <2>3. QED
    BY <1>1, <1>2, <2>1, <2>2, NothingKnown
<1>5. CASE AllFound \/ (Terminate /\ opts.timeout)
  <2>1. /\ ending' \in {"term", "wait"} /\ ~KillAfterWait
        /\ UNCHANGED <<proc, opts, pids, walk, exposed>>
    BY <1>5 DEF AllFound, Terminate, KillAfterWait
  <2>2. CallInv'
    BY <1>1, <2>1 DEF HitInv, CallInv, FoundFairly, Fair, ExposedFollow, Asked, NothingYet,
                      OnlyOursHit, Alive, Group, Follow, ChildrenOf
  <2>3. QED
    BY <1>2, <2>1, <2>2 DEF HitInv
<1>6. CASE KillAfterWait
  <2>1. Table' /\ FileIsOurs'
    BY <1>1, <1>6, EndKeeps DEF KillAfterWait, HitInv
  <2>2. pids' = {} /\ walk' = {} /\ exposed' = {}
    BY <1>6 DEF KillAfterWait, Returns
  <2>3. QED
    BY <1>1, <2>1, <2>2, NothingKnown
<1>7. QED
  BY <1>3, <1>4, <1>5, <1>6

\* endPIDs signals a process that is not ours only if it had the port open, took over
\* a pid that was looked up before or the one in the file, or comes from such a process
\* by descent or by the group that one leads, whatever forks, ends and starts meanwhile.
THEOREM OthersAreSpared == Spec => []OnlyOursHit
<1>1. Init => HitInv
  <2> SUFFICES ASSUME Init PROVE HitInv
    OBVIOUS
  <2>1. Alive = {} /\ Shape
    BY DEF Init, Alive, Shape
  <2>2. QED
    BY <2>1 DEF Init, HitInv, Table, Leads, Kindred, Families, FileIsOurs, CallInv,
       FoundFairly, ExposedFollow, Asked, NothingYet, OnlyOursHit
<1>2. HitInv /\ [Next]_vars => HitInv'
  <2> SUFFICES ASSUME HitInv, [Next]_vars PROVE HitInv'
    OBVIOUS
  <2>1. CASE Next
    <3>1. ASSUME NEW q \in Pid, Exit(q) \/ Other(q) \/ Spawn(q)
          PROVE  HitInv'
      BY <3>1, ProcessesKeep
    <3>2. ASSUME NEW q \in Pid, FindChildren(q)
          PROVE  HitInv'
      BY <3>2, FindChildrenKeeps
    <3>3. ASSUME NEW q \in Pid, NEW c \in Pid, Fork(q, c)
          PROVE  HitInv'
      BY <3>3, ProcessesKeep
    <3>4. QED
      BY <2>1, <3>1, <3>2, <3>3, StartKeeps, ReadPidFileKeeps, FindByPortKeeps, SignalsKeep
      DEF Next
  <2>2. CASE UNCHANGED vars
    BY <2>2 DEF vars, endVars, HitInv, Table, Shape, Leads, Kindred, Families, FileIsOurs,
                CallInv, FoundFairly, Fair, ExposedFollow, Asked, NothingYet, OnlyOursHit,
                Alive, Group, Follow, ChildrenOf
  <2>3. QED
    BY <2>1, <2>2
<1>3. HitInv => OnlyOursHit
  BY DEF HitInv, CallInv
<1>4. QED
  BY <1>1, <1>2, <1>3, PTL DEF Spec

-----------------------------------------------------------------------------
(***************************************************************************)
(* The types of all variables.                                             *)
(***************************************************************************)

\* A call has no children to ask for before it has looked for anything, and
\* startProcess has a pid while it writes one.
Typed ==
  /\ TypeOK
  /\ ending \in {"idle", "file", "ports", "ended"} => walk = {}
  /\ starting # "idle" => started \in Pid

\* What becomes of processes.
LEMMA ProcessesTyped ==
  ASSUME Typed, NEW q \in Pid, NEW c \in Pid,
         Exit(q) \/ Fork(q, c) \/ Other(q) \/ Spawn(q)
  PROVE  Typed'
<1> USE BoundAssumption, PidAssumption DEF Typed, TypeOK
<1>1. CASE Exit(q)
  <2>1. proc' \in [Pid -> Process \union {Gone}] /\ accurate' \in BOOLEAN
    BY <1>1, WithoutTyped DEF Exit, End
  <2>2. QED
    BY <1>1, <2>1 DEF Exit, startVars, endVars
<1>2. CASE Fork(q, c)
  <2>1. proc[q] \in Process
    BY <1>2 DEF Fork, Alive
  <2>2. PICK g \in {proc[q].group, c} :
          /\ proc' = [proc EXCEPT ![c] = [parent |-> q, group |-> g, ours |-> proc[q].ours]]
          /\ due' = IF Ending /\ q \in due /\ opts.stopProcessGroup /\ g = leader
                    THEN due \union {c} ELSE due
          /\ exposed' \in {exposed, exposed \union {c}}
    BY <1>2 DEF Fork
  <2>3. [parent |-> q, group |-> g, ours |-> proc[q].ours] \in Process
    BY <2>1 DEF Process
  <2>4. proc' \in [Pid -> Process \union {Gone}] /\ {due', exposed'} \subseteq SUBSET Pid
    BY <2>2, <2>3
  <2>5. forks' \in 0..MaxForks
    BY <1>2 DEF Fork
  <2>6. QED
    BY <1>2, <2>4, <2>5 DEF Fork, startVars, endVars
<1>3. CASE Other(q)
  <2>1. [parent |-> InitPid, group |-> q, ours |-> FALSE] \in Process
    BY DEF Process
  <2>2. QED
    BY <1>3, <2>1 DEF Other, startVars, endVars
<1>4. CASE Spawn(q)
  <2>1. [parent |-> InitPid, group |-> q, ours |-> TRUE] \in Process
    BY DEF Process
  <2>2. QED
    BY <1>4, <2>1 DEF Spawn, endVars
<1>5. QED
  BY <1>1, <1>2, <1>3, <1>4

\* The rest of startProcess.
LEMMA StartTyped ==
  ASSUME Typed, OpenPidFile \/ WritePIDs \/ KillStart
  PROVE  Typed'
<1> USE DEF Typed, TypeOK
<1>1. accurate' \in BOOLEAN
  BY DEF OpenPidFile, WritePIDs, KillStart
<1>2. QED
  BY <1>1 DEF OpenPidFile, WritePIDs, KillStart, endVars

LEMMA ReachedAlive == Reached \subseteq Alive
BY DEF Reached, Group

\* What endPIDs does.
LEMMA EndTyped ==
  ASSUME Typed, NEW q,
         \/ Begin \/ ReadPidFile \/ FindByPort \/ NothingFound \/ FindChildren(q)
         \/ AllFound \/ Terminate \/ KillAfterWait
  PROVE  Typed'
<1> USE BoundAssumption, PidAssumption, CallAssumption DEF Typed, TypeOK
<1>1. NoOptions \in Options
  BY DEF NoOptions, Options
<1>2. CASE Begin
  BY <1>2 DEF Begin, Ending, startVars
<1>3. CASE ReadPidFile
  <2>1. /\ Alive \subseteq Pid /\ DueOf(file) \subseteq Pid \union {file}
        /\ Kin({file}) \subseteq Pid
    BY DEF Alive, DueOf, Descendants, Group, Kin
  <2>2. QED
    BY <1>3, <2>1 DEF ReadPidFile, startVars
<1>4. CASE FindByPort
  <2>1. PICK found \in SUBSET Pid :
          /\ pids' = pids \union found /\ exposed' = exposed \union Kin(found)
          /\ walk' = IF opts.stopChildren THEN pids \union found ELSE {}
    BY <1>4 DEF FindByPort, Alive
  <2>2. Kin(found) \subseteq Pid
    BY DEF Kin, Alive
  <2>3. QED
    BY <1>4, <2>1, <2>2 DEF FindByPort, startVars
<1>5. CASE FindChildren(q)
  <2>1. ChildrenOf(q) \subseteq Pid
    BY DEF ChildrenOf, Alive
  <2>2. QED
    BY <1>5, <2>1 DEF FindChildren, startVars
<1>6. CASE NothingFound
  BY <1>1, <1>6 DEF NothingFound, Returns, startVars
<1>7. CASE AllFound
  BY <1>7 DEF AllFound, startVars
<1>8. CASE Terminate
  <2>1. hit' \subseteq Pid
    BY <1>8, ReachedAlive DEF Terminate, Innocent, Alive
  <2>2. QED
    BY <1>1, <1>8, <2>1 DEF Terminate, Returns, startVars
<1>9. CASE KillAfterWait
  <2>1. hit' \subseteq Pid
    BY <1>9, ReachedAlive DEF KillAfterWait, Innocent, Alive
  <2>2. proc' \in [Pid -> Process \union {Gone}] /\ accurate' \in BOOLEAN
    BY <1>9, WithoutTyped DEF KillAfterWait, End
  <2>3. QED
    BY <1>1, <1>9, <2>1, <2>2 DEF KillAfterWait, Returns, startVars
<1>10. QED
  BY <1>2, <1>3, <1>4, <1>5, <1>6, <1>7, <1>8, <1>9

\* Every variable keeps its type: what endPIDs has found and has yet to ask for
\* their children are pids, and so is what startProcess writes.
THEOREM TypeCorrect == Spec => []TypeOK
<1>1. Init => Typed
  <2>1. NoOptions \in Options
    BY DEF NoOptions, Options
  <2>2. MaxStarts \in Nat /\ MaxForks \in Nat /\ MaxOthers \in Nat /\ MaxEnds \in Nat
    BY BoundAssumption
  <2> SUFFICES ASSUME Init PROVE Typed
    OBVIOUS
  <2>3. proc \in [Pid -> Process \union {Gone}]
    BY DEF Init
  <2>4. {exposed, due, hit} \subseteq SUBSET Pid
    BY DEF Init
  <2>5. /\ starts \in 0..MaxStarts /\ forks \in 0..MaxForks
        /\ others \in 0..MaxOthers /\ ends \in 0..MaxEnds
    BY <2>2 DEF Init
  <2>6. QED
    BY <2>1, <2>3, <2>4, <2>5 DEF Init, Typed, TypeOK
<1>2. Typed /\ [Next]_vars => Typed'
  <2> SUFFICES ASSUME Typed, [Next]_vars PROVE Typed'
    OBVIOUS
  <2>1. CASE Next
    <3>1. ASSUME NEW q \in Pid, NEW c \in Pid,
                 Exit(q) \/ Fork(q, c) \/ Other(q) \/ Spawn(q)
          PROVE  Typed'
      BY <3>1, ProcessesTyped
    <3>2. ASSUME NEW q \in Pid, FindChildren(q)
          PROVE  Typed'
      BY <3>2, EndTyped
    <3>3. CASE \E q \in Pid : Exit(q) \/ Other(q) \/ Spawn(q) \/ FindChildren(q)
      BY <3>1, <3>2, <3>3
    <3>4. CASE \E q, c \in Pid : Fork(q, c)
      BY <3>1, <3>4
    <3>5. CASE OpenPidFile \/ WritePIDs \/ KillStart
      BY <3>5, StartTyped
    <3>6. CASE \/ Begin \/ ReadPidFile \/ FindByPort \/ NothingFound \/ AllFound
               \/ Terminate \/ KillAfterWait
      BY <3>6, EndTyped
    <3>7. QED
      BY <2>1, <3>3, <3>4, <3>5, <3>6 DEF Next
  <2>2. CASE UNCHANGED vars
    BY <2>2 DEF vars, startVars, endVars, Typed, TypeOK
  <2>3. QED
    BY <2>1, <2>2
<1>3. Typed => TypeOK
  BY DEF Typed
<1>4. QED
  BY <1>1, <1>2, <1>3, PTL DEF Spec

-----------------------------------------------------------------------------
(***************************************************************************)
(* What a call that is to kill reaches.                                    *)
(***************************************************************************)

\* What the search gets to from what was found if nothing changes any more: all that
\* is in every set which has what was found and, of each of its processes, the
\* children,
Below(d) == \A S \in SUBSET Pid : pids \subseteq S /\ Closed(S) => d \in S

\* but for those that were asked for their children already.
Covers(S) == \A k \in S : k \in pids \ walk \/ ChildrenOf(k) \subseteq S
ToFind(d) == \A S \in SUBSET Pid : pids \subseteq S /\ Covers(S) => d \in S

\* How the call gets at a process that it has to end.
Reachable(d) ==
  \/ InGroupDue(d)
  \/ ending = "ports" /\ (d \in pids \/ (opts.stopChildren /\ Below(d)))
  \/ ending = "children" /\ ToFind(d)
  \/ ending \in {"term", "wait"} /\ d \in pids

\* All that a call has to end is alive, and it gets there.
DueInv ==
  /\ due \subseteq Alive
  /\ due # {} =>
       ending \in {"ports", "children", "term", "wait"} /\ opts.timeout /\ leader \in pids
  /\ \A d \in due : Reachable(d)

ReachInv == Shape /\ Leads /\ DueInv

LEMMA DescendantsClosed ==
  ASSUME NEW q \in Alive
  PROVE  /\ q \in Descendants(q) /\ Descendants(q) \subseteq Alive
         /\ \A k \in Descendants(q) : ChildrenOf(k) \subseteq Descendants(q)
<1>1. q \in Descendants(q) /\ Descendants(q) \subseteq Alive
  BY DEF Descendants
<1>2. ASSUME NEW k \in Descendants(q), NEW c \in ChildrenOf(k)
      PROVE  c \in Descendants(q)
  <2>1. c \in Alive
    BY <1>2 DEF ChildrenOf
  <2>2. ASSUME NEW S \in SUBSET Alive, q \in S, Closed(S)
        PROVE  c \in S
    BY <2>2, <1>2 DEF Descendants, Closed
  <2>3. QED
    BY <2>1, <2>2 DEF Descendants
<1>3. QED
  BY <1>1, <1>2

\* A process ends: what the call can reach no longer by way of it is not due any more,
\* and all else it reaches as before.
LEMMA ExitReaches ==
  ASSUME ReachInv, NEW q \in Pid, Exit(q)
  PROVE  ReachInv'
<1> USE DEF ReachInv
<1>1. /\ q \in Alive /\ proc' = Without({q})
      /\ due' = due \ ({q} \union
           (IF Listing THEN {d \in Descendants(q) : ~InGroupDue(d)} ELSE {}))
      /\ UNCHANGED endVars
  BY DEF Exit, End
<1>2. UNCHANGED <<ending, opts, pids, walk, leader>>
  BY <1>1 DEF endVars
<1>3. /\ proc' \in [Pid -> Process \union {Gone}]
      /\ Alive' = Alive \ {q}
      /\ \A k \in Alive' : proc'[k].group = proc[k].group
      /\ \A k, c \in Pid : k \notin {q} /\ c \in ChildrenOf(k) =>
           c \in {q} \/ c \in ChildrenOf(k)'
  BY <1>1, WithoutLeaves DEF Shape
<1>4. Shape' /\ Leads'
  BY <1>2, <1>3, LeadsKept DEF Shape
<1>5. due' \subseteq Alive'
  BY <1>1, <1>3 DEF DueInv
<1>6. \A d \in due' : InGroupDue(d) => InGroupDue(d)'
  BY <1>2, <1>3, <1>5 DEF InGroupDue
<1>7. ASSUME NEW S \in SUBSET Pid, NEW k \in S \union Descendants(q),
             k \in S => ChildrenOf(k)' \subseteq S
      PROVE  ChildrenOf(k) \subseteq S \union Descendants(q)
  <2>1. CASE k \in Descendants(q)
    BY <2>1, <1>1, DescendantsClosed
  <2>2. CASE k \in S /\ k # q
    <3>1. \A c \in ChildrenOf(k) : c = q \/ c \in ChildrenOf(k)'
      BY <1>3, <2>2 DEF ChildrenOf, Alive
    <3>2. QED
      BY <1>1, <1>7, <2>2, <3>1, DescendantsClosed
  <2>3. CASE k = q
    BY <2>3, <1>1, DescendantsClosed
  <2>4. QED
    BY <1>7, <2>1, <2>2, <2>3
<1>8. ASSUME NEW d \in due', Listing, ~InGroupDue(d)
      PROVE  d \notin Descendants(q)
  BY <1>1, <1>8
<1>9. Descendants(q) \subseteq Pid
  BY <1>1, DescendantsClosed DEF Alive
<1>10. ASSUME NEW d \in due', ~InGroupDue(d), ending = "ports", Below(d)
       PROVE  Below(d)'
  <2>1. SUFFICES ASSUME NEW S \in SUBSET Pid, pids \subseteq S, Closed(S)'
                 PROVE  d \in S
    BY <1>2 DEF Below
  <2>2. Closed(S \union Descendants(q))
    BY <1>7, <2>1 DEF Closed
  <2>3. d \in S \union Descendants(q)
    BY <1>9, <1>10, <2>1, <2>2 DEF Below
  <2>4. QED
    BY <1>8, <1>10, <2>3 DEF Listing
<1>11. ASSUME NEW d \in due', ~InGroupDue(d), ending = "children", ToFind(d)
       PROVE  ToFind(d)'
  <2>1. SUFFICES ASSUME NEW S \in SUBSET Pid, pids \subseteq S, Covers(S)'
                 PROVE  d \in S
    BY <1>2 DEF ToFind
  <2>2. Covers(S \union Descendants(q))
    <3>1. SUFFICES ASSUME NEW k \in S \union Descendants(q), ~(k \in pids \ walk)
                   PROVE  ChildrenOf(k) \subseteq S \union Descendants(q)
      BY DEF Covers
    <3>2. k \in S => ChildrenOf(k)' \subseteq S
      BY <1>2, <2>1, <3>1 DEF Covers
    <3>3. QED
      BY <1>7, <3>1, <3>2
  <2>3. d \in S \union Descendants(q)
    BY <1>9, <1>11, <2>1, <2>2 DEF ToFind
  <2>4. QED
    BY <1>8, <1>11, <2>3 DEF Listing
<1>12. \A d \in due' : Reachable(d)'
  <2>1. \A d \in due' : Reachable(d)
    BY <1>1 DEF DueInv
  <2>2. QED
    BY <1>2, <1>6, <1>10, <1>11, <2>1 DEF Reachable
<1>13. DueInv'
  BY <1>1, <1>2, <1>5, <1>12 DEF DueInv
<1>14. QED
  BY <1>4, <1>13


\* A pid that was free gets a process: all that was reached still is.
LEMMA BirthReaches ==
  ASSUME ReachInv, NEW c \in Free, NEW r \in Process,
         proc' = [proc EXCEPT ![c] = r],
         r.group = c \/ \E q \in Alive : r.group = proc[q].group,
         due' = due \/ (due' = due \union {c} /\ due # {} /\ opts.stopProcessGroup
                        /\ r.group = leader),
         UNCHANGED endVars
  PROVE  ReachInv'
<1> USE PidAssumption DEF ReachInv
<1>1. UNCHANGED <<ending, opts, pids, walk, leader>>
  BY DEF endVars
<1>2. /\ proc' \in [Pid -> Process \union {Gone}] /\ Leads'
      /\ c \in Pid /\ c \notin Alive
      /\ Alive' = Alive \union {c}
      /\ \A q \in Pid : proc'[q] = IF q = c THEN r ELSE proc[q]
  BY BirthDoes DEF Shape
<1>3. \A q \in Pid : proc'[q] = IF q = c THEN r ELSE proc[q]
  BY <1>2
<1>4. Shape'
  BY <1>1, <1>2 DEF Shape
<1>5. Alive' = Alive \union {c}
  BY <1>2
<1>6. Leads'
  BY <1>2
<1>7. \A k : ChildrenOf(k) \subseteq ChildrenOf(k)'
  BY <1>2, <1>3, <1>5 DEF ChildrenOf, Alive
<1>8. \A d : Below(d) => Below(d)'
  <2>1. \A S : Closed(S)' => Closed(S)
    BY <1>7 DEF Closed
  <2>2. QED
    BY <1>1, <2>1 DEF Below
<1>9. \A d : ToFind(d) => ToFind(d)'
  <2>1. \A S : Covers(S)' => Covers(S)
    BY <1>1, <1>7 DEF Covers
  <2>2. QED
    BY <1>1, <2>1 DEF ToFind
<1>10. \A d \in due : Reachable(d) => Reachable(d)'
  <2>1. \A d \in due : proc'[d] = proc[d]
    BY <1>2, <1>3 DEF DueInv, Alive
  <2>2. QED
    BY <1>1, <1>8, <1>9, <2>1 DEF Reachable, InGroupDue
<1>11. due' # due => InGroupDue(c)'
  BY <1>1, <1>2, <1>3 DEF InGroupDue
<1>12. DueInv'
  <2>1. due' \subseteq Alive'
    BY <1>5 DEF DueInv
  <2>2. \A d \in due' : Reachable(d)'
    BY <1>10, <1>11 DEF DueInv, Reachable
  <2>3. QED
    BY <1>1, <2>1, <2>2 DEF DueInv
<1>13. QED
  BY <1>4, <1>6, <1>12

\* Processes are started.
LEMMA StartsReach ==
  ASSUME ReachInv, NEW q \in Pid, NEW c \in Pid, Fork(q, c) \/ Other(q) \/ Spawn(q)
  PROVE  ReachInv'
<1>1. CASE Fork(q, c)
  <2>1. PICK g \in {proc[q].group, c} :
          /\ proc' = [proc EXCEPT ![c] = [parent |-> q, group |-> g, ours |-> proc[q].ours]]
          /\ due' = IF Ending /\ q \in due /\ opts.stopProcessGroup /\ g = leader
                    THEN due \union {c} ELSE due
    BY <1>1 DEF Fork
  <2>2. q \in Alive /\ c \in Free /\ UNCHANGED endVars
    BY <1>1 DEF Fork
  <2>3. [parent |-> q, group |-> g, ours |-> proc[q].ours] \in Process
    <3>1. proc[q] \in Process
      BY <2>2 DEF Alive, ReachInv, Shape
    <3>2. QED
      BY <3>1 DEF Process
  <2>4. [parent |-> q, group |-> g, ours |-> proc[q].ours].group = g
    OBVIOUS
  <2>5. QED
    BY <2>1, <2>2, <2>3, <2>4, BirthReaches
<1>2. CASE Other(q)
  <2>1. [parent |-> InitPid, group |-> q, ours |-> FALSE] \in Process
    BY DEF Process
  <2>2. QED
    BY <1>2, <2>1, BirthReaches DEF Other
<1>3. CASE Spawn(q)
  <2>1. [parent |-> InitPid, group |-> q, ours |-> TRUE] \in Process
    BY DEF Process
  <2>2. QED
    BY <1>3, <2>1, BirthReaches DEF Spawn
<1>4. QED
  BY <1>1, <1>2, <1>3

\* The state of processes and of the call is as it was.
LEMMA ReachInvStays ==
  ASSUME ReachInv, UNCHANGED <<proc, endVars, due>>
  PROVE  ReachInv'
BY DEF ReachInv, Shape, Leads, DueInv, Reachable, InGroupDue, Below, ToFind, Covers,
       Closed, ChildrenOf, Alive, endVars

\* The call reads the file, asks for the holders of the port and goes from parents to
\* children; nothing that it has to end gets lost on the way.
LEMMA FindingReaches ==
  ASSUME ReachInv, NEW q,
         \/ Begin \/ ReadPidFile \/ FindByPort \/ NothingFound \/ FindChildren(q)
         \/ AllFound
  PROVE  ReachInv'
<1> USE PidAssumption DEF ReachInv
<1>1. UNCHANGED proc
  BY DEF Begin, ReadPidFile, FindByPort, NothingFound, FindChildren, AllFound
<1>2. Alive' = Alive /\ Leads' /\ \A k : ChildrenOf(k)' = ChildrenOf(k)
  BY <1>1 DEF Alive, Leads, ChildrenOf
<1>3. Shape'
  BY <1>1 DEF Shape, Begin, ReadPidFile, FindByPort, NothingFound, FindChildren,
              AllFound, Returns, Alive, ChildrenOf
<1>4. CASE Begin
  <2>1. due' = {}
    BY <1>4 DEF Begin
  <2>2. QED
    BY <1>2, <1>3, <2>1 DEF DueInv
<1>5. CASE ReadPidFile
  <2>1. due = {} /\ ending' = "ports" /\ opts' = opts
    BY <1>5 DEF ReadPidFile, DueInv
  <2>2. CASE opts.file /\ file \in Alive
    <3>1. pids' = {file} /\ leader' = file /\ due' = DueOf(file)
      BY <1>5, <2>2 DEF ReadPidFile
    <3>2. due' \subseteq Alive /\ (due' # {} => opts.timeout)
      BY <2>2, <3>1 DEF DueOf, Descendants, Group
    <3>3. ASSUME NEW d \in Descendants(file)
          PROVE  Below(d)'
      <4>1. SUFFICES ASSUME NEW S \in SUBSET Pid, file \in S, Closed(S)'
                     PROVE  d \in S
        BY <3>1 DEF Below
      <4>2. file \in S \cap Alive /\ Closed(S \cap Alive)
        BY <1>2, <2>2, <4>1 DEF Closed, ChildrenOf
      <4>3. QED
        BY <3>3, <4>2 DEF Descendants
    <3>4. ASSUME NEW d \in due'
          PROVE  Reachable(d)'
      <4>1. d = file \/ (opts.stopChildren /\ d \in Descendants(file))
              \/ (opts.stopProcessGroup /\ d \in Group(file))
        BY <3>1, <3>4 DEF DueOf
      <4>2. QED
        BY <1>1, <2>1, <3>1, <3>3, <4>1 DEF Reachable, InGroupDue, Group
    <3>5. QED
      BY <1>2, <1>3, <2>1, <3>1, <3>2, <3>4 DEF DueInv
  <2>3. CASE ~(opts.file /\ file \in Alive)
    <3>1. due' = {}
      BY <1>5, <2>1, <2>3 DEF ReadPidFile
    <3>2. QED
      BY <1>2, <1>3, <3>1 DEF DueInv
  <2>4. QED
    BY <2>2, <2>3
<1>6. CASE FindByPort
  <2>1. /\ ending = "ports" /\ ending' = "children" /\ pids \subseteq pids'
        /\ walk' = IF opts.stopChildren THEN pids' ELSE {}
        /\ UNCHANGED <<opts, leader, due>>
    BY <1>6 DEF FindByPort
  <2>2. ASSUME NEW d, opts.stopChildren, Below(d)
        PROVE  ToFind(d)'
    <3>1. SUFFICES ASSUME NEW S \in SUBSET Pid, pids' \subseteq S, Covers(S)'
                   PROVE  d \in S
      BY DEF ToFind
    <3>2. Closed(S)
      BY <1>2, <2>1, <2>2, <3>1 DEF Closed, Covers
    <3>3. QED
      BY <2>1, <2>2, <3>1, <3>2 DEF Below
  <2>3. \A d \in pids : ToFind(d)'
    BY <2>1 DEF ToFind
  <2>4. \A d \in due' : Reachable(d)'
    BY <1>1, <2>1, <2>2, <2>3 DEF DueInv, Reachable, InGroupDue
  <2>5. QED
    BY <1>2, <1>3, <2>1, <2>4 DEF DueInv
<1>7. CASE NothingFound
  <2>1. due' = {}
    BY <1>7 DEF NothingFound, DueInv
  <2>2. QED
    BY <1>2, <1>3, <2>1 DEF DueInv
<1>8. CASE FindChildren(q)
  <2>1. /\ ending = "children" /\ q \in walk
        /\ pids' = pids \union ChildrenOf(q)
        /\ walk' = (walk \ {q}) \union ChildrenOf(q)
        /\ UNCHANGED <<ending, opts, leader, due>>
    BY <1>8 DEF FindChildren
  <2>2. ASSUME NEW d, ToFind(d)
        PROVE  ToFind(d)'
    <3>1. SUFFICES ASSUME NEW S \in SUBSET Pid, pids' \subseteq S, Covers(S)'
                   PROVE  d \in S
      BY DEF ToFind
    <3>2. ASSUME NEW k \in S, ~(k \in pids \ walk)
          PROVE  ChildrenOf(k) \subseteq S
      <4>1. CASE k = q
        BY <2>1, <3>1, <4>1
      <4>2. CASE k # q
        BY <1>2, <2>1, <3>1, <3>2, <4>2 DEF Covers
      <4>3. QED
        BY <4>1, <4>2
    <3>3. QED
      BY <2>1, <2>2, <3>1, <3>2 DEF ToFind, Covers
  <2>3. \A d \in due' : Reachable(d)'
    BY <1>1, <2>1, <2>2 DEF DueInv, Reachable, InGroupDue
  <2>4. QED
    BY <1>2, <1>3, <2>1, <2>3 DEF DueInv
<1>9. CASE AllFound
  <2>1. /\ ending = "children" /\ walk = {} /\ ending' = "term"
        /\ UNCHANGED <<opts, pids, leader, due>>
    BY <1>9 DEF AllFound
  <2>2. \A d : ToFind(d) => d \in pids
    BY <2>1 DEF ToFind, Covers, Shape
  <2>3. \A d \in due' : Reachable(d)'
    BY <1>1, <2>1, <2>2 DEF DueInv, Reachable, InGroupDue
  <2>4. QED
    BY <1>2, <1>3, <2>1, <2>3 DEF DueInv
<1>10. QED
  BY <1>4, <1>5, <1>6, <1>7, <1>8, <1>9

\* When the time is up the signals reach all that is due.
LEMMA KillReaches ==
  ASSUME ReachInv, ending = "wait"
  PROVE  due \subseteq Reached
<1> USE DEF ReachInv
<1>1. SUFFICES ASSUME NEW d \in due
               PROVE  d \in Reached
  OBVIOUS
<1>2. d \in Alive /\ leader \in pids /\ (InGroupDue(d) \/ d \in pids)
  BY <1>1 DEF DueInv, Reachable
<1>3. CASE InGroupDue(d)
  <2>1. opts.stopProcessGroup /\ d \in Group(leader)
    BY <1>2, <1>3 DEF InGroupDue, Group
  <2>2. QED
    BY <1>2, <2>1 DEF Reached
<1>4. CASE d \in pids
  <2>1. CASE opts.stopProcessGroup /\ Group(d) # {}
    <3>1. PICK e \in Alive : proc[e].group = d
      BY <2>1 DEF Group
    <3>2. d \in Group(d)
      BY <1>2, <3>1 DEF Leads, Group
    <3>3. QED
      BY <1>4, <2>1, <3>2 DEF Reached
  <2>2. CASE ~(opts.stopProcessGroup /\ Group(d) # {})
    BY <1>2, <1>4, <2>2 DEF Reached
  <2>3. QED
    BY <2>1, <2>2
<1>5. QED
  BY <1>2, <1>3, <1>4

\* The two signals.
LEMMA SignalsReach ==
  ASSUME ReachInv, Terminate \/ KillAfterWait
  PROVE  ReachInv'
<1> USE DEF ReachInv
<1>1. CASE Terminate /\ opts.timeout
  <2>1. /\ ending = "term" /\ ending' = "wait"
        /\ UNCHANGED <<proc, opts, pids, walk, leader, due>>
    BY <1>1 DEF Terminate
  <2>2. \A d \in due' : Reachable(d)'
    BY <2>1 DEF DueInv, Reachable, InGroupDue
  <2>3. QED
    BY <2>1, <2>2 DEF Shape, Leads, Alive, DueInv
<1>2. CASE Terminate /\ ~opts.timeout
  <2>1. UNCHANGED proc /\ pids' = {} /\ walk' = {} /\ due' = {}
    BY <1>2 DEF Terminate, Returns, DueInv
  <2>2. QED
    BY <2>1 DEF Shape, Leads, Alive, DueInv
<1>3. CASE KillAfterWait
  <2>1. proc' = Without(Reached) /\ pids' = {} /\ walk' = {} /\ due' = {}
    BY <1>3, KillReaches DEF KillAfterWait, End, Returns
  <2>2. /\ proc' \in [Pid -> Process \union {Gone}]
        /\ Alive' = Alive \ Reached
        /\ \A k \in Alive' : proc'[k].group = proc[k].group
    BY <2>1, WithoutLeaves DEF Shape
  <2>3. Leads'
    BY <2>2, LeadsKept
  <2>4. QED
    BY <2>1, <2>2, <2>3 DEF Shape, DueInv
<1>4. QED
  BY <1>1, <1>2, <1>3

\* When a call that is to kill returns, all that it had to end is gone: the process
\* whose pid was in the file, with stopChildren what descends from it and with
\* stopProcessGroup its group, those included that were forked while it looked.
THEOREM EndReaches == Spec => []EndReachesAll
<1>1. Init => ReachInv
  BY DEF Init, ReachInv, Shape, Leads, Alive, DueInv
<1>2. ReachInv /\ [Next]_vars => ReachInv'
  <2> SUFFICES ASSUME ReachInv, [Next]_vars PROVE ReachInv'
    OBVIOUS
  <2>1. CASE Next
    <3>1. ASSUME NEW q \in Pid, Exit(q) \/ Other(q) \/ Spawn(q) \/ FindChildren(q)
          PROVE  ReachInv'
      BY <3>1, ExitReaches, StartsReach, FindingReaches
    <3>2. ASSUME NEW q \in Pid, NEW c \in Pid, Fork(q, c)
          PROVE  ReachInv'
      BY <3>2, StartsReach
    <3>3. CASE OpenPidFile \/ WritePIDs \/ KillStart
      BY <3>3, ReachInvStays DEF OpenPidFile, WritePIDs, KillStart
    <3>4. CASE Begin \/ ReadPidFile \/ FindByPort \/ NothingFound \/ AllFound
      BY <3>4, FindingReaches
    <3>5. QED
      BY <2>1, <3>1, <3>2, <3>3, <3>4, SignalsReach DEF Next
  <2>2. CASE UNCHANGED vars
    BY <2>2, ReachInvStays DEF vars
  <2>3. QED
    BY <2>1, <2>2
<1>3. ReachInv => EndReachesAll
  BY DEF ReachInv, DueInv, EndReachesAll
<1>4. QED
  BY <1>1, <1>2, <1>3, PTL DEF Spec

=============================================================================
