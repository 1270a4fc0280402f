----------------------------- MODULE Processes -----------------------------
(***************************************************************************)
(* Starting a detached process whose pid is kept in a file (`pm start`,    *)
(* startProcess) and ending it again by that file, with its children or    *)
(* its process group, and what holds a port (endPIDs).                     *)
(*                                                                         *)
(* Both work on pids.  Between the moments at which a pid is written down, *)
(* looked up, asked for its children, sent SIGTERM and, seconds later,     *)
(* SIGKILL, processes fork and end, and a pid that has become free is      *)
(* given to somebody else.  The system gives no pid that names a process   *)
(* or a process group.                                                     *)
(*                                                                         *)
(* A process may end at any time, so SIGTERM, which it may handle, adds    *)
(* nothing to what it can do.  All processes belong to one user.           *)
(*                                                                         *)
(* endPIDs also takes a list of pids; nobody in the repository gives it    *)
(* one, and the option is left out.                                        *)
(***************************************************************************)
EXTENDS Naturals

CONSTANTS
  Pid,           \* pids; init, which adopts orphans, is not among them
  InitPid,
  Gone,          \* no process has this pid
  NoFile, Blank, \* the pid file is missing, or truncated and not yet written
  Calls,         \* the options endPIDs may be called with
  MaxStarts, MaxForks, MaxOthers, MaxEnds \* bounds on what happens

Options == [file : BOOLEAN, ports : BOOLEAN, stopChildren : BOOLEAN,
            stopProcessGroup : BOOLEAN, timeout : BOOLEAN]
NoOptions == [file |-> FALSE, ports |-> FALSE, stopChildren |-> FALSE,
              stopProcessGroup |-> FALSE, timeout |-> FALSE]
Process == [parent : Pid \union {InitPid}, group : Pid, ours : BOOLEAN]

ASSUME PidAssumption == Gone \notin Pid \union Process /\ InitPid \notin Pid
ASSUME FileAssumption == NoFile # Blank /\ {NoFile, Blank} \cap Pid = {}
ASSUME CallAssumption == Calls \subseteq Options
ASSUME BoundAssumption == {MaxStarts, MaxForks, MaxOthers, MaxEnds} \subseteq Nat

VARIABLES
  proc,      \* the process of each pid
  file,      \* pid in the pid file
  starting, started, \* where startProcess is, and the pid it got
  ending, opts,      \* where endPIDs is, and its options
  pids,      \* the pids it has found
  walk,      \* those of them whose children it has not asked for yet
  accurate,  \* history: the process in the file has not ended since it was written
  exposed,   \* history: processes with a reason to be signalled, be they ours or not
  leader,    \* history: the pid that was in the file
  due,       \* history: processes this call has to end
  hit,       \* history: others' processes signalled for no reason
  starts, forks, others, ends \* how much of the bounds is used

startVars == <<starting, started, starts>>
endVars == <<ending, opts, pids, walk, leader, ends>>
vars == <<proc, file, startVars, endVars, accurate, exposed, due, hit,
          forks, others>>

\* The types of all variables; a process belongs to a group of a pid.
TypeOK ==
  /\ proc \in [Pid -> Process \union {Gone}]
  /\ file \in Pid \union {NoFile, Blank}
  /\ starting \in {"idle", "open", "write"}
  /\ started \in Pid \union {Gone}
  /\ ending \in {"idle", "file", "ports", "children", "term", "wait", "ended"}
  /\ opts \in Options
  /\ pids \subseteq Pid /\ walk \subseteq pids
  /\ accurate \in BOOLEAN
  /\ {exposed, due, hit} \subseteq SUBSET Pid
  /\ leader \in Pid \union {Gone}
  /\ starts \in 0..MaxStarts /\ forks \in 0..MaxForks
  /\ others \in 0..MaxOthers /\ ends \in 0..MaxEnds

-----------------------------------------------------------------------------
(* Processes                                                               *)

Alive == {q \in Pid : proc[q] # Gone}
Group(g) == {q \in Alive : proc[q].group = g}
Free == {q \in Pid \ Alive : Group(q) = {}}

\* What pgrep -P finds.
ChildrenOf(q) == {c \in Alive : proc[c].parent = q}

\* What descends from a process: all that is in every set which has it and, of each
\* of its processes, the children.
Closed(S) == \A k \in S : ChildrenOf(k) \subseteq S
Descendants(q) ==
  {d \in Alive : \A S \in SUBSET Alive : q \in S /\ Closed(S) => d \in S}

\* The processes without those in Q; init adopts their children.
Without(Q) ==
  [q \in Pid |-> IF q \in Q \/ proc[q] = Gone THEN Gone
                 ELSE IF proc[q].parent \in Q THEN [proc[q] EXCEPT !.parent = InitPid]
                 ELSE proc[q]]

Ending == ending \notin {"idle", "ended"}
Listing == ending \in {"ports", "children"}

\* Processes that stopProcessGroup reaches in whatever way they came about.
InGroupDue(q) == opts.stopProcessGroup /\ proc[q].group = leader

\* The processes of Q end.
End(Q) ==
  /\ proc' = Without(Q)
  /\ accurate' = (accurate /\ file \notin Q)

\* One ends by itself.  While the children are looked for, what descends from it
\* cannot be found by way of it any more.
Exit(q) ==
  /\ q \in Alive
  /\ End({q})
  /\ exposed' = exposed \ {q}
  /\ due' = due \ ({q} \union
              (IF Listing THEN {d \in Descendants(q) : ~InGroupDue(d)} ELSE {}))
  /\ UNCHANGED <<file, startVars, endVars, hit, forks, others>>

\* A process forks a child, which may lead a group of its own.  endPIDs finds it by
\* way of its parent, reaches it with its group, or takes it for a process that
\* had the pid before.
Fork(q, c) ==
  /\ q \in Alive /\ c \in Free /\ forks < MaxForks
  /\ \E g \in {proc[q].group, c} :
       /\ proc' = [proc EXCEPT ![c] = [parent |-> q, group |-> g, ours |-> proc[q].ours]]
       /\ due' = IF Ending /\ q \in due /\ opts.stopProcessGroup /\ g = leader
                 THEN due \union {c} ELSE due
       /\ exposed' = IF \/ c \in pids
                        \/ q \in exposed /\ (opts.stopChildren \/ (opts.stopProcessGroup /\ g # c))
                     THEN exposed \union {c} ELSE exposed
  /\ forks' = forks + 1
  /\ UNCHANGED <<file, startVars, endVars, accurate, hit, others>>

\* Somebody else starts a process, which may get a pid that endPIDs has found.
Other(q) ==
  /\ q \in Free /\ others < MaxOthers
  /\ proc' = [proc EXCEPT ![q] = [parent |-> InitPid, group |-> q, ours |-> FALSE]]
  /\ exposed' = exposed \union ({q} \cap pids)
  /\ others' = others + 1
  /\ UNCHANGED <<file, startVars, endVars, accurate, due, hit, forks>>

-----------------------------------------------------------------------------
(* startProcess                                                            *)

\* The process leads a group of its own and outlives the command.  Its pid is
\* written down only if a pid file was given.
Spawn(q) ==
  /\ starting = "idle" /\ starts < MaxStarts /\ q \in Free
  /\ proc' = [proc EXCEPT ![q] = [parent |-> InitPid, group |-> q, ours |-> TRUE]]
  /\ \/ starting' = "open" /\ started' = q
     \/ UNCHANGED <<starting, started>>
  /\ starts' = starts + 1
  /\ UNCHANGED <<file, endVars, accurate, exposed, due, hit, forks, others>>

\* writePIDs truncates the file, whatever was in it,
OpenPidFile ==
  /\ starting = "open"
  /\ file' = Blank
  /\ accurate' = FALSE
  /\ starting' = "write"
  /\ UNCHANGED <<proc, started, starts, endVars, exposed, due, hit, forks, others>>

\* and writes the one pid.
WritePIDs ==
  /\ starting = "write"
  /\ file' = started
  /\ accurate' = (started \in Alive /\ proc[started].ours)
  /\ starting' = "idle" /\ started' = Gone
  /\ UNCHANGED <<proc, starts, endVars, exposed, due, hit, forks, others>>

\* The command is killed; the process goes on.
KillStart ==
  /\ starting # "idle"
  /\ starting' = "idle" /\ started' = Gone
  /\ UNCHANGED <<proc, file, starts, endVars, accurate, exposed, due,
                 hit, forks, others>>

-----------------------------------------------------------------------------
(* endPIDs                                                                 *)

\* The call returns; what it knew is forgotten.
Returns ==
  /\ ending' = "ended"
  /\ opts' = NoOptions
  /\ pids' = {} /\ walk' = {} /\ exposed' = {}
  /\ leader' = Gone

Begin ==
  /\ ~Ending /\ ends < MaxEnds
  /\ \E o \in Calls : opts' = o
  /\ ending' = "file"
  /\ due' = {}
  /\ ends' = ends + 1
  /\ UNCHANGED <<proc, file, startVars, pids, walk, leader, exposed, accurate,
                 hit, forks, others>>

\* What has to be gone when the call returns, if it is to kill: the process that
\* was written down, what descends from it, its group.
DueOf(q) ==
  IF ~(opts.timeout /\ accurate) THEN {}
  ELSE {q} \union (IF opts.stopChildren THEN Descendants(q) ELSE {})
           \union (IF opts.stopProcessGroup THEN Group(q) ELSE {})

\* Whom a call that finds the processes of Q signals because of them: with
\* stopChildren their children, with stopProcessGroup the groups they lead, and so
\* on from these.
Follow(k) == (IF opts.stopChildren THEN ChildrenOf(k) ELSE {})
             \union (IF opts.stopProcessGroup THEN Group(k) ELSE {})
Kin(Q) ==
  {d \in Alive : \A S \in SUBSET Alive :
     Q \subseteq S /\ (\A k \in S : Follow(k) \subseteq S) => d \in S}

\* The pid in the file counts if a process has it; a file that cannot be parsed
\* counts as empty.
ReadPidFile ==
  /\ ending = "file"
  /\ IF opts.file /\ file \in Alive
     THEN /\ pids' = {file} /\ leader' = file
          /\ exposed' = IF accurate THEN {} ELSE Kin({file})
          /\ due' = DueOf(file)
     ELSE UNCHANGED <<pids, leader, exposed, due>>
  /\ ending' = "ports"
  /\ UNCHANGED <<proc, file, startVars, opts, walk, ends, accurate,
                 hit, forks, others>>

\* Whoever has the port open, at one end or the other.
FindByPort ==
  /\ ending = "ports"
  /\ \E found \in IF opts.ports THEN SUBSET Alive ELSE {{}} :
     /\ pids' = pids \union found
     /\ exposed' = exposed \union Kin(found)
     /\ walk' = IF opts.stopChildren THEN pids \union found ELSE {}
     /\ pids \union found # {}
  /\ ending' = "children"
  /\ UNCHANGED <<proc, file, startVars, opts, leader, ends, accurate, due,
                 hit, forks, others>>

NothingFound ==
  /\ ending = "ports" /\ pids = {}
  /\ Returns
  /\ UNCHANGED <<proc, file, startVars, ends, accurate, due, hit, forks, others>>

\* Mutant: grandchildren are asked for and not kept.
FindChildrenUnrecorded(q) ==
  /\ ending = "children" /\ q \in walk
  /\ walk' = (walk \ {q}) \union ChildrenOf(q)
  /\ UNCHANGED <<proc, file, startVars, ending, opts, pids, leader, ends,
                 accurate, exposed, due, hit, forks, others>>

\* Mutant: the children of the parent are looked for.
FindSiblings(q) ==
  /\ ending = "children" /\ q \in walk
  /\ LET found == {c \in Alive \ pids : q \in Alive /\ proc[c].parent = proc[q].parent} IN
     /\ pids' = pids \union found
     /\ walk' = (walk \ {q}) \union found
  /\ UNCHANGED <<proc, file, startVars, ending, opts, leader, ends,
                 accurate, exposed, due, hit, forks, others>>

\* The children of one, then those of each of them.
FindChildren(q) ==
  /\ ending = "children" /\ q \in walk
  /\ LET found == ChildrenOf(q) IN
     /\ pids' = pids \union found
     /\ walk' = (walk \ {q}) \union found
  /\ UNCHANGED <<proc, file, startVars, ending, opts, leader, ends,
                 accurate, exposed, due, hit, forks, others>>

AllFound ==
  /\ ending = "children" /\ walk = {}
  /\ ending' = "term"
  /\ UNCHANGED <<proc, file, startVars, opts, pids, walk, leader, ends,
                 accurate, exposed, due, hit, forks, others>>

\* Mutant: the signal goes to the processes, never to their groups.
ReachedSingly == {n \in pids : n \in Alive}

\* Whom killPIDs reaches: of each pid the group, and if there is none, or groups
\* were not asked for, the process.
Reached ==
  UNION {IF opts.stopProcessGroup /\ Group(n) # {} THEN Group(n) ELSE {n} \cap Alive
         : n \in pids}

\* Others' processes that are signalled for no reason.
Innocent(Q) == {q \in Q : ~proc[q].ours} \ exposed

Terminate ==
  /\ ending = "term"
  /\ hit' = hit \union Innocent(Reached)
  /\ IF opts.timeout
     THEN ending' = "wait" /\ UNCHANGED <<opts, pids, walk, leader, exposed>>
     ELSE Returns
  /\ UNCHANGED <<proc, file, startVars, ends, accurate, due, forks, others>>

\* After timeoutMs SIGKILL goes to the same pids, whoever has them now.
KillAfterWait ==
  /\ ending = "wait"
  /\ hit' = hit \union Innocent(Reached)
  /\ End(Reached)
  /\ due' = due \ Reached
  /\ Returns
  /\ UNCHANGED <<file, startVars, ends, forks, others>>

-----------------------------------------------------------------------------

Init ==
  /\ proc = [q \in Pid |-> Gone]
  /\ file = NoFile /\ accurate = FALSE
  /\ starting = "idle" /\ started = Gone /\ starts = 0
  /\ ending = "idle" /\ opts = NoOptions /\ pids = {} /\ walk = {}
  /\ exposed = {} /\ leader = Gone /\ due = {} /\ hit = {}
  /\ ends = 0 /\ forks = 0 /\ others = 0

Next ==
  \/ \E q \in Pid : Exit(q) \/ Other(q) \/ Spawn(q) \/ FindChildren(q)
  \/ \E q, c \in Pid : Fork(q, c)
  \/ OpenPidFile \/ WritePIDs \/ KillStart
  \/ Begin \/ ReadPidFile \/ FindByPort \/ NothingFound \/ AllFound \/ Terminate \/ KillAfterWait

Spec == Init /\ [][Next]_vars

-----------------------------------------------------------------------------
(* Properties                                                              *)

\* A process that is not ours is signalled only if it had the port open, had got a
\* pid that one found before it had, or the one in the pid file, or if it comes
\* from such a process by descent or by the group that one leads, as far as the
\* options ask for children and groups: endPIDs signals pids that it looked up
\* seconds ago, and what it then found by way of them (endPIDs.ts:104-128).
OnlyOursHit == hit = {}

\* When a call that is to kill returns, the process that was written down is
\* gone, and so is what descended from it, as far as no process in between ended
\* while children were looked for; and with stopProcessGroup its whole group,
\* those included that were forked or orphaned during the call.
EndReachesAll == ending = "ended" => due = {}

=============================================================================
