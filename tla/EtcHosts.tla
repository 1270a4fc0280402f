------------------------------ MODULE EtcHosts ------------------------------
(***************************************************************************)
(* The commands that read and rewrite the hosts file: etc-hosts set,       *)
(* remove, list, backup and restore, and the step of `mongo start` that    *)
(* makes the host names of a replica set resolvable.                       *)
(*                                                                         *)
(* Every command reads the whole file, edits its copy and writes it back,  *)
(* directly if it may and else through one shared temporary file and sudo. *)
(* Nothing locks either file, so commands that overlap may lose updates.   *)
(*                                                                         *)
(* A file is the sequence of its entries, or Empty while a writer that has *)
(* truncated it has not written yet.  The lines of an entry beyond the     *)
(* host name, "comment" in the code, are the aliases of that line.  A file *)
(* is truncated when it is opened, not when it is written: what another    *)
(* command wrote in between stays behind a shorter text.  The lengths of   *)
(* texts are not modelled, any end may stay.  A write puts its content     *)
(* there in one piece; cp, another program, opens and writes in one step.  *)
(* Comment lines are left out, and DNS knows none of the names.            *)
(***************************************************************************)
EXTENDS Naturals, Sequences, SequencesExt

CONSTANTS
  Proc,         \* commands, each run once
  Name, Ip,     \* host names and addresses
  LoopbackIp,   \* where the members of the set can be reached
  Commands,     \* the commands that may be given
  FirstFile,    \* entries of the hosts file at first
  Empty, NoFile, \* content of a truncated and of a missing file
  Scrap,        \* what stands in place of the address in a line cut short
  MaxFaults     \* bound: failing writes and cps, killed commands

Line == [ip : Ip, names : Seq(Name) \ {<< >>}]
Mode == {"prompt", "add", "manual", "skip"}
Command == [kind : {"set", "remove", "list", "backup", "restore"},
            names : Seq(Name), ip : Ip]
           \union
           [kind : {"ensure"}, names : Seq(Name), ip : Ip,
            mode : Mode, ports : BOOLEAN]

ASSUME FileAssumption == FirstFile \in Seq(Line) /\ {LoopbackIp, Scrap} \subseteq Ip
ASSUME CommandAssumption ==
  /\ Commands # {}
  /\ \A c \in Commands :
       c \in Command /\ (c.kind \in {"set", "remove"} => c.names # << >>)
ASSUME ContentAssumption ==
  Empty # NoFile /\ Empty \notin Seq(Line) /\ NoFile \notin Seq(Line)
ASSUME FaultAssumption == MaxFaults \in Nat

VARIABLES
  file, backup, tmp, \* /etc/hosts, /etc/hosts.backup, /tmp/hosts.tmp
  attached,     \* commands whose open /tmp/hosts.tmp is the one of that name
  mixed,        \* history: a write has left the end of another one in place
  pc, cmd,      \* of each command: where it is, what was asked
  direct,       \* may it write the hosts file without sudo
  left,         \* names whose reachability it has not looked at yet
  missing,      \* names it found unreachable
  buf,          \* content it is about to write
  solo,         \* history: it has not overlapped with another one
  faults        \* how much of the bound is used

vars == <<file, backup, tmp, attached, mixed, pc, cmd, direct, left, missing, buf,
          solo, faults>>
fileVars == <<file, backup, tmp, attached, mixed>>
checkVars == <<left, missing>>
runVars == <<cmd, direct, solo>>

Steps == {"check", "choose", "read", "open", "flush", "tmpOpen", "tmpFlush",
          "sudo", "rm", "recover", "recheck", "verify", "list", "backup", "restore"}
Resting == {"idle", "done", "failed"}
Content == Seq(Line) \union {Empty}

\* The types of all variables; the hosts file is never missing.
TypeOK ==
  /\ file \in Content
  /\ backup \in Content \union {NoFile}
  /\ tmp \in Content \union {NoFile}
  /\ attached \in SUBSET Proc
  /\ tmp = NoFile => attached = {}
  /\ mixed \in BOOLEAN
  /\ pc \in [Proc -> Steps \union Resting]
  /\ cmd \in [Proc -> Command]
  /\ direct \in [Proc -> BOOLEAN]
  /\ left \in [Proc -> Seq(Name)]
  /\ missing \in [Proc -> SUBSET Name]
  /\ buf \in [Proc -> Seq(Line)]
  /\ solo \in [Proc -> BOOLEAN]
  /\ faults \in 0..MaxFaults

-----------------------------------------------------------------------------
(* Entries                                                                 *)

Hostname(line) == line.names[1]

\* A file that is being rewritten has no entries.
Entries(content) == IF content = Empty THEN << >> ELSE content

FirstWhere(s, P(_)) == {k \in DOMAIN s : P(s[k]) /\ \A j \in 1..(k-1) : ~P(s[j])}

\* The address that wins for n among the lines in L, as a set of at most one.
AddressIn(s, P(_)) == {s[k].ip : k \in FirstWhere(s, P)}

\* What the commands themselves look at: the host name of each line.
Lookup(content, n) ==
  AddressIn(Entries(content), LAMBDA line : Hostname(line) = n)

\* What the resolver of the machine looks at: the aliases too.
Resolve(content, n) ==
  AddressIn(Entries(content), LAMBDA line : n \in ToSet(line.names))

\* The elements of s at positions K, in their order.
Selected(s, K) ==
  FoldLeft(LAMBDA kept, k : IF k \in K THEN Append(kept, s[k]) ELSE kept,
           << >>, [k \in DOMAIN s |-> k])

\* What may be left of a line that is overwritten from its start, as a sequence
\* of at most one line: the rest of an address or of a name is taken for the
\* address, and without a name after it it is no entry.
Cut(line) ==
  {<<[ip |-> Scrap, names |-> SubSeq(line.names, j, Len(line.names))]>> :
     j \in DOMAIN line.names}

\* What may stay of a content behind a shorter text: whole lines at its end,
\* and before them the rest of the line that was cut.
Ends(content) ==
  LET lines == Entries(content)
      After(k) == SubSeq(lines, k + 1, Len(lines)) IN
  {After(k) : k \in 0..Len(lines)}
  \union UNION {{rest \o After(k) : rest \in Cut(lines[k])} : k \in DOMAIN lines}

\* Of several lines with one host name the first is kept.
FormatHostsFile(entries) ==
  Selected(entries, {k \in DOMAIN entries :
    \A j \in 1..(k-1) : Hostname(entries[j]) # Hostname(entries[k])})

\* Mutant: the entry is added even if the name has one.
SetHostAppends(entries, n, ip) == Append(entries, [ip |-> ip, names |-> <<n>>])

SetHost(entries, n, ip) ==
  LET found == FirstWhere(entries, LAMBDA line : Hostname(line) = n) IN
  IF found = {}
  THEN Append(entries, [ip |-> ip, names |-> <<n>>])
  ELSE [k \in DOMAIN entries |->
          IF k \in found THEN [entries[k] EXCEPT !.ip = ip] ELSE entries[k]]

SetHosts(entries, names, ip) ==
  FoldLeft(LAMBDA es, n : SetHost(es, n, ip), entries, names)

\* Mutant: only the first line of the name goes.
RemoveHostOnce(entries, n) ==
  Selected(entries, DOMAIN entries \
    FirstWhere(entries, LAMBDA line : Hostname(line) = n))

RemoveHost(entries, n) ==
  Selected(entries, {k \in DOMAIN entries : Hostname(entries[k]) # n})

\* The names this command writes: of an ensure those found missing.
NamesToSet(p) ==
  LET names == cmd[p].names IN
  IF cmd[p].kind = "ensure"
  THEN Selected(names, {k \in DOMAIN names : names[k] \in missing[p]})
  ELSE names

Edited(p, entries) ==
  IF cmd[p].kind = "remove" THEN RemoveHost(entries, cmd[p].names[1])
  ELSE SetHosts(entries, NamesToSet(p), cmd[p].ip)

-----------------------------------------------------------------------------
(* Steps of a command                                                      *)

Running(p) == pc[p] \notin Resting
GoTo(p, label) == pc' = [pc EXCEPT ![p] = label]
Fault == faults < MaxFaults /\ faults' = faults + 1

FirstStep(c) ==
  CASE c.kind = "ensure" -> "check"
    [] c.kind \in {"set", "remove"} -> "read"
    [] OTHER -> c.kind

Launch(p) ==
  /\ pc[p] = "idle"
  /\ \E c \in Commands :
       /\ GoTo(p, FirstStep(c))
       /\ cmd' = [cmd EXCEPT ![p] = c]
       /\ left' = [left EXCEPT ![p] = IF c.kind = "ensure" THEN c.names ELSE << >>]
  /\ \E d \in BOOLEAN : direct' = [direct EXCEPT ![p] = d]
  /\ solo' = [q \in Proc |-> IF q = p THEN \A r \in Proc \ {p} : ~Running(r)
                             ELSE solo[q] /\ ~Running(q)]
  /\ UNCHANGED <<fileVars, missing, buf, faults>>

\* The port of a member is published at the loopback address.
CanReachTcpPort(n) == Resolve(file, n) = {LoopbackIp}

\* With ports the test is a connection, without them any address will do.
NeedsEntry(c, n) == IF c.ports THEN ~CanReachTcpPort(n) ELSE Resolve(file, n) = {}

\* The names are tried one after the other, before and after the edit.
CheckName(p) ==
  /\ pc[p] \in {"check", "recheck"}
  /\ left[p] # << >>
  /\ LET n == Head(left[p]) IN
     missing' = [missing EXCEPT ![p] = IF NeedsEntry(cmd[p], n) THEN @ \union {n} ELSE @]
  /\ left' = [left EXCEPT ![p] = Tail(@)]
  /\ UNCHANGED <<fileVars, pc, runVars, buf, faults>>

\* `mongo start` verifies the names with connections to the members.
AfterEnsure(c) == IF c.ports THEN "verify" ELSE "done"

Checked(p) ==
  /\ pc[p] = "check"
  /\ left[p] = << >>
  /\ GoTo(p, IF missing[p] = {} THEN AfterEnsure(cmd[p]) ELSE "choose")
  /\ UNCHANGED <<fileVars, checkVars, runVars, buf, faults>>

\* prompt asks at a terminal and fails without one.
ModesOf(c) == IF c.mode = "prompt" THEN Mode ELSE {c.mode}

ChooseMode(p) ==
  /\ pc[p] = "choose"
  /\ \E m \in ModesOf(cmd[p]) :
       GoTo(p, CASE m = "add" -> "read"
                 [] m = "skip" -> AfterEnsure(cmd[p])
                 [] OTHER -> "failed")
  /\ UNCHANGED <<fileVars, checkVars, runVars, buf, faults>>

\* After the edit: an ensure tries its names once more, the others are done.
AfterWrite(p) ==
  IF cmd[p].kind = "ensure"
  THEN /\ GoTo(p, "recheck")
       /\ left' = [left EXCEPT ![p] = cmd[p].names]
       /\ missing' = [missing EXCEPT ![p] = {}]
  ELSE GoTo(p, "done") /\ UNCHANGED checkVars

\* Mutant: an empty file is edited like any other.
ReadAndEditEmpty(p) ==
  /\ pc[p] = "read"
  /\ buf' = [buf EXCEPT ![p] = FormatHostsFile(Edited(p, Entries(file)))]
  /\ GoTo(p, IF direct[p] THEN "open" ELSE "tmpOpen")
  /\ UNCHANGED <<fileVars, checkVars, runVars, faults>>

\* A truncated file reads as "" and is refused.
Refused(content) == content = Empty

\* Without a change nothing is written, and a line that would be dropped as a
\* duplicate stays.
ReadAndEdit(p) ==
  /\ pc[p] = "read"
  /\ IF Refused(file)
     THEN GoTo(p, "failed") /\ UNCHANGED <<buf, checkVars>>
     ELSE LET edited == Edited(p, file) IN
          IF edited = file
          THEN AfterWrite(p) /\ UNCHANGED buf
          ELSE /\ buf' = [buf EXCEPT ![p] = FormatHostsFile(edited)]
               /\ GoTo(p, IF direct[p] THEN "open" ELSE "tmpOpen")
               /\ UNCHANGED checkVars
  /\ UNCHANGED <<fileVars, runVars, faults>>

ReadAndList(p) ==
  /\ pc[p] = "list"
  /\ GoTo(p, IF Refused(file) THEN "failed" ELSE "done")
  /\ UNCHANGED <<fileVars, checkVars, runVars, buf, faults>>

OpenHostsFile(p) ==
  /\ pc[p] = "open"
  /\ file' = Empty
  /\ GoTo(p, "flush")
  /\ UNCHANGED <<backup, tmp, attached, mixed, checkVars, runVars, buf, faults>>

\* writeFile writes from offset 0 and does not truncate again.
WriteHostsFile(p) ==
  /\ pc[p] = "flush"
  /\ \E rest \in Ends(file) :
       /\ file' = buf[p] \o rest
       /\ mixed' = (mixed \/ rest # << >>)
  /\ AfterWrite(p)
  /\ UNCHANGED <<backup, tmp, attached, runVars, buf, faults>>

\* A direct write that fails is tried again with sudo.
WriteFails(p) ==
  /\ pc[p] = "flush"
  /\ Fault
  /\ GoTo(p, "tmpOpen")
  /\ UNCHANGED <<fileVars, checkVars, runVars, buf>>

OpenTempFile(p) ==
  /\ pc[p] = "tmpOpen"
  /\ tmp' = Empty
  /\ attached' = attached \union {p}
  /\ GoTo(p, "tmpFlush")
  /\ UNCHANGED <<file, backup, mixed, checkVars, runVars, buf, faults>>

\* writeFile writes from offset 0 and does not truncate again.  A file that was
\* removed after it was opened takes the write and is gone.
WriteTempFile(p) ==
  /\ pc[p] = "tmpFlush"
  /\ IF p \in attached
     THEN \E rest \in Ends(tmp) :
            /\ tmp' = buf[p] \o rest
            /\ mixed' = (mixed \/ rest # << >>)
     ELSE UNCHANGED <<tmp, mixed>>
  /\ attached' = attached \ {p}
  /\ GoTo(p, "sudo")
  /\ UNCHANGED <<file, backup, checkVars, runVars, buf, faults>>

SudoCopies(p) ==
  /\ pc[p] = "sudo"
  /\ tmp # NoFile
  /\ file' = tmp
  /\ GoTo(p, "rm")
  /\ UNCHANGED <<backup, tmp, attached, mixed, checkVars, runVars, buf, faults>>

\* Another command removed the file, or the password was not given.
SudoFails(p) ==
  /\ pc[p] = "sudo"
  /\ IF tmp = NoFile THEN UNCHANGED faults ELSE Fault
  /\ GoTo(p, "recover")
  /\ UNCHANGED <<fileVars, checkVars, runVars, buf>>

RemoveTempFile(p) ==
  /\ pc[p] = "rm"
  /\ IF tmp = NoFile
     THEN GoTo(p, "recover") /\ UNCHANGED checkVars
     ELSE AfterWrite(p)
  /\ tmp' = NoFile
  /\ attached' = {}
  /\ UNCHANGED <<file, backup, mixed, runVars, buf, faults>>

\* Mutant: the backup is moved into place, be it there or not.
RecoverMoves(p) ==
  /\ pc[p] = "recover"
  /\ file' = backup
  /\ GoTo(p, "failed")
  /\ UNCHANGED <<backup, tmp, attached, mixed, checkVars, runVars, buf, faults>>

\* cp from the backup, which may be old, missing or not permitted; the
\* command ends with exit code 1 in any case.
Recover(p) ==
  /\ pc[p] = "recover"
  /\ \/ /\ backup # NoFile /\ direct[p]
        /\ file' = backup
        /\ UNCHANGED faults
     \/ /\ IF backup # NoFile /\ direct[p] THEN Fault ELSE UNCHANGED faults
        /\ UNCHANGED file
  /\ GoTo(p, "failed")
  /\ UNCHANGED <<backup, tmp, attached, mixed, checkVars, runVars, buf>>

Rechecked(p) ==
  /\ pc[p] = "recheck"
  /\ left[p] = << >>
  /\ GoTo(p, IF missing[p] = {} THEN AfterEnsure(cmd[p]) ELSE "failed")
  /\ UNCHANGED <<fileVars, checkVars, runVars, buf, faults>>

Verify(p) ==
  /\ pc[p] = "verify"
  /\ GoTo(p, IF \A n \in ToSet(cmd[p].names) : CanReachTcpPort(n) THEN "done" ELSE "failed")
  /\ UNCHANGED <<fileVars, checkVars, runVars, buf, faults>>

BackupHostsFile(p) ==
  /\ pc[p] = "backup"
  /\ IF direct[p]
     THEN backup' = file /\ GoTo(p, "done")
     ELSE UNCHANGED backup /\ GoTo(p, "failed")
  /\ UNCHANGED <<file, tmp, attached, mixed, checkVars, runVars, buf, faults>>

RestoreHostsFile(p) ==
  /\ pc[p] = "restore"
  /\ IF direct[p] /\ backup # NoFile
     THEN file' = backup /\ GoTo(p, "done")
     ELSE UNCHANGED file /\ GoTo(p, "failed")
  /\ UNCHANGED <<backup, tmp, attached, mixed, checkVars, runVars, buf, faults>>

Kill(p) ==
  /\ Running(p)
  /\ Fault
  /\ GoTo(p, "failed")
  /\ attached' = attached \ {p}
  /\ UNCHANGED <<file, backup, tmp, mixed, checkVars, runVars, buf>>

-----------------------------------------------------------------------------
Init ==
  /\ file = FirstFile
  /\ backup = NoFile
  /\ tmp = NoFile
  /\ attached = {}
  /\ mixed = FALSE
  /\ pc = [p \in Proc |-> "idle"]
  /\ cmd = [p \in Proc |-> CHOOSE c \in Commands : TRUE]
  /\ direct = [p \in Proc |-> FALSE]
  /\ left = [p \in Proc |-> << >>]
  /\ missing = [p \in Proc |-> {}]
  /\ buf = [p \in Proc |-> << >>]
  /\ solo = [p \in Proc |-> TRUE]
  /\ faults = 0

Ensure(p) == CheckName(p) \/ Checked(p) \/ ChooseMode(p) \/ Rechecked(p) \/ Verify(p)

Write(p) ==
  \/ OpenHostsFile(p) \/ WriteHostsFile(p) \/ WriteFails(p)
  \/ OpenTempFile(p) \/ WriteTempFile(p)
  \/ SudoCopies(p) \/ SudoFails(p) \/ RemoveTempFile(p) \/ Recover(p)

Next ==
  \E p \in Proc :
    \/ Launch(p) \/ Kill(p)
    \/ Ensure(p) \/ ReadAndEdit(p) \/ Write(p)
    \/ ReadAndList(p) \/ BackupHostsFile(p) \/ RestoreHostsFile(p)

Spec == Init /\ [][Next]_vars

-----------------------------------------------------------------------------
(* Properties                                                              *)

Changes(p) == cmd[p].kind \in {"set", "remove", "ensure"}

\* What this command asked for is what the file says.
Shows(p, content) ==
  LET c == cmd[p] IN
  CASE c.kind = "set" -> Lookup(content, c.names[1]) = {c.ip}
    [] c.kind = "remove" -> Lookup(content, c.names[1]) = {}
    [] c.kind = "ensure" -> \A n \in ToSet(c.names) :
         IF c.ports THEN Resolve(content, n) = {LoopbackIp} ELSE Resolve(content, n) # {}

\* An ensure that was told to skip ends with names still missing.
Succeeded(p) == pc[p] = "done" /\ Changes(p) /\ missing[p] = {}

Quiet == \A p \in Proc : pc[p] \in {"idle", "done"}
RestoreUsed == \E p \in Proc : pc[p] # "idle" /\ cmd[p].kind = "restore"
Touched(n) ==
  \E p \in Proc : pc[p] # "idle" /\ Changes(p) /\ n \in ToSet(cmd[p].names)

\* However commands overlap, a name that nobody asked to change keeps its
\* address, unless some command reports an error: neither the truncated file,
\* nor the shared temporary file, nor the end that a longer text leaves behind
\* a shorter one loses or hides an entry silently.  A name without an entry
\* gets none, unless two writes were mixed: a line cut short may turn an alias
\* into the host name of a line.  (setHosts, removeHost, writeHostsFile)
NoSilentLoss ==
  Quiet /\ ~RestoreUsed =>
    \A n \in Name :
      ~Touched(n) /\ (mixed => Lookup(FirstFile, n) # {}) =>
        Lookup(file, n) = Lookup(FirstFile, n)

RemoveUsed == \E p \in Proc : pc[p] # "idle" /\ cmd[p].kind = "remove"

\* Overlapping commands may undo each other, but when all of them report
\* success the effect of at least one is there.  If two writes were mixed this
\* is so only without a remove among the commands: lookups take the first line,
\* so the later text wins over the end of the earlier one, but a name that is
\* absent from the later text shows through from that end.
WinnerShows ==
  /\ Quiet /\ ~RestoreUsed /\ (\E p \in Proc : Succeeded(p))
  /\ mixed => ~RemoveUsed
  => \E p \in Proc : Succeeded(p) /\ Shows(p, file)

\* A command that ran alone and reports success has done what it was asked, to
\* whatever file the commands before it left: set for the line that lookups
\* take, remove for every line of the name, ensure for every name.
EffectShows ==
  [][\A p \in Proc :
       solo[p] /\ pc[p] # "done" /\ Succeeded(p)' => Shows(p, file')]_vars
=============================================================================
