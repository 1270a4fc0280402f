------------------------ MODULE PostgresDoneProofs ------------------------
(***************************************************************************)
(* What a start or setup-users leaves behind: the lines of its file in the *)
(* server, the privileges of its users, and a way in for who had one; for  *)
(* any number of commands, any files and any bounds.                       *)
(***************************************************************************)
EXTENDS PostgresProofs

\* Over the network all come in in the same way.
Uniform(hba) ==
  \E type \in {"host", "hostssl"}, method \in Method : \A l \in hba :
    l.from = "any" /\ l.type # "local" => l.type = type /\ l.method = method

AllUniform ==
  /\ HasData(volume) => Uniform(volume.hba)
  /\ Up => Uniform(live.hba)
  /\ \A p \in Proc : Uniform(run[p].hba)

\* Where a command has written lines that the server has yet to load.
Wrote == {"reload", "reloadTrust", "scramConf", "reloadUsers"}

\* A command that began with all lines loaded knows which lines are on the volume
\* and which of them the server works with.
LinesOf(p) ==
  /\ pc[p] \in (StartSteps \union UserSteps) \ Wrote => live.hba = volume.hba
  /\ pc[p] \in SslSteps \union {"reload", "scramConf", "reloadUsers", "randomise"} =>
       Expected(p) \subseteq volume.hba
  /\ pc[p] \in {"writeSslConf", "trustHba"} => run[p].hba = volume.hba
  /\ pc[p] \in {"reloadTrust", "sync"} => volume.hba \in {run[p].hba, Expected(p)}
  /\ pc[p] \notin {"writeSslHba", "reloadSsl"}

\* A start that created the container knows whether the server has loaded SSL.
SslOf(p) ==
  /\ pc[p] \notin {"restart", "writeSslHba"} => live.ssl = volume.ssl
  /\ pc[p] = "writeSslHba" /\ ~run[p].wrote => live.ssl = volume.ssl
  /\ pc[p] = "writeConf" => run[p].ssl = volume.ssl

Knows(p) == solo[p] /\ loaded[p] /\ Cfg(p).users # << >> /\ Administers(Cfg(p))

LoadedOf(p) ==
  /\ Running(p) /\ Up /\ Knows(p) => LinesOf(p)
  /\ Running(p) /\ Up /\ solo[p] /\ run[p].fresh => SslOf(p)

Loaded == \A p \in Proc : LoadedOf(p)

-----------------------------------------------------------------------------
(***************************************************************************)
(* All lines that are written let in in one way.                           *)
(***************************************************************************)

LEMMA UniformLines ==
  /\ Uniform({})
  /\ \A c \in Configs : Uniform(DefaultLines(c.auth)) /\ Uniform(generatePgHbaConfContent(c))
  /\ \A hba \in SUBSET Line : Uniform(hba) =>
       Uniform(setPgHbaRequireSSL(hba)) /\ Uniform(hbaWithSSL(hba))
<1>1. Uniform({})
  BY DEF Uniform, Method
<1>2. ASSUME NEW c \in Configs PROVE Uniform(DefaultLines(c.auth))
  <2>1. \A l \in DefaultLines(c.auth) : l.from = "any" /\ l.type # "local" =>
          l.type = "host" /\ l.method = IF c.auth THEN "scram" ELSE "trust"
    BY DEF DefaultLines
  <2>2. (IF c.auth THEN "scram" ELSE "trust") \in Method
    BY DEF Method
  <2> QED BY <2>1, <2>2 DEF Uniform
<1>3. ASSUME NEW c \in Configs PROVE Uniform(generatePgHbaConfContent(c))
  <2> DEFINE type == IF c.ssl THEN "hostssl" ELSE "host"
             method == IF c.auth THEN "scram" ELSE "trust"
  <2>1. \A l \in generatePgHbaConfContent(c) : l.type \in {"local", type} /\ l.method = method
    BY GeneratedLine
  <2>2. type \in {"host", "hostssl"} /\ method \in Method
    BY DEF Method
  <2> HIDE DEF type, method
  <2> QED BY <2>1, <2>2 DEF Uniform
<1>4. ASSUME NEW hba \in SUBSET Line, Uniform(hba) PROVE Uniform(setPgHbaRequireSSL(hba))
  <2>1. PICK type \in {"host", "hostssl"}, method \in Method : \A l \in hba :
          l.from = "any" /\ l.type # "local" => l.type = type /\ l.method = method
    BY <1>4 DEF Uniform
  <2>2. ASSUME NEW w \in setPgHbaRequireSSL(hba), w.from = "any", w.type # "local"
        PROVE  w.type = "hostssl" /\ w.method = method
    <3>1. PICK l \in hba : w = IF l.type = "host" THEN [l EXCEPT !.type = "hostssl"] ELSE l
      BY DEF setPgHbaRequireSSL
    <3>2. /\ w.from = l.from /\ w.method = l.method
          /\ w.type = IF l.type = "host" THEN "hostssl" ELSE l.type
      <4> l \in Line
        OBVIOUS
      <4> QED BY <3>1 DEF Line
    <3>3. l.type \in {"local", "host", "hostssl"}
      BY DEF Line
    <3> QED BY <2>1, <2>2, <3>2, <3>3
  <2> QED BY <2>2 DEF Uniform
<1>5. ASSUME NEW hba \in SUBSET Line, Uniform(hba) PROVE Uniform(hbaWithSSL(hba))
  BY <1>4, <1>5 DEF hbaWithSSL
<1> QED BY <1>1, <1>2, <1>3, <1>4, <1>5

LEMMA UniformKept ==
  ASSUME Typed, AllUniform, NEW p \in Proc, Stepped(p), Copied(p),
         HasData(volume)' => Uniform(volume'.hba), Up' => Uniform(live'.hba)
  PROVE  AllUniform'
<1>1. Uniform(run'[p].hba)
  <2>1. NoLocals.hba = {}
    BY DEF NoLocals
  <2>2. Up => Uniform(volume.hba)
    BY UpHasData DEF AllUniform
  <2> QED BY <2>1, <2>2, UniformLines DEF Copied, AllUniform
<1> QED BY <1>1 DEF AllUniform, Stepped

\* The steps that write no lines and have none loaded.
LEMMA UniformSame ==
  ASSUME Typed, AllUniform, NEW p \in Proc, Stepped(p), Copied(p), live' = live, Up' => Up,
         \/ volume' = volume \/ ~HasData(volume)'
         \/ Up /\ volume'.hba = volume.hba
  PROVE  AllUniform'
<1>1. HasData(volume)' => HasData(volume) /\ volume'.hba = volume.hba
  BY UpHasData
<1> QED BY <1>1, UniformKept DEF AllUniform

\* The steps that write lines.
LEMMA UniformHba ==
  ASSUME Typed, AllUniform, NEW p \in Proc, Stepped(p), Copied(p), UNCHANGED <<container, live>>,
         NEW hba \in SUBSET Line, Uniform(hba), WritesHba(hba)
  PROVE  AllUniform'
<1>1. CASE ~Up
  <2>1. volume' = volume
    BY <1>1, WritesHbaDoes
  <2> QED BY <2>1, UniformSame DEF Up
<1>2. CASE Up
  <2>1. volume \in Volume /\ volume' = [volume EXCEPT !.hba = hba]
    BY <1>2, UpHasData, WritesHbaDoes
  <2>2. volume'.hba = hba
    BY <2>1 DEF Volume
  <2> QED BY <1>2, <2>2, UniformKept DEF AllUniform, Up
<1> QED BY <1>1, <1>2

\* The steps that write other settings.
LEMMA UniformConf ==
  ASSUME Typed, AllUniform, NEW p \in Proc, Stepped(p), Copied(p), UNCHANGED <<container, live>>,
         NEW ssl \in BOOLEAN, NEW scram \in BOOLEAN, WritesConf(ssl, scram)
  PROVE  AllUniform'
<1>1. CASE ~Up
  <2>1. volume' = volume
    BY <1>1, WritesConfDoes
  <2> QED BY <2>1, UniformSame DEF Up
<1>2. CASE Up
  <2>1. volume \in Volume /\ volume' = [volume EXCEPT !.ssl = ssl, !.scram = scram]
    BY <1>2, UpHasData, WritesConfDoes
  <2>2. volume'.hba = volume.hba
    BY <2>1 DEF Volume
  <2> QED BY <1>2, <2>2, UniformSame DEF Up
<1> QED BY <1>1, <1>2

\* The server starts with the lines of its volume.
LEMMA UniformBoot ==
  ASSUME Typed, AllUniform, NEW p \in Proc, Stepped(p), Copied(p),
         NEW v \in Volume, NEW certs \in BOOLEAN, Boot(v, certs), Uniform(v.hba)
  PROVE  AllUniform'
<1>1. volume' = v /\ (Up' => live'.hba = v.hba)
  BY BootDoes
<1> QED BY <1>1, UniformKept

LEMMA StartUniform ==
  ASSUME Typed, Accounted, AllUniform, NEW p \in Proc, Start(p)
  PROVE  AllUniform'
<1>1. Stepped(p) /\ Uniform(Expected(p)) /\ Expected(p) \in SUBSET Line /\ Cfg(p) \in Configs
      /\ run[p].hba \in SUBSET Line
  <2>1. run[p] \in Locals /\ Cfg(p) \in Configs
    BY CommandHere
  <2> QED BY <2>1, StartMoves, UniformLines, LineTypes DEF Expected, Locals
<1>2. CASE VolumeRemove(p)
  <2>1. /\ Copied(p) /\ UNCHANGED <<container, live>>
        /\ volume' = volume \/ volume' = NoVolume
    BY <1>2, VolumeRemoveDoes DEF Onward
  <2> QED BY <1>1, <2>1, UniformSame, VolumeKinds DEF Up
<1>3. CASE VolumeCreate(p)
  <2>1. /\ Copied(p) /\ UNCHANGED <<container, live>>
        /\ volume' = volume \/ volume' = NewVolume
    BY <1>3, VolumeCreateDoes DEF Onward
  <2> QED BY <1>1, <2>1, UniformSame, NewVolumeDoes DEF Up
<1>4. CASE Inspect(p)
  <2>1. Copied(p) /\ UNCHANGED <<volume, container, live>>
    BY <1>4, InspectDoes DEF Onward
  <2> QED BY <1>1, <2>1, UniformSame DEF Up
<1>5. CASE RemoveContainer(p)
  <2>1. Copied(p) /\ UNCHANGED <<volume, live>> /\ (Up' => Up)
    BY <1>5, RemoveContainerDoes DEF Onward, Up
  <2> QED BY <1>1, <2>1, UniformSame
<1>6. CASE RunContainer(p)
  <2>1. /\ Copied(p)
        /\ container.state # "none" => UNCHANGED <<volume, container, live>>
        /\ container.state = "none" => /\ Boot(VolumeToRun(p), Cfg(p).ssl)
                                       /\ VolumeToRun(p) \in Volume
    BY <1>6, RunContainerDoes DEF Onward
  <2>2. CASE container.state # "none"
    BY <1>1, <2>1, <2>2, UniformSame DEF Up
  <2>3. CASE container.state = "none"
    <3>1. Uniform(VolumeToRun(p).hba)
      <4> DEFINE v == IF volume = NoVolume THEN NewVolume ELSE volume
      <4>1. HasData(v) => v = volume
        BY NewVolumeDoes
      <4>2. v.used \in SUBSET Configs
        BY NewVolumeDoes, DataIsVolume DEF Typed, TypeOK, IsVolume
      <4>3. buildDockerEnvVars(Cfg(p), v).hba = DefaultLines(Cfg(p).auth)
        BY <1>1, <4>2, ImageDoes
      <4>4. VolumeToRun(p) = IF HasData(v) THEN v ELSE buildDockerEnvVars(Cfg(p), v)
        BY DEF VolumeToRun
      <4> HIDE DEF v
      <4> QED BY <1>1, <4>1, <4>3, <4>4, UniformLines DEF AllUniform
    <3>2. Cfg(p).ssl \in BOOLEAN
      BY <1>1, FileTypes
    <3> QED BY <1>1, <2>1, <2>3, <3>1, <3>2, UniformBoot
  <2> QED BY <2>2, <2>3
<1>7. CASE WaitForReady(p) \/ SyncHba(p) \/ WaitForReadySsl(p)
  <2>1. Copied(p) /\ UNCHANGED <<volume, container, live>>
    BY <1>7, WaitForReadyDoes, SyncHbaDoes, WaitForReadySslDoes DEF Onward
  <2> QED BY <1>1, <2>1, UniformSame DEF Up
<1>8. CASE ReadConf(p) \/ ReadSsl(p)
  <2>1. CASE ReadConf(p)
    <3>1. Copied(p) /\ UNCHANGED <<volume, container, live>>
      BY <2>1, ReadConfDoes DEF Onward
    <3> QED BY <1>1, <3>1, UniformSame DEF Up
  <2>2. CASE ReadSsl(p)
    <3>1. Copied(p) /\ UNCHANGED <<volume, container, live>>
      BY <2>2, ReadSslDoes DEF Onward
    <3> QED BY <1>1, <3>1, UniformSame DEF Up
  <2> QED BY <1>8, <2>1, <2>2
<1>9. CASE AlterPostgres(p)
  <2>1. Copied(p) /\ UNCHANGED <<container, live>> /\ Randomised(p)
    BY <1>9, AlterPostgresDoes DEF Onward
  <2>2. volume' = volume \/ (Up /\ volume'.hba = volume.hba)
    BY <2>1, RandomisedDoes, UpHasData DEF Volume
  <2> QED BY <1>1, <2>1, <2>2, UniformSame DEF Up
<1>10. CASE WriteConf(p)
  <2>1. Copied(p) /\ UNCHANGED <<container, live>> /\ WritesConf(run[p].ssl, TRUE)
    BY <1>10, WriteConfDoes DEF Onward
  <2>2. run[p].ssl \in BOOLEAN
    BY CommandHere DEF Locals
  <2> QED BY <1>1, <2>1, <2>2, UniformConf
<1>11. CASE WriteHba(p)
  <2>1. Copied(p) /\ UNCHANGED <<container, live>> /\ WritesHba(Expected(p))
    BY <1>11, WriteHbaDoes DEF Onward
  <2> QED BY <1>1, <2>1, UniformHba
<1>12. CASE WriteSslConf(p)
  <2>1. /\ Copied(p) /\ UNCHANGED <<container, live>> /\ WritesConf(TRUE, run[p].scram)
        /\ run[p].scram \in BOOLEAN
    BY <1>12, WriteSslConfDoes DEF Onward
  <2> QED BY <1>1, <2>1, UniformConf
<1>13. CASE WriteSslHba(p)
  <2>1. Copied(p) /\ UNCHANGED <<container, live>> /\ WritesHba(hbaWithSSL(run[p].hba))
    BY <1>13, WriteSslHbaDoes DEF Onward
  <2>2. hbaWithSSL(run[p].hba) \in SUBSET Line /\ Uniform(hbaWithSSL(run[p].hba))
    BY <1>1, LineTypes, UniformLines DEF AllUniform
  <2> QED BY <1>1, <2>1, <2>2, UniformHba
<1>14. CASE Restart(p)
  <2>1. /\ Copied(p)
        /\ container.state = "none" => UNCHANGED <<volume, container, live>>
        /\ container.state # "none" => Boot(volume, container.certs) /\ volume \in Volume
                                       /\ container.certs \in BOOLEAN
    BY <1>14, RestartDoes DEF Onward
  <2>2. CASE container.state = "none"
    BY <1>1, <2>1, <2>2, UniformSame DEF Up
  <2>3. CASE container.state # "none"
    <3>1. Uniform(volume.hba)
      BY <2>1, <2>3, VolumeKinds DEF AllUniform
    <3> QED BY <1>1, <2>1, <2>3, <3>1, UniformBoot
  <2> QED BY <2>2, <2>3
<1> QED BY <1>2, <1>3, <1>4, <1>5, <1>6, <1>7, <1>8, <1>9, <1>10, <1>11, <1>12, <1>13, <1>14
        DEF Start

LEMMA SetupUniform ==
  ASSUME Typed, Accounted, AllUniform, NEW p \in Proc, Reload(p) \/ SetupUsers(p) \/ SetupDbs(p)
  PROVE  AllUniform'
<1>1. Stepped(p) /\ Uniform(Expected(p)) /\ Expected(p) \in SUBSET Line
  <2>1. Cfg(p) \in Configs
    BY CommandHere
  <2> QED BY <2>1, StartMoves, OtherMoves, UniformLines, LineTypes DEF Expected
<1>2. CASE Reload(p)
  <2>1. Copied(p) /\ UNCHANGED <<volume, container>>
        /\ IF p \in connected THEN pgReloadConf ELSE UNCHANGED live
    BY <1>2, ReloadDoes DEF Onward
  <2>2. Up' => Uniform(live'.hba)
    <3>1. CASE p \in connected
      <4>1. Up /\ live'.hba = volume.hba
        BY <2>1, <3>1, ClientUp DEF pgReloadConf
      <4> QED BY <4>1, UpHasData DEF AllUniform
    <3>2. CASE p \notin connected
      BY <2>1, <3>2 DEF AllUniform, Up
    <3> QED BY <3>1, <3>2
  <2> QED BY <1>1, <2>1, <2>2, UniformKept DEF AllUniform
<1>3. CASE ConnectForUsers(p) \/ UsersSynced(p) \/ ConnectForDbs(p)
  <2>1. Copied(p) /\ UNCHANGED <<volume, container, live>>
    BY <1>3, ConnectForUsersDoes, UsersSyncedDoes, ConnectForDbsDoes DEF Onward
  <2> QED BY <1>1, <2>1, UniformSame DEF Up
<1>4. CASE ReadSnapshot(p)
  <2>1. Copied(p) /\ UNCHANGED <<volume, container, live>>
    BY <1>4, ReadSnapshotDoes DEF Onward
  <2> QED BY <1>1, <2>1, UniformSame DEF Up
<1>5. CASE WriteUsersHba(p)
  <2>1. Copied(p) /\ UNCHANGED <<container, live>> /\ WritesHba(Expected(p))
    BY <1>5, WriteUsersHbaDoes DEF Onward
  <2> QED BY <1>1, <2>1, UniformHba
<1>6. CASE WriteUsersConf(p)
  <2>1. Copied(p) /\ UNCHANGED <<container, live>> /\ WritesConf(run[p].ssl, TRUE)
    BY <1>6, WriteUsersConfDoes DEF Onward
  <2>2. run[p].ssl \in BOOLEAN
    BY CommandHere DEF Locals
  <2> QED BY <1>1, <2>1, <2>2, UniformConf
<1>7. CASE SyncUser(p)
  <2>1. /\ Copied(p) /\ UNCHANGED <<container, live>>
        /\ volume' = volume \/ (Up /\ volume'.hba = volume.hba)
    BY <1>7, SyncUserDoes DEF Onward
  <2> QED BY <1>1, <2>1, UniformSame DEF Up
<1>8. CASE RandomisePostgres(p)
  <2>1. Copied(p) /\ UNCHANGED <<container, live>> /\ Randomised(p)
    BY <1>8, RandomisePostgresDoes DEF Onward
  <2>2. volume' = volume \/ (Up /\ volume'.hba = volume.hba)
    BY <2>1, RandomisedDoes, UpHasData DEF Volume
  <2> QED BY <1>1, <2>1, <2>2, UniformSame DEF Up
<1>9. CASE CreateDatabase(p)
  <2>1. /\ Copied(p) /\ UNCHANGED <<container, live>>
        /\ volume' = volume \/ (Up /\ volume'.hba = volume.hba)
    BY <1>9, CreateDatabaseDoes DEF Onward
  <2> QED BY <1>1, <2>1, UniformSame DEF Up
<1> QED BY <1>2, <1>3, <1>4, <1>5, <1>6, <1>7, <1>8, <1>9 DEF SetupUsers, SetupDbs

LEMMA StopUniform ==
  ASSUME Typed, Accounted, AllUniform, NEW p \in Proc, Stop(p) \/ Kill(p)
  PROVE  AllUniform'
<1>1. CASE FindContainer(p) \/ StopContainer(p) \/ RemoveStopped(p) \/ RemoveVolume(p)
  <2>1. /\ Stepped(p) /\ Copied(p) /\ live' = live /\ (Up' => Up)
        /\ volume' = volume \/ volume' = NoVolume
    BY <1>1, FindContainerDoes, StopContainerDoes, RemoveStoppedDoes, RemoveVolumeDoes DEF Onward, Up
  <2> QED BY <2>1, UniformSame, VolumeKinds
<1>2. CASE Kill(p)
  <2>1. Stepped(p) /\ Copied(p) /\ UNCHANGED <<volume, container, live>>
    BY <1>2, KillDoes DEF Onward
  <2> QED BY <2>1, UniformSame DEF Up
<1> QED BY <1>1, <1>2 DEF Stop

LEMMA NextUniform ==
  ASSUME Typed, Accounted, AllUniform, [Next]_vars
  PROVE  AllUniform'
<1>1. ASSUME NEW p \in Proc, Launch(p) PROVE AllUniform'
  <2>1. /\ UNCHANGED <<container, live, run>>
        /\ volume' = volume \/ volume' = Uses(volume, file)
    BY <1>1, LaunchDoes
  <2>2. HasData(volume)' => HasData(volume) /\ volume'.hba = volume.hba
    BY <2>1, UsesDoes DEF Typed, TypeOK, IsVolume
  <2> QED BY <2>1, <2>2 DEF AllUniform, Up
<1>2. CASE Edit \/ UNCHANGED vars
  <2>1. UNCHANGED <<volume, container, live, run>>
    BY <1>2, EditDoes DEF vars
  <2> QED BY <2>1 DEF AllUniform, Up
<1>3. CASE Crash
  BY <1>3, CrashDoes DEF AllUniform
<1> QED BY <1>1, <1>2, <1>3, StartUniform, SetupUniform, StopUniform DEF Next

LEMMA InitUniform == ASSUME Init PROVE AllUniform
<1>1. \A p \in Proc : run[p].hba = {}
  BY DEF Init, NoLocals
<1>2. ~HasData(volume) /\ ~Up
  BY VolumeKinds DEF Init, Up
<1> QED BY <1>1, <1>2, UniformLines DEF AllUniform

-----------------------------------------------------------------------------
(***************************************************************************)
(* What a command knows of the lines.                                      *)
(***************************************************************************)

\* The administrator's line for the network, as all the file's lines for it are.
LEMMA AdminLine ==
  ASSUME NEW c \in Configs, c.users # << >>, Administers(c)
  PROVE  \E l \in generatePgHbaConfContent(c) :
           /\ l.from = "any" /\ l.type = (IF c.ssl THEN "hostssl" ELSE "host")
           /\ l.method = IF c.auth THEN "scram" ELSE "trust"
<1>1. PICK l \in generatePgHbaConfContent(c) : l.type # "local"
  BY DEF Administers
<1> QED BY <1>1, GeneratedLine

\* Lines with all that the file expects are not rewritten for SSL.
LEMMA NoRewrite ==
  ASSUME NEW c \in Configs, c.users # << >>, Administers(c), c.ssl,
         NEW hba, generatePgHbaConfContent(c) \subseteq hba
  PROVE  hbaWithSSL(hba) = hba
<1>1. \E l \in hba : l.type = "hostssl"
  BY AdminLine
<1> QED BY <1>1 DEF hbaWithSSL, pgHbaRequiresSSL

LEMMA LoadedStep ==
  ASSUME Typed, Alone, Loaded, NEW p \in Proc, Running(p), Stepped(p), Typed',
         Running(p)' /\ Up' /\ Knows(p) /\ (Up => LinesOf(p)) => LinesOf(p)',
         Running(p)' /\ Up' /\ solo[p] /\ run'[p].fresh /\ (Up /\ run[p].fresh => SslOf(p))
           => SslOf(p)'
  PROVE  Loaded'
<1>1. UNCHANGED <<cmd, solo, loaded>>
  BY DEF Stepped, callVars
<1>2. LoadedOf(p)'
  <2>1. Knows(p)' <=> Knows(p)
    BY <1>1 DEF Knows, Cfg
  <2> QED BY <1>1, <2>1 DEF Loaded, LoadedOf
<1>3. ASSUME NEW q \in Proc \ {p} PROVE LoadedOf(q)'
  <2>1. pc'[q] = pc[q]
    BY DEF Stepped
  <2>2. ~(solo[q] /\ Running(q))
    BY DEF Alone, AloneOf
  <2> QED BY <1>1, <2>1, <2>2 DEF LoadedOf, Knows, Running
<1> QED BY <1>2, <1>3 DEF Loaded

\* A command that is at an end has nothing to know.
LEMMA LoadedEnd ==
  ASSUME Typed, Alone, Loaded, NEW p \in Proc, Running(p), Stepped(p), Typed',
         ~Running(p)' \/ ~Up' \/ pc'[p] \in DbSteps \union StopSteps
  PROVE  Loaded'
<1>1. ASSUME pc'[p] \in DbSteps \union StopSteps PROVE LinesOf(p)' /\ ~run'[p].fresh
  <2>1. ~run'[p].fresh
    BY <1>1 DEF Typed, Placed, ReadOf, StartSteps, DbSteps, StopSteps
  <2> QED BY <1>1, <2>1 DEF LinesOf, StartSteps, UserSteps, DbSteps, StopSteps, SslSteps
<1> QED BY <1>1, LoadedStep

LEMMA BeginLoaded ==
  ASSUME Typed, Accounted, Alone, Loaded, NEW p \in Proc,
         VolumeRemove(p) \/ VolumeCreate(p) \/ Inspect(p) \/ RemoveContainer(p) \/ RunContainer(p)
  PROVE  Loaded'
<1>1. Running(p) /\ Stepped(p) /\ Typed' /\ cmd' = cmd
  BY StartMoves, StartTyped DEF Start, Stepped, callVars
<1>2. CASE VolumeRemove(p) \/ VolumeCreate(p) \/ Inspect(p) \/ RemoveContainer(p)
  <2>1. /\ pc[p] \in {"volumeRemove", "volumeCreate", "inspect", "remove"}
        /\ pc'[p] \in {"volumeCreate", "inspect", "ready", "remove", "run"} \union Resting
        /\ Running(p)' => run'[p] = run[p]
        /\ live' = live /\ (Up' => Up) /\ (Up => volume' = volume)
    <3>1. ASSUME VolumeRemove(p) \/ VolumeCreate(p) \/ Inspect(p)
          PROVE  /\ pc[p] \in {"volumeRemove", "volumeCreate", "inspect"}
                 /\ pc'[p] \in {"volumeCreate", "inspect", "ready", "remove"}
                 /\ run'[p] = run[p] /\ UNCHANGED <<container, live>>
                 /\ volume' = volume \/ (volume' = NoVolume /\ container.state = "none")
                    \/ volume = NoVolume
      BY <3>1, VolumeRemoveDoes, VolumeCreateDoes, InspectDoes DEF Onward
    <3>2. CASE VolumeRemove(p) \/ VolumeCreate(p) \/ Inspect(p)
      BY <3>1, <3>2, UpHasData DEF Up
    <3>3. CASE RemoveContainer(p)
      BY <3>3, RemoveContainerDoes DEF Onward, Up, Running, Resting
    <3> QED BY <1>2, <3>2, <3>3
  <2>2. ASSUME Running(p)', Up', LinesOf(p) PROVE LinesOf(p)'
    <3>1. live.hba = volume.hba
      BY <2>1, <2>2 DEF LinesOf, StartSteps, Wrote
    <3> QED BY <2>1, <2>2, <3>1 DEF LinesOf, SslSteps, Running, Resting
  <2>3. ASSUME Running(p)', Up', SslOf(p) PROVE SslOf(p)'
    BY <2>1, <2>3 DEF SslOf, Running, Resting
  <2>4. Running(p)' => run'[p].fresh = run[p].fresh
    BY <2>1
  <2> QED BY <1>1, <2>1, <2>2, <2>3, <2>4, LoadedStep
<1>3. CASE RunContainer(p)
  <2>1. /\ pc'[p] = IF container.state # "none" THEN "failed" ELSE "ready"
        /\ container.state = "none" => /\ Boot(VolumeToRun(p), Cfg(p).ssl)
                                       /\ VolumeToRun(p) \in Volume
    BY <1>3, RunContainerDoes
  <2>2. CASE container.state # "none"
    BY <1>1, <2>1, <2>2, LoadedEnd DEF Running, Resting
  <2>3. CASE container.state = "none"
    <3>1. Up' => live'.hba = volume'.hba /\ live'.ssl = volume'.ssl
      BY <2>1, <2>3, CommandHere, FileTypes, BootDoes
    <3>2. pc'[p] = "ready"
      BY <2>1, <2>3
    <3>3. Up' => LinesOf(p)' /\ SslOf(p)'
      BY <3>1, <3>2 DEF LinesOf, SslOf, SslSteps
    <3> QED BY <1>1, <3>3, LoadedStep
  <2> QED BY <2>2, <2>3
<1> QED BY <1>2, <1>3

\* The lines and settings that a step leaves alone.
LEMMA LoadedSame ==
  ASSUME Typed, Alone, Loaded, NEW p \in Proc, Running(p), Stepped(p), Typed',
         live' = live, container' = container,
         Up => volume'.hba = volume.hba /\ volume'.ssl = volume.ssl,
         Running(p)' /\ Knows(p) /\ LinesOf(p) => LinesOf(p)',
         pc[p] \notin {"restart", "writeSslHba"},
         pc'[p] \notin {"restart", "writeSslHba", "writeConf"},
         Running(p)' => run'[p].fresh = run[p].fresh
  PROVE  Loaded'
<1>1. Up' <=> Up
  BY DEF Up
<1>2. ASSUME Running(p)', Up, solo[p], run'[p].fresh, SslOf(p) PROVE SslOf(p)'
  BY <1>2 DEF SslOf
<1> QED BY <1>1, <1>2, LoadedStep

LEMMA AuthorizeLoaded ==
  ASSUME Typed, Accounted, Alone, Loaded, NEW p \in Proc,
         \/ WaitForReady(p) \/ AlterPostgres(p) \/ ReadConf(p) \/ WriteConf(p)
         \/ SyncHba(p) \/ WriteHba(p)
  PROVE  Loaded'
<1>1. /\ Running(p) /\ Stepped(p) /\ Typed' /\ cmd' = cmd
      /\ Cfg(p)' = Cfg(p) /\ Expected(p)' = Expected(p)
  BY StartMoves, StartTyped DEF Start, Stepped, callVars, Cfg, Expected
<1>2. CASE WaitForReady(p)
  <2>1. /\ pc[p] = "ready" /\ UNCHANGED <<volume, container, live>>
        /\ pc'[p] # "failed" => pc'[p] = AfterReady(Cfg(p))
        /\ pc'[p] \in {"readSsl", "alter", "readConf", "syncHba", "done", "failed"}
        /\ Running(p)' => run'[p] = run[p]
    BY <1>2, WaitForReadyDoes DEF Onward, Running
  <2>2. Running(p)' /\ Knows(p) => pc'[p] \in {"alter", "readConf", "syncHba"}
    BY <2>1 DEF AfterReady, Knows, Running, Resting
  <2>3. ASSUME Running(p)', Knows(p), LinesOf(p) PROVE LinesOf(p)'
    BY <2>1, <2>2, <2>3 DEF LinesOf, StartSteps, Wrote, SslSteps
  <2> QED BY <1>1, <2>1, <2>3, LoadedSame
<1>3. CASE AlterPostgres(p)
  <2>1. /\ pc[p] = "alter" /\ UNCHANGED <<container, live>> /\ Randomised(p)
        /\ pc'[p] \in {"readConf", "failed"}
        /\ Running(p)' => run'[p] = run[p]
    BY <1>3, AlterPostgresDoes DEF Onward, Running
  <2>2. volume'.hba = volume.hba /\ volume'.ssl = volume.ssl
    BY <2>1, RandomisedDoes, UpHasData DEF Volume
  <2>3. ASSUME Running(p)', LinesOf(p) PROVE LinesOf(p)'
    BY <2>1, <2>2, <2>3 DEF LinesOf, StartSteps, Wrote, SslSteps, Running, Resting
  <2> QED BY <1>1, <2>1, <2>2, <2>3, LoadedSame
<1>4. CASE ReadConf(p)
  <2>1. /\ pc[p] = "readConf" /\ UNCHANGED <<volume, container, live>>
        /\ pc'[p] \in {"syncHba", "writeConf", "failed"}
        /\ pc'[p] = "failed" <=> ~Up
        /\ Running(p)' => run'[p] = Reads(p)
    BY <1>4, ReadConfDoes DEF Onward, Running, Resting
  <2>2. Running(p)' => Up /\ run'[p].ssl = volume.ssl /\ run'[p].fresh = run[p].fresh
    BY <2>1, ReadsDoes DEF Running, Resting
  <2>3. ASSUME Running(p)', LinesOf(p) PROVE LinesOf(p)'
    BY <2>1, <2>3 DEF LinesOf, StartSteps, Wrote, SslSteps, Running, Resting
  <2>4. ASSUME Running(p)', SslOf(p) PROVE SslOf(p)'
    BY <2>1, <2>2, <2>4 DEF SslOf, Running, Resting
  <2> QED BY <1>1, <2>1, <2>2, <2>3, <2>4, LoadedStep DEF Up
<1>5. CASE WriteConf(p)
  <2>1. /\ pc[p] = "writeConf" /\ UNCHANGED <<container, live>> /\ WritesConf(run[p].ssl, TRUE)
        /\ pc'[p] \in {"syncHba", "failed"}
        /\ pc'[p] = "failed" <=> ~Up
        /\ Running(p)' => run'[p] = [run[p] EXCEPT !.wrote = TRUE]
    BY <1>5, WriteConfDoes DEF Onward, Running, Resting
  <2>2. run[p] \in Locals
    BY CommandHere
  <2>3. Up => volume'.hba = volume.hba /\ volume'.ssl = run[p].ssl
    <3>1. run[p].ssl \in BOOLEAN
      BY <2>2 DEF Locals
    <3>2. Up => volume' = [volume EXCEPT !.ssl = run[p].ssl, !.scram = TRUE]
      BY <2>1, <3>1, WritesConfDoes
    <3> QED BY <3>2, UpHasData DEF Volume
  <2>4. Running(p)' => Up /\ run'[p].fresh = run[p].fresh
    BY <2>1, <2>2 DEF Locals, Running, Resting
  <2>5. ASSUME Running(p)', LinesOf(p) PROVE LinesOf(p)'
    BY <2>1, <2>3, <2>4, <2>5 DEF LinesOf, StartSteps, Wrote, SslSteps, Running, Resting
  <2>6. ASSUME Running(p)', SslOf(p) PROVE SslOf(p)'
    BY <2>1, <2>3, <2>4, <2>6 DEF SslOf, Running, Resting
  <2> QED BY <1>1, <2>1, <2>4, <2>5, <2>6, LoadedStep
<1>6. CASE SyncHba(p)
  <2>1. /\ pc[p] = "syncHba" /\ UNCHANGED <<volume, container, live>>
        /\ pc'[p] \in {"writeHba", "reload", "readSsl", "done", "failed"}
        /\ pc'[p] = "failed" <=> ~Up
        /\ Up => pc'[p] = IF pgHbaConfNeedsUpdate(volume.hba, Expected(p)) THEN "writeHba"
                          ELSE IF run[p].wrote THEN "reload" ELSE AfterAuthorization(Cfg(p))
        /\ Running(p)' => run'[p] = run[p]
    BY <1>6, SyncHbaDoes DEF Onward, Running
  <2>2. pc'[p] \in {"reload", "readSsl"} => Expected(p) \subseteq volume.hba
    BY <2>1 DEF pgHbaConfNeedsUpdate
  <2>3. ASSUME Running(p)', LinesOf(p) PROVE LinesOf(p)'
    BY <1>1, <2>1, <2>2, <2>3 DEF LinesOf, StartSteps, Wrote, SslSteps, Running, Resting
  <2> QED BY <1>1, <2>1, <2>3, LoadedSame
<1>7. CASE WriteHba(p)
  <2>1. /\ pc[p] = "writeHba" /\ UNCHANGED <<container, live>> /\ WritesHba(Expected(p))
        /\ pc'[p] \in {"reload", "failed"}
        /\ pc'[p] = "failed" <=> ~Up
        /\ Running(p)' => run'[p] = run[p]
    BY <1>7, WriteHbaDoes DEF Onward, Running
  <2>2. Expected(p) \in SUBSET Line
    BY CommandHere, LineTypes DEF Expected
  <2>3. Up => volume'.hba = Expected(p) /\ volume'.ssl = volume.ssl
    BY <2>1, <2>2, WritesHbaDoes, UpHasData DEF Volume
  <2>4. ASSUME Running(p)' PROVE LinesOf(p)'
    BY <1>1, <2>1, <2>3, <2>4 DEF LinesOf, UserSteps, StartSteps, Wrote, Running, Resting
  <2>5. ASSUME Running(p)', SslOf(p) PROVE SslOf(p)'
    BY <2>1, <2>3, <2>5 DEF SslOf, Running, Resting
  <2> QED BY <1>1, <2>1, <2>4, <2>5, LoadedStep DEF Up
<1> QED BY <1>2, <1>3, <1>4, <1>5, <1>6, <1>7

LEMMA SslLoaded ==
  ASSUME Typed, Accounted, Alone, Loaded, NEW p \in Proc,
         \/ ReadSsl(p) \/ WriteSslConf(p) \/ WriteSslHba(p) \/ Restart(p) \/ WaitForReadySsl(p)
  PROVE  Loaded'
<1>1. /\ Running(p) /\ Stepped(p) /\ Typed' /\ cmd' = cmd
      /\ Cfg(p)' = Cfg(p) /\ Expected(p)' = Expected(p)
  BY StartMoves, StartTyped DEF Start, Stepped, callVars, Cfg, Expected
<1>2. pc[p] \in SslSteps => Cfg(p) \in Configs /\ Cfg(p).ssl /\ run[p] \in Locals
  BY CommandHere DEF PlaceOf
<1>3. CASE ReadSsl(p)
  <2>1. /\ pc[p] = "readSsl" /\ UNCHANGED <<volume, container, live>>
        /\ pc'[p] \in {"writeSslConf", "writeSslHba", "done", "failed"}
        /\ pc'[p] = "failed" <=> ~Up
        /\ Up => pc'[p] = IF ~volume.ssl THEN "writeSslConf"
                          ELSE IF hbaWithSSL(volume.hba) # volume.hba THEN "writeSslHba"
                          ELSE "done"
        /\ Running(p)' => run'[p] = [Reads(p) EXCEPT !.wrote = FALSE]
    BY <1>3, ReadSslDoes DEF Onward, Running
  <2>2. ASSUME Running(p)'
        PROVE  /\ Up /\ run'[p].hba = volume.hba /\ run'[p].fresh = run[p].fresh
               /\ ~run'[p].wrote
    <3>1. Up /\ run'[p] = [Reads(p) EXCEPT !.wrote = FALSE]
      BY <2>1, <2>2 DEF Running, Resting
    <3> QED BY <3>1, ReadsDoes DEF Locals
  <2>3. ASSUME Running(p)', Knows(p), LinesOf(p) PROVE LinesOf(p)'
    <3>1. Expected(p) \subseteq volume.hba
      BY <2>1, <2>3 DEF LinesOf, SslSteps
    <3>2. hbaWithSSL(volume.hba) = volume.hba
      BY <1>2, <2>1, <2>3, <3>1, NoRewrite DEF SslSteps, Expected, Knows
    <3>3. pc'[p] = "writeSslConf"
      BY <2>1, <2>2, <2>3, <3>2 DEF Running, Resting
    <3> QED BY <1>1, <2>1, <2>2, <2>3, <3>1, <3>3 DEF LinesOf, StartSteps, Wrote
  <2>4. ASSUME Running(p)', SslOf(p) PROVE SslOf(p)'
    BY <2>1, <2>2, <2>4 DEF SslOf, Running, Resting
  <2> QED BY <1>1, <2>1, <2>2, <2>3, <2>4, LoadedStep
<1>4. CASE WriteSslConf(p)
  <2>1. /\ pc[p] = "writeSslConf" /\ UNCHANGED <<container, live>>
        /\ WritesConf(TRUE, run[p].scram) /\ run[p].scram \in BOOLEAN
        /\ pc'[p] \in {"writeSslHba", "restart", "done", "failed"}
        /\ pc'[p] = "failed" <=> ~Up
        /\ Up => pc'[p] = IF hbaWithSSL(run[p].hba) # run[p].hba THEN "writeSslHba"
                          ELSE AfterSsl(p, TRUE)
        /\ Running(p)' => run'[p] = [run[p] EXCEPT !.wrote = TRUE]
    BY <1>4, WriteSslConfDoes DEF Onward, Running
  <2>2. Up => volume'.hba = volume.hba
    BY <2>1, WritesConfDoes, UpHasData DEF Volume
  <2>3. Running(p)' => Up /\ run'[p].fresh = run[p].fresh /\ run'[p].wrote
    BY <1>2, <2>1 DEF Locals, SslSteps, Running, Resting
  <2>4. ASSUME Running(p)', Knows(p), LinesOf(p) PROVE LinesOf(p)'
    <3>1. Expected(p) \subseteq volume.hba /\ run[p].hba = volume.hba /\ live.hba = volume.hba
      BY <2>1, <2>4 DEF LinesOf, SslSteps, StartSteps, Wrote
    <3>2. hbaWithSSL(run[p].hba) = run[p].hba
      BY <1>2, <2>1, <2>4, <3>1, NoRewrite DEF SslSteps, Expected, Knows
    <3>3. pc'[p] = "restart"
      BY <2>1, <2>3, <2>4, <3>2 DEF AfterSsl, Running, Resting
    <3> QED BY <1>1, <2>1, <2>2, <2>3, <2>4, <3>1, <3>3 DEF LinesOf, StartSteps, Wrote
  <2>5. Running(p)' => SslOf(p)'
    BY <2>1, <2>3 DEF SslOf, Running, Resting
  <2> QED BY <1>1, <2>1, <2>3, <2>4, <2>5, LoadedStep
<1>5. CASE WriteSslHba(p)
  <2>1. /\ pc[p] = "writeSslHba" /\ UNCHANGED <<container, live>>
        /\ WritesHba(hbaWithSSL(run[p].hba))
        /\ pc'[p] \in {"reloadSsl", "restart", "done", "failed"}
        /\ pc'[p] = "failed" <=> ~Up
        /\ Up => pc'[p] = IF run[p].wrote THEN AfterSsl(p, TRUE) ELSE "reloadSsl"
        /\ Running(p)' => run'[p] = run[p]
    BY <1>5, WriteSslHbaDoes DEF Onward, Running
  <2>2. hbaWithSSL(run[p].hba) \in SUBSET Line
    BY <1>2, <2>1, LineTypes DEF Locals, SslSteps
  <2>3. Up => volume'.ssl = volume.ssl
    BY <2>1, <2>2, WritesHbaDoes, UpHasData DEF Volume
  <2>4. ASSUME Running(p)', SslOf(p) PROVE SslOf(p)'
    BY <2>1, <2>3, <2>4 DEF SslOf, AfterSsl, Running, Resting
  <2>5. Up => ~LinesOf(p)
    BY <2>1 DEF LinesOf
  <2> QED BY <1>1, <2>1, <2>4, <2>5, LoadedStep DEF Up
<1>6. CASE Restart(p)
  <2>1. /\ pc[p] = "restart"
        /\ pc'[p] = IF container.state = "none" THEN "failed" ELSE "readySsl"
        /\ container.state # "none" => Boot(volume, container.certs) /\ volume \in Volume
                                       /\ container.certs \in BOOLEAN
        /\ Running(p)' => run'[p] = run[p]
    BY <1>6, RestartDoes DEF Onward, Running
  <2>2. CASE container.state = "none"
    BY <1>1, <2>1, <2>2, LoadedEnd DEF Running, Resting
  <2>3. CASE container.state # "none"
    <3>1. /\ volume' = volume
          /\ Up' => live'.hba = volume.hba /\ live'.ssl = volume.ssl
      BY <2>1, <2>3, BootDoes
    <3>2. solo[p] => Up
      BY <1>1, <2>1, ClientUp DEF Alone, AloneOf, Undisturbed, Connected
    <3>3. ASSUME Up', LinesOf(p) PROVE LinesOf(p)'
      BY <1>1, <2>1, <2>3, <3>1, <3>3 DEF LinesOf, SslSteps, StartSteps, Wrote
    <3>4. Up' => SslOf(p)'
      BY <2>1, <2>3, <3>1 DEF SslOf
    <3> QED BY <1>1, <2>1, <3>2, <3>3, <3>4, LoadedStep DEF Knows
  <2> QED BY <2>2, <2>3
<1>7. CASE WaitForReadySsl(p)
  BY <1>1, <1>7, WaitForReadySslDoes, LoadedEnd DEF Onward, Running, Resting
<1> QED BY <1>3, <1>4, <1>5, <1>6, <1>7

LEMMA ReloadLoaded ==
  ASSUME Typed, Accounted, Alone, Loaded, NEW p \in Proc, Reload(p)
  PROVE  Loaded'
<1>1. /\ Running(p) /\ Stepped(p) /\ Typed' /\ cmd' = cmd
      /\ Cfg(p)' = Cfg(p) /\ Expected(p)' = Expected(p)
  BY StartMoves, SetupTyped DEF Stepped, callVars, Cfg, Expected
<1>2. /\ pc[p] \in {"reload", "reloadSsl", "reloadTrust", "reloadUsers"}
      /\ pc'[p] \in {"readSsl", "sync", "randomise", "done", "failed"}
      /\ UNCHANGED <<volume, container>>
      /\ IF p \in connected THEN pgReloadConf ELSE UNCHANGED live
      /\ pc'[p] = IF p \in connected THEN AfterReload(p) ELSE "failed"
      /\ Running(p)' => run'[p] = run[p]
  BY ReloadDoes DEF Onward, Running
<1>3. CASE ~Running(p)'
  BY <1>1, <1>3, LoadedEnd
<1>4. CASE Running(p)'
  <2>1. p \in connected /\ Up /\ Up'
    BY <1>2, <1>4, ClientUp DEF Running, Resting, Up
  <2>2. /\ live'.hba = volume.hba
        /\ live.ssl = volume.ssl => live'.ssl = volume.ssl
    <3>1. live.ssl \in BOOLEAN /\ volume.ssl \in BOOLEAN
      BY <2>1, TypedServer, UpHasData DEF ServerTyped, Volume
    <3>2. live' = [hba |-> volume.hba, ssl |-> volume.ssl /\ (container.certs \/ live.ssl)]
      BY <1>2, <2>1 DEF pgReloadConf
    <3> QED BY <3>1, <3>2
  <2>3. ASSUME LinesOf(p) PROVE LinesOf(p)'
    <3>1. \/ pc[p] = "reload" /\ pc'[p] = "readSsl"
          \/ pc[p] = "reloadTrust" /\ pc'[p] = "sync"
          \/ pc[p] = "reloadUsers" /\ pc'[p] = "randomise"
      BY <1>2, <1>4, <2>1, AfterReloadIs DEF Running, Resting
    <3>2. /\ pc[p] \in {"reload", "reloadUsers"} => Expected(p) \subseteq volume.hba
          /\ pc[p] = "reloadTrust" => volume.hba \in {run[p].hba, Expected(p)}
      BY <2>3 DEF LinesOf
    <3> QED BY <1>1, <1>2, <1>4, <2>2, <3>1, <3>2 DEF LinesOf, SslSteps
  <2>4. ASSUME SslOf(p) PROVE SslOf(p)'
    BY <1>2, <2>2, <2>4 DEF SslOf
  <2> QED BY <1>1, <1>2, <1>4, <2>1, <2>3, <2>4, LoadedStep
<1> QED BY <1>3, <1>4

LEMMA UsersLoaded ==
  ASSUME Typed, Accounted, Alone, Loaded, NEW p \in Proc, SetupUsers(p)
  PROVE  Loaded'
<1>1. /\ Running(p) /\ Stepped(p) /\ Typed' /\ cmd' = cmd
      /\ Cfg(p)' = Cfg(p) /\ Expected(p)' = Expected(p)
  BY OtherMoves, SetupTyped DEF Stepped, callVars, Cfg, Expected
<1>2. Expected(p) \in SUBSET Line
  BY CommandHere, LineTypes DEF Expected
<1>3. ASSUME pc'[p] \in UserSteps \union Resting PROVE ~run'[p].fresh
  <2>1. ReadOf(p)' /\ PlaceOf(p)' /\ run'[p].fresh \in BOOLEAN
    BY <1>1 DEF Typed, TypeOK, Placed, Locals
  <2> QED BY <1>3, <2>1 DEF ReadOf, PlaceOf, NoLocals, UserSteps, StartSteps, Resting
<1>4. ASSUME pc'[p] \in UserSteps \union Resting,
             Running(p)' /\ Up' /\ Knows(p) /\ (Up => LinesOf(p)) => LinesOf(p)'
      PROVE  Loaded'
  BY <1>1, <1>3, <1>4, LoadedStep
<1>5. CASE ConnectForUsers(p)
  <2>1. /\ pc[p] = "connect" /\ UNCHANGED <<volume, container, live>>
        /\ pc'[p] \in {"snapshot", "done", "failed"}
    BY <1>5, ConnectForUsersDoes DEF Onward
  <2>2. ASSUME Running(p)', LinesOf(p) PROVE LinesOf(p)'
    BY <2>1, <2>2 DEF LinesOf, UserSteps, Wrote, SslSteps, Running, Resting
  <2> QED BY <1>4, <2>1, <2>2 DEF UserSteps, Resting, Up
<1>6. CASE ReadSnapshot(p)
  <2>1. /\ pc[p] = "snapshot" /\ UNCHANGED <<volume, container, live>>
        /\ pc'[p] \in {"trustHba", "sync"}
        /\ run'[p] = IF Up THEN Reads(p) ELSE NoLocals
    BY <1>6, ReadSnapshotDoes DEF Onward
  <2>2. Up => run'[p].hba = volume.hba
    BY <2>1, ReadsDoes
  <2>3. ASSUME Up, LinesOf(p) PROVE LinesOf(p)'
    BY <2>1, <2>2, <2>3 DEF LinesOf, UserSteps, Wrote, SslSteps
  <2> QED BY <1>4, <2>1, <2>3 DEF UserSteps, Resting, Up
<1>7. CASE WriteUsersHba(p)
  <2>1. /\ pc[p] \in {"trustHba", "scramHba", "updateHba"}
        /\ UNCHANGED <<container, live>> /\ WritesHba(Expected(p))
        /\ pc'[p] \in {"reloadTrust", "scramConf", "reloadUsers", "failed"}
    BY <1>7, WriteUsersHbaDoes DEF Onward
  <2>2. Up => volume'.hba = Expected(p)
    BY <1>2, <2>1, WritesHbaDoes, UpHasData DEF Volume
  <2>3. ASSUME Up, Running(p)' PROVE LinesOf(p)'
    BY <1>1, <2>1, <2>2, <2>3 DEF LinesOf, Wrote, SslSteps, Running, Resting
  <2> QED BY <1>4, <2>1, <2>3 DEF UserSteps, Resting, Up
<1>8. CASE WriteUsersConf(p)
  <2>1. /\ pc[p] = "scramConf" /\ UNCHANGED <<container, live>> /\ WritesConf(run[p].ssl, TRUE)
        /\ pc'[p] \in {"reloadUsers", "failed"}
    BY <1>8, WriteUsersConfDoes DEF Onward
  <2>2. run[p].ssl \in BOOLEAN
    BY CommandHere DEF Locals
  <2>3. Up => volume'.hba = volume.hba
    BY <2>1, <2>2, WritesConfDoes, UpHasData DEF Volume
  <2>4. ASSUME Up, Running(p)', LinesOf(p) PROVE LinesOf(p)'
    BY <1>1, <2>1, <2>3, <2>4 DEF LinesOf, Wrote, SslSteps, Running, Resting
  <2> QED BY <1>4, <2>1, <2>4 DEF UserSteps, Resting, Up
<1>9. CASE SyncUser(p)
  <2>1. /\ pc[p] = "sync" /\ UNCHANGED <<container, live>>
        /\ pc'[p] \in {"sync", "failed"}
        /\ volume' = volume \/ volume'.hba = volume.hba
        /\ Running(p)' => run'[p] = [run[p] EXCEPT !.at = @ + 1]
    BY <1>9, SyncUserDoes DEF Onward, Running
  <2>2. Running(p)' => run'[p].hba = run[p].hba
    BY <2>1, CommandHere DEF Locals
  <2>3. ASSUME Running(p)', LinesOf(p) PROVE LinesOf(p)'
    BY <1>1, <2>1, <2>2, <2>3 DEF LinesOf, UserSteps, Wrote, SslSteps, Running, Resting
  <2> QED BY <1>4, <2>1, <2>3 DEF UserSteps, Resting, Up
<1>10. CASE UsersSynced(p)
  <2>1. /\ pc[p] = "sync" /\ UNCHANGED <<volume, container, live>>
        /\ pc'[p] \in {"scramHba", "updateHba", "randomise", "done"}
        /\ pc'[p] = IF ToScram(p, run[p].hba) THEN "scramHba"
                    ELSE IF pgHbaConfNeedsUpdate(run[p].hba, Expected(p)) THEN "updateHba"
                    ELSE AfterUsers(Cfg(p))
    BY <1>10, UsersSyncedDoes DEF Onward
  <2>2. pc'[p] = "randomise" => Expected(p) \subseteq run[p].hba
    BY <2>1 DEF pgHbaConfNeedsUpdate
  <2>3. ASSUME Running(p)', LinesOf(p) PROVE LinesOf(p)'
    <3>1. live.hba = volume.hba /\ volume.hba \in {run[p].hba, Expected(p)}
      BY <2>1, <2>3 DEF LinesOf, UserSteps, Wrote
    <3> QED BY <1>1, <2>1, <2>2, <2>3, <3>1 DEF LinesOf, SslSteps, Running, Resting
  <2> QED BY <1>4, <2>1, <2>3 DEF UserSteps, Resting, Up
<1>11. CASE RandomisePostgres(p)
  BY <1>1, <1>11, RandomisePostgresDoes, LoadedEnd DEF Onward, Running, Resting
<1> QED BY <1>5, <1>6, <1>7, <1>8, <1>9, <1>10, <1>11 DEF SetupUsers

LEMMA NextLoaded ==
  ASSUME Typed, Accounted, OneFile, Alone, Loaded, [Next]_vars
  PROVE  Loaded'
<1>1. Typed'
  BY NextTyped
<1>2. ASSUME NEW p \in Proc, Start(p) PROVE Loaded'
  BY <1>2, BeginLoaded, AuthorizeLoaded, SslLoaded DEF Start
<1>3. ASSUME NEW p \in Proc, SetupDbs(p) \/ Stop(p) PROVE Loaded'
  <2>1. pc'[p] \in DbSteps \union StopSteps \union Resting
    <3>1. CASE SetupDbs(p)
      BY <3>1, ConnectForDbsDoes, CreateDatabaseDoes DEF SetupDbs, Onward, DbSteps, Resting
    <3>2. CASE Stop(p)
      BY <3>2, FindContainerDoes, StopContainerDoes, RemoveStoppedDoes, RemoveVolumeDoes
         DEF Stop, Onward, StopSteps, Resting
    <3> QED BY <1>3, <3>1, <3>2
  <2>2. Running(p) /\ Stepped(p)
    BY <1>3, OtherMoves
  <2> QED BY <1>1, <2>1, <2>2, LoadedEnd DEF Running
<1>4. ASSUME NEW p \in Proc, Kill(p) PROVE Loaded'
  <2>1. Stepped(p) /\ pc'[p] = "failed" /\ Running(p)
    BY <1>4, KillDoes DEF Onward, Kill
  <2> QED BY <1>1, <2>1, LoadedEnd DEF Running, Resting
<1>5. ASSUME NEW p \in Proc, Launch(p) PROVE Loaded'
  <2>1. /\ ~Running(p) /\ UNCHANGED <<container, live, run>>
        /\ \A q \in Proc \ {p} : pc'[q] = pc[q]
        /\ pc'[p] \in {"volumeRemove", "connect", "connectDbs", "find"}
        /\ solo' = [q \in Proc |-> IF q = p THEN \A r \in Proc \ {p} : ~Running(r)
                                   ELSE solo[q] /\ ~Running(q)]
        /\ loaded' = [loaded EXCEPT ![p] = Up => live.hba = volume.hba]
        /\ volume' = volume \/ volume' = Uses(volume, file)
    BY <1>5, LaunchDoes
  <2>2. Up => volume'.hba = volume.hba
    BY <2>1, UsesDoes, UpHasData DEF Typed, TypeOK, IsVolume
  <2>3. ~run'[p].fresh
    BY <2>1, CommandHere DEF PlaceOf, Running, NoLocals
  <2>4. loaded'[p] = (Up => live.hba = volume.hba)
    BY <2>1 DEF Typed, TypeOK
  <2>5. LoadedOf(p)'
    BY <2>1, <2>2, <2>3, <2>4 DEF LoadedOf, LinesOf, Knows, SslSteps, Wrote, Up, StartSteps, UserSteps
  <2>6. ASSUME NEW q \in Proc \ {p} PROVE ~(solo'[q] /\ Running(q)')
    BY <2>1 DEF Running
  <2> QED BY <2>5, <2>6 DEF Loaded, LoadedOf, Knows
<1>6. CASE Edit \/ UNCHANGED vars
  <2>1. UNCHANGED <<volume, container, live, pc, cmd, run, solo, loaded>>
    BY <1>6, EditDoes DEF vars
  <2>2. ASSUME NEW p \in Proc PROVE LoadedOf(p)'
    <3>1. LoadedOf(p)
      BY DEF Loaded
    <3> QED BY <2>1, <3>1 DEF LoadedOf, LinesOf, SslOf, Knows, Running, Up, Cfg, Expected
  <2> QED BY <2>2 DEF Loaded
<1>7. CASE Crash
  BY <1>7, CrashDoes DEF Loaded, LoadedOf
<1> QED BY <1>2, <1>3, <1>4, <1>5, <1>6, <1>7, ReloadLoaded, UsersLoaded DEF Next

LEMMA InitLoaded == ASSUME Init PROVE Loaded
BY DEF Init, Loaded, LoadedOf, Running, Resting

-----------------------------------------------------------------------------
(***************************************************************************)
(* The end of a command.                                                   *)
(***************************************************************************)

\* Only its own steps bring a command to its end.
LEMMA WhoReports ==
  ASSUME Typed, Accounted, [Next]_vars, NEW p \in Proc, Reports(p),
         cmd[p].kind \in {"start", "setup-users"}
  PROVE  Start(p) \/ Reload(p) \/ SetupUsers(p)
<1> USE DEF Reports
<1>1. ~\E q \in Proc : Launch(q)
  BY LaunchDoes
<1>2. ~(Edit \/ Crash \/ UNCHANGED vars)
  BY DEF Edit, Crash, vars
<1>3. ~\E q \in Proc : Kill(q)
  <2> SUFFICES ASSUME NEW q \in Proc, Kill(q) PROVE FALSE
    OBVIOUS
  <2>1. Stepped(q) /\ pc'[q] = "failed"
    BY KillDoes DEF Onward
  <2> QED BY <2>1 DEF Stepped
<1>4. PICK q \in Proc : Start(q) \/ Reload(q) \/ SetupUsers(q) \/ SetupDbs(q) \/ Stop(q)
  BY <1>1, <1>2, <1>3 DEF Next
<1>5. Stepped(q)
  BY <1>4, StartMoves, OtherMoves
<1>6. q = p
  BY <1>5 DEF Stepped
<1>7. ~(SetupDbs(p) \/ Stop(p))
  <2> SUFFICES ASSUME SetupDbs(p) \/ Stop(p) PROVE pc[p] \in DbSteps \union StopSteps
    BY CommandHere DEF KindOf
  <2>1. CASE SetupDbs(p)
    BY <2>1 DEF SetupDbs, ConnectForDbs, CreateDatabase, DbSteps
  <2>2. CASE Stop(p)
    BY <2>2 DEF Stop, FindContainer, StopContainer, RemoveStopped, RemoveVolume, StopSteps
  <2> QED BY <2>1, <2>2
<1> QED BY <1>4, <1>6, <1>7

\* Where a start ends.
LEMMA StartEnds ==
  ASSUME Typed, Accounted, Alone, Loaded, NEW p \in Proc, Start(p) \/ Reload(p),
         pc'[p] = "done", Knows(p)
  PROVE  Up' /\ Expected(p) \subseteq live'.hba /\ (run[p].fresh /\ Cfg(p).ssl => live'.ssl)
<1>1. Running(p) /\ solo[p]
  BY StartMoves DEF Knows
<1>2. ASSUME Up PROVE LinesOf(p) /\ (run[p].fresh => SslOf(p))
  BY <1>1, <1>2 DEF Loaded, LoadedOf
<1>3. CASE VolumeRemove(p) \/ VolumeCreate(p) \/ Inspect(p) \/ RemoveContainer(p)
           \/ RunContainer(p) \/ WriteHba(p) \/ Restart(p)
  <2>1. pc'[p] \in {"volumeCreate", "inspect", "ready", "remove", "run", "reload", "readySsl", "failed"}
    BY <1>3, VolumeRemoveDoes, VolumeCreateDoes, InspectDoes, RemoveContainerDoes,
       RunContainerDoes, WriteHbaDoes, RestartDoes DEF Onward
  <2> QED BY <2>1
<1>4. CASE AlterPostgres(p) \/ ReadConf(p) \/ WriteConf(p)
  <2>1. pc'[p] \in {"readConf", "syncHba", "writeConf", "failed"}
    BY <1>4, AlterPostgresDoes, ReadConfDoes, WriteConfDoes DEF Onward
  <2> QED BY <2>1
<1>5. CASE WaitForReady(p)
  <2>1. pc'[p] = AfterReady(Cfg(p))
    BY <1>5, WaitForReadyDoes
  <2> QED BY <2>1 DEF AfterReady, Knows
<1>6. CASE SyncHba(p)
  <2>1. /\ pc[p] = "syncHba" /\ UNCHANGED <<container, live>> /\ Up
        /\ pc'[p] = IF pgHbaConfNeedsUpdate(volume.hba, Expected(p)) THEN "writeHba"
                    ELSE IF run[p].wrote THEN "reload" ELSE AfterAuthorization(Cfg(p))
    BY <1>6, SyncHbaDoes DEF Onward
  <2>2. live.hba = volume.hba
    BY <1>2, <2>1 DEF LinesOf, StartSteps, Wrote
  <2> QED BY <2>1, <2>2 DEF AfterAuthorization, pgHbaConfNeedsUpdate, Up
<1>7. CASE ReadSsl(p)
  <2>1. /\ pc[p] = "readSsl" /\ UNCHANGED <<container, live>> /\ Up
        /\ pc'[p] = IF ~volume.ssl THEN "writeSslConf"
                    ELSE IF hbaWithSSL(volume.hba) # volume.hba THEN "writeSslHba" ELSE "done"
    BY <1>7, ReadSslDoes DEF Onward
  <2>2. live.hba = volume.hba /\ Expected(p) \subseteq volume.hba
    BY <1>2, <2>1 DEF LinesOf, StartSteps, SslSteps, Wrote
  <2>3. volume.ssl /\ (run[p].fresh => live.ssl = volume.ssl)
    BY <1>2, <2>1 DEF SslOf
  <2> QED BY <2>1, <2>2, <2>3 DEF Up
<1>8. CASE WriteSslConf(p)
  <2>1. /\ pc[p] = "writeSslConf" /\ UNCHANGED <<container, live>> /\ Up
        /\ pc'[p] = IF hbaWithSSL(run[p].hba) # run[p].hba THEN "writeSslHba"
                    ELSE AfterSsl(p, TRUE)
    BY <1>8, WriteSslConfDoes DEF Onward
  <2>2. live.hba = volume.hba /\ Expected(p) \subseteq volume.hba
    BY <1>2, <2>1 DEF LinesOf, StartSteps, SslSteps, Wrote
  <2> QED BY <2>1, <2>2 DEF AfterSsl, Up
<1>9. CASE WriteSslHba(p)
  <2>1. pc[p] = "writeSslHba" /\ Up
    BY <1>9, WriteSslHbaDoes DEF Onward
  <2> QED BY <1>2, <2>1 DEF LinesOf
<1>10. CASE WaitForReadySsl(p)
  <2>1. /\ pc[p] = "readySsl" /\ UNCHANGED <<container, live>>
        /\ Accepts(volume, getAuthUserFromConfig(Cfg(p)), FirstDb(Cfg(p)), TRUE)
    BY <1>10, WaitForReadySslDoes DEF Onward
  <2>2. Up /\ live.ssl
    BY <2>1 DEF Accepts
  <2>3. live.hba = volume.hba /\ Expected(p) \subseteq volume.hba
    BY <1>2, <2>1, <2>2 DEF LinesOf, StartSteps, SslSteps, Wrote
  <2> QED BY <2>1, <2>2, <2>3 DEF Up
<1>11. CASE Reload(p)
  <2>1. /\ pc[p] \in {"reload", "reloadSsl", "reloadTrust", "reloadUsers"}
        /\ UNCHANGED <<volume, container>> /\ p \in connected /\ pgReloadConf
        /\ AfterReload(p) = "done"
    BY <1>11, ReloadDoes DEF Onward
  <2>2. Up /\ live'.hba = volume.hba
    BY <2>1, ClientUp DEF pgReloadConf
  <2>3. (pc[p] = "reload" /\ ~Cfg(p).ssl) \/ pc[p] = "reloadUsers"
    BY <1>2, <2>1, <2>2, AfterReloadIs DEF LinesOf
  <2>4. Expected(p) \subseteq volume.hba
    BY <1>2, <2>2, <2>3 DEF LinesOf
  <2>5. pc[p] = "reloadUsers" => ~run[p].fresh
    BY CommandHere DEF ReadOf, StartSteps
  <2> QED BY <2>1, <2>2, <2>3, <2>4, <2>5 DEF Up
<1> QED BY <1>3, <1>4, <1>5, <1>6, <1>7, <1>8, <1>9, <1>10, <1>11 DEF Start

\* Where a setup-users ends, if not with a reload.
LEMMA SetupEnds ==
  ASSUME Typed, Accounted, Alone, Loaded, NEW p \in Proc, SetupUsers(p),
         pc'[p] = "done", Knows(p)
  PROVE  Up' /\ Expected(p) \subseteq live'.hba /\ ~run[p].fresh
<1>1. Running(p) /\ Undisturbed(p) /\ pc[p] \notin StartSteps
  BY OtherMoves DEF Alone, AloneOf, Knows
<1>2. ~run[p].fresh
  BY <1>1, CommandHere DEF ReadOf, Locals
<1>3. ASSUME Up PROVE LinesOf(p)
  BY <1>1, <1>3 DEF Loaded, LoadedOf
<1>4. ASSUME pc[p] \in {"sync", "randomise"} PROVE Up
  BY <1>1, <1>4, ClientUp DEF Undisturbed, Connected, UserSteps
<1>5. CASE ConnectForUsers(p)
  BY <1>5, ConnectForUsersDoes DEF Knows
<1>6. CASE UsersSynced(p)
  <2>1. /\ pc[p] = "sync" /\ UNCHANGED <<container, live>>
        /\ pc'[p] = IF ToScram(p, run[p].hba) THEN "scramHba"
                    ELSE IF pgHbaConfNeedsUpdate(run[p].hba, Expected(p)) THEN "updateHba"
                    ELSE AfterUsers(Cfg(p))
    BY <1>6, UsersSyncedDoes DEF Onward
  <2>2. live.hba = volume.hba /\ volume.hba \in {run[p].hba, Expected(p)}
    BY <1>3, <1>4, <2>1 DEF LinesOf, UserSteps, Wrote
  <2>3. Expected(p) \subseteq run[p].hba
    BY <2>1 DEF pgHbaConfNeedsUpdate
  <2> QED BY <1>2, <1>4, <2>1, <2>2, <2>3 DEF Up
<1>7. CASE RandomisePostgres(p)
  <2>1. pc[p] = "randomise" /\ UNCHANGED <<container, live>>
    BY <1>7, RandomisePostgresDoes DEF Onward
  <2>2. live.hba = volume.hba /\ Expected(p) \subseteq volume.hba
    BY <1>3, <1>4, <2>1 DEF LinesOf, UserSteps, Wrote
  <2> QED BY <1>2, <1>4, <2>1, <2>2 DEF Up
<1>8. CASE ReadSnapshot(p)
  BY <1>8, ReadSnapshotDoes DEF Onward
<1>9. CASE WriteUsersHba(p) \/ WriteUsersConf(p) \/ SyncUser(p)
  BY <1>9, WriteUsersHbaDoes, WriteUsersConfDoes, SyncUserDoes DEF Onward
<1> QED BY <1>5, <1>6, <1>7, <1>8, <1>9 DEF SetupUsers

Inv == Typed /\ Accounted /\ OneFile /\ Alone /\ AllUniform /\ Loaded

\* Postgres!DoneAsConfigured, of startPostgres() and setupPostgresUsers(): a command that ran alone,
\* on a server that had loaded all lines when it began, and reports success leaves the
\* server with the lines of its file, and lets nobody in over the network who does
\* not have the password or the SSL that the file asks for.
THEOREM SuccessIsConfigured == Spec => DoneAsConfigured
<1> DEFINE End ==
      \A p \in Proc :
        /\ Reports(p) /\ solo[p] /\ loaded[p]
        /\ cmd[p].kind \in {"start", "setup-users"}
        /\ Cfg(p).users # << >> /\ Administers(Cfg(p))
        => /\ Expected(p) \subseteq live'.hba
           /\ \A l \in live'.hba : l.from = "any" /\ l.type # "local" =>
                /\ Cfg(p).auth => l.method = "scram"
                /\ Cfg(p).ssl => l.type = "hostssl"
           /\ run[p].fresh /\ Cfg(p).ssl => live'.ssl
<1>1. Init => Inv
  BY InitTyped, InitOneFile, InitAlone, InitUniform, InitLoaded DEF Inv
<1>2. Inv /\ [Next]_vars => Inv'
  BY NextTyped, NextOneFile, NextAlone, NextUniform, NextLoaded DEF Inv
<1>3. Inv /\ [Next]_vars => [End]_vars
  <2> SUFFICES ASSUME Inv, [Next]_vars, NEW p \in Proc, Reports(p), solo[p], loaded[p],
                      cmd[p].kind \in {"start", "setup-users"},
                      Cfg(p).users # << >>, Administers(Cfg(p))
               PROVE  /\ Expected(p) \subseteq live'.hba
                      /\ \A l \in live'.hba : l.from = "any" /\ l.type # "local" =>
                           /\ Cfg(p).auth => l.method = "scram"
                           /\ Cfg(p).ssl => l.type = "hostssl"
                      /\ run[p].fresh /\ Cfg(p).ssl => live'.ssl
    OBVIOUS
  <2>1. /\ Up' /\ Expected(p) \subseteq live'.hba
        /\ run[p].fresh /\ Cfg(p).ssl => live'.ssl
    BY WhoReports, StartEnds, SetupEnds DEF Inv, Knows, Reports
  <2>2. PICK type \in {"host", "hostssl"}, method \in Method : \A l \in live'.hba :
          l.from = "any" /\ l.type # "local" => l.type = type /\ l.method = method
    BY <1>2, <2>1 DEF Inv, AllUniform, Uniform
  <2>3. PICK l \in Expected(p) :
          /\ l.from = "any" /\ l.type = (IF Cfg(p).ssl THEN "hostssl" ELSE "host")
          /\ l.method = IF Cfg(p).auth THEN "scram" ELSE "trust"
    BY AdminLine, CommandHere DEF Inv, Expected
  <2>4. (Cfg(p).ssl => type = "hostssl") /\ (Cfg(p).auth => method = "scram")
    BY <2>1, <2>2, <2>3
  <2> QED BY <2>1, <2>2, <2>4
<1> HIDE DEF End
<1>4. Spec => [][End]_vars
  BY <1>1, <1>2, <1>3, PTL DEF Spec
<1> QED BY <1>4 DEF DoneAsConfigured, End

-----------------------------------------------------------------------------
(***************************************************************************)
(* Lines that let an administrator in everywhere.                          *)
(***************************************************************************)

Everywhere(l, name) ==
  l.type # "local" /\ l.from = "any" /\ l.db = "all" /\ l.user \in {"all", name}
Opens(hba, name) == \E l \in hba : Everywhere(l, name)
AllAdminister(cs, name) == \A c \in cs : AdministersAll(c, name)

\* If all files that lines come from let the name in everywhere, so do the lines.
AllOpen ==
  \A name \in Role :
    /\ HasData(volume) /\ AllAdminister(volume.used, name) =>
         Opens(volume.hba, name) /\ (Up => Opens(live.hba, name))
    /\ \A p \in Proc : run[p].seen # {} /\ AllAdminister(run[p].seen, name) =>
         Opens(run[p].hba, name)

\* What the file gives a user in the databases that there are.
For(v, u, dbs, when) == {d \in dbs : <<u.name, d, when>> \in v.granted}
GrantedIn(c, v, u) ==
  LET wanted == getDatabasesToManage(c, u)
      dbs == ToSet(c.dbs) \cap v.dbs
  IN wanted # {} => /\ For(v, u, dbs, "existing") = wanted \cap dbs
                    /\ wanted \cap dbs \subseteq For(v, u, dbs, "future")
Granted(c, u) == GrantedIn(c, volume, u)

AfterSync == {"scramHba", "scramConf", "updateHba", "reloadUsers", "randomise"}

\* A setup-users has been at the k-th user.
Synced(p, k) == pc[p] \in AfterSync \/ (pc[p] = "sync" /\ k < run[p].at)

\* A setup-users that runs alone goes over the users from the first one on, and what
\* it has granted stays.
GrantedOf(p) ==
  solo[p] /\ Running(p) =>
    /\ pc[p] \in UsersFirst \ {"sync"} => run[p].at = 1
    /\ /\ Up /\ ListsOnce(Cfg(p))
       /\ AllAdminister(volume.used, getAuthUserFromConfig(Cfg(p)).name)
       => \A k \in DOMAIN Cfg(p).users : Synced(p, k) => Granted(Cfg(p), Cfg(p).users[k])

AllGranted == \A p \in Proc : GrantedOf(p)

LEMMA OpensLines ==
  ASSUME NEW c \in Configs, NEW name
  PROVE  /\ Opens(DefaultLines(c.auth), name)
         /\ c.users # << >> /\ AdministersAll(c, name) => Opens(generatePgHbaConfContent(c), name)
         /\ \A hba \in SUBSET Line : Opens(hba, name) => Opens(hbaWithSSL(hba), name)
<1>1. Opens(DefaultLines(c.auth), name)
  <2> DEFINE l == [type |-> "host", db |-> "all", user |-> "all", from |-> "any",
                   method |-> IF c.auth THEN "scram" ELSE "trust"]
  <2>1. l \in DefaultLines(c.auth)
    BY DEF DefaultLines
  <2>2. Everywhere(l, name)
    BY DEF Everywhere
  <2> QED BY <2>1, <2>2 DEF Opens
<1>2. c.users # << >> /\ AdministersAll(c, name) => Opens(generatePgHbaConfContent(c), name)
  BY GeneratedLine DEF AdministersAll, Opens, Everywhere
<1>3. ASSUME NEW hba \in SUBSET Line, Opens(hba, name) PROVE Opens(hbaWithSSL(hba), name)
  <2>1. PICK l \in hba : Everywhere(l, name)
    BY <1>3 DEF Opens
  <2> DEFINE w == IF l.type = "host" THEN [l EXCEPT !.type = "hostssl"] ELSE l
  <2>2. w \in setPgHbaRequireSSL(hba)
    BY DEF setPgHbaRequireSSL
  <2>3. Everywhere(w, name)
    <3> l \in Line
      OBVIOUS
    <3> QED BY <2>1 DEF Everywhere, Line
  <2> QED BY <1>3, <2>2, <2>3 DEF Opens, hbaWithSSL
<1> QED BY <1>1, <1>2, <1>3

LEMMA OpenKept ==
  ASSUME Typed, AllOpen, NEW p \in Proc, Stepped(p), Copied(p),
         \A name \in Role : HasData(volume)' /\ AllAdminister(volume'.used, name) =>
           Opens(volume'.hba, name) /\ (Up' => Opens(live'.hba, name))
  PROVE  AllOpen'
<1>1. ASSUME NEW name \in Role, NEW q \in Proc, run'[q].seen # {},
             AllAdminister(run'[q].seen, name)
      PROVE  Opens(run'[q].hba, name)
  <2>1. CASE run'[q].seen = run[q].seen /\ run'[q].hba = run[q].hba
    BY <1>1, <2>1 DEF AllOpen
  <2>2. CASE run'[q] = NoLocals
    BY <1>1, <2>2 DEF NoLocals
  <2>3. CASE Up /\ run'[q].seen = volume.used /\ run'[q].hba = volume.hba
    <3>1. HasData(volume)
      BY <2>3, UpHasData
    <3> QED BY <1>1, <2>3, <3>1 DEF AllOpen
  <2>4. CASE q # p
    BY <1>1, <2>1, <2>4 DEF Stepped
  <2> QED BY <2>1, <2>2, <2>3, <2>4 DEF Copied
<1> QED BY <1>1 DEF AllOpen

\* The steps that write no lines and have none loaded.
LEMMA OpenSame ==
  ASSUME Typed, AllOpen, NEW p \in Proc, Stepped(p), Copied(p), live' = live, Up' => Up,
         \/ volume' = volume \/ ~HasData(volume)'
         \/ Up /\ volume'.hba = volume.hba /\ volume'.used = volume.used
  PROVE  AllOpen'
<1>1. HasData(volume)' =>
        HasData(volume) /\ volume'.hba = volume.hba /\ volume'.used = volume.used
  BY UpHasData
<1> QED BY <1>1, OpenKept DEF AllOpen

\* The steps that write lines.
LEMMA OpenHba ==
  ASSUME Typed, AllOpen, NEW p \in Proc, Stepped(p), Copied(p), UNCHANGED <<container, live>>,
         NEW hba \in SUBSET Line, WritesHba(hba),
         \A name \in Role : Up /\ AllAdminister(volume.used, name) => Opens(hba, name)
  PROVE  AllOpen'
<1>1. CASE ~Up
  <2>1. volume' = volume
    BY <1>1, WritesHbaDoes
  <2> QED BY <2>1, OpenSame DEF Up
<1>2. CASE Up
  <2>1. volume \in Volume /\ HasData(volume) /\ volume' = [volume EXCEPT !.hba = hba]
    BY <1>2, UpHasData, WritesHbaDoes
  <2>2. volume'.hba = hba /\ volume'.used = volume.used
    BY <2>1 DEF Volume
  <2> QED BY <1>2, <2>1, <2>2, OpenKept DEF AllOpen, Up
<1> QED BY <1>1, <1>2

\* The steps that write other settings.
LEMMA OpenConf ==
  ASSUME Typed, AllOpen, NEW p \in Proc, Stepped(p), Copied(p), UNCHANGED <<container, live>>,
         NEW ssl \in BOOLEAN, NEW scram \in BOOLEAN, WritesConf(ssl, scram)
  PROVE  AllOpen'
<1>1. CASE ~Up
  <2>1. volume' = volume
    BY <1>1, WritesConfDoes
  <2> QED BY <2>1, OpenSame DEF Up
<1>2. CASE Up
  <2>1. volume \in Volume /\ volume' = [volume EXCEPT !.ssl = ssl, !.scram = scram]
    BY <1>2, UpHasData, WritesConfDoes
  <2>2. volume'.hba = volume.hba /\ volume'.used = volume.used
    BY <2>1 DEF Volume
  <2> QED BY <1>2, <2>2, OpenSame DEF Up
<1> QED BY <1>1, <1>2

\* The server starts with the lines of its volume.
LEMMA OpenBoot ==
  ASSUME Typed, AllOpen, NEW p \in Proc, Stepped(p), Copied(p),
         NEW v \in Volume, NEW certs \in BOOLEAN, Boot(v, certs),
         \A name \in Role : AllAdminister(v.used, name) => Opens(v.hba, name)
  PROVE  AllOpen'
<1>1. volume' = v /\ (Up' => live'.hba = v.hba)
  BY BootDoes
<1> QED BY <1>1, OpenKept

\* A command's own lines are of a file that worked on the volume.
LEMMA OpenOwn ==
  ASSUME Typed, Accounted, NEW p \in Proc, p \in Setters, Up, Cfg(p).users # << >>,
         NEW name \in Role, AllAdminister(volume.used, name)
  PROVE  Opens(Expected(p), name)
<1>1. Cfg(p) \in volume.used /\ Cfg(p) \in Configs
  BY UpHasData, CommandHere DEF Accounted
<1>2. AdministersAll(Cfg(p), name)
  BY <1>1 DEF AllAdminister
<1> QED BY <1>1, <1>2, OpensLines DEF Expected

LEMMA StartOpen ==
  ASSUME Typed, Accounted, AllOpen, NEW p \in Proc, Start(p)
  PROVE  AllOpen'
<1>1. Stepped(p) /\ Expected(p) \in SUBSET Line /\ Cfg(p) \in Configs
      /\ run[p].hba \in SUBSET Line /\ PlaceOf(p) /\ ReadOf(p)
  <2>1. run[p] \in Locals /\ Cfg(p) \in Configs
    BY CommandHere
  <2> QED BY <2>1, StartMoves, LineTypes, CommandHere DEF Expected, Locals
<1>2. CASE VolumeRemove(p)
  <2>1. /\ Copied(p) /\ UNCHANGED <<container, live>>
        /\ volume' = volume \/ volume' = NoVolume
    BY <1>2, VolumeRemoveDoes DEF Onward
  <2> QED BY <1>1, <2>1, OpenSame, VolumeKinds DEF Up
<1>3. CASE VolumeCreate(p)
  <2>1. /\ Copied(p) /\ UNCHANGED <<container, live>>
        /\ volume' = volume \/ volume' = NewVolume
    BY <1>3, VolumeCreateDoes DEF Onward
  <2> QED BY <1>1, <2>1, OpenSame, NewVolumeDoes DEF Up
<1>4. CASE Inspect(p)
  <2>1. Copied(p) /\ UNCHANGED <<volume, container, live>>
    BY <1>4, InspectDoes DEF Onward
  <2> QED BY <1>1, <2>1, OpenSame DEF Up
<1>5. CASE RemoveContainer(p)
  <2>1. Copied(p) /\ UNCHANGED <<volume, live>> /\ (Up' => Up)
    BY <1>5, RemoveContainerDoes DEF Onward, Up
  <2> QED BY <1>1, <2>1, OpenSame
<1>6. CASE RunContainer(p)
  <2>1. /\ Copied(p)
        /\ container.state # "none" => UNCHANGED <<volume, container, live>>
        /\ container.state = "none" => /\ Boot(VolumeToRun(p), Cfg(p).ssl)
                                       /\ VolumeToRun(p) \in Volume
    BY <1>6, RunContainerDoes DEF Onward
  <2>2. CASE container.state # "none"
    BY <1>1, <2>1, <2>2, OpenSame DEF Up
  <2>3. CASE container.state = "none"
    <3>1. ASSUME NEW name \in Role, AllAdminister(VolumeToRun(p).used, name)
          PROVE  Opens(VolumeToRun(p).hba, name)
      <4> DEFINE v == IF volume = NoVolume THEN NewVolume ELSE volume
      <4>1. HasData(v) => v = volume
        BY NewVolumeDoes
      <4>2. v.used \in SUBSET Configs
        BY NewVolumeDoes, DataIsVolume DEF Typed, TypeOK, IsVolume
      <4>3. buildDockerEnvVars(Cfg(p), v).hba = DefaultLines(Cfg(p).auth)
        BY <1>1, <4>2, ImageDoes
      <4>4. VolumeToRun(p) = IF HasData(v) THEN v ELSE buildDockerEnvVars(Cfg(p), v)
        BY DEF VolumeToRun
      <4> HIDE DEF v
      <4> QED BY <1>1, <3>1, <4>1, <4>3, <4>4, OpensLines DEF AllOpen
    <3>2. Cfg(p).ssl \in BOOLEAN
      BY <1>1, FileTypes
    <3> QED BY <1>1, <2>1, <2>3, <3>1, <3>2, OpenBoot
  <2> QED BY <2>2, <2>3
<1>7. CASE WaitForReady(p) \/ SyncHba(p) \/ WaitForReadySsl(p)
  <2>1. Copied(p) /\ UNCHANGED <<volume, container, live>>
    BY <1>7, WaitForReadyDoes, SyncHbaDoes, WaitForReadySslDoes DEF Onward
  <2> QED BY <1>1, <2>1, OpenSame DEF Up
<1>8. CASE ReadConf(p)
  <2>1. Copied(p) /\ UNCHANGED <<volume, container, live>>
    BY <1>8, ReadConfDoes DEF Onward
  <2> QED BY <1>1, <2>1, OpenSame DEF Up
<1>9. CASE ReadSsl(p)
  <2>1. Copied(p) /\ UNCHANGED <<volume, container, live>>
    BY <1>9, ReadSslDoes DEF Onward
  <2> QED BY <1>1, <2>1, OpenSame DEF Up
<1>10. CASE AlterPostgres(p)
  <2>1. Copied(p) /\ UNCHANGED <<container, live>> /\ Randomised(p)
    BY <1>10, AlterPostgresDoes DEF Onward
  <2>2. volume' = volume \/ (Up /\ volume'.hba = volume.hba /\ volume'.used = volume.used)
    BY <2>1, RandomisedDoes, UpHasData DEF Volume
  <2> QED BY <1>1, <2>1, <2>2, OpenSame DEF Up
<1>11. CASE WriteConf(p)
  <2>1. Copied(p) /\ UNCHANGED <<container, live>> /\ WritesConf(run[p].ssl, TRUE)
    BY <1>11, WriteConfDoes DEF Onward
  <2>2. run[p].ssl \in BOOLEAN
    BY CommandHere DEF Locals
  <2> QED BY <1>1, <2>1, <2>2, OpenConf
<1>12. CASE WriteHba(p)
  <2>1. /\ Copied(p) /\ UNCHANGED <<container, live>> /\ WritesHba(Expected(p))
        /\ pc[p] = "writeHba"
    BY <1>12, WriteHbaDoes DEF Onward
  <2>2. p \in Setters /\ Cfg(p).users # << >>
    BY <1>1, <2>1, SettersHere DEF PlaceOf, StartSteps, LineSteps
  <2> QED BY <1>1, <2>1, <2>2, OpenOwn, OpenHba
<1>13. CASE WriteSslConf(p)
  <2>1. /\ Copied(p) /\ UNCHANGED <<container, live>> /\ WritesConf(TRUE, run[p].scram)
        /\ run[p].scram \in BOOLEAN
    BY <1>13, WriteSslConfDoes DEF Onward
  <2> QED BY <1>1, <2>1, OpenConf
<1>14. CASE WriteSslHba(p)
  <2>1. /\ Copied(p) /\ UNCHANGED <<container, live>> /\ WritesHba(hbaWithSSL(run[p].hba))
        /\ pc[p] = "writeSslHba"
    BY <1>14, WriteSslHbaDoes DEF Onward
  <2>2. run[p].seen # {} /\ p \in Setters
    BY <1>1, <2>1, SettersHere DEF ReadOf, StartSteps
  <2>3. ASSUME NEW name \in Role, Up, AllAdminister(volume.used, name)
        PROVE  Opens(hbaWithSSL(run[p].hba), name)
    <3>1. run[p].seen \subseteq volume.used
      BY <2>2, <2>3, UpHasData DEF Accounted
    <3>2. Opens(run[p].hba, name)
      BY <2>2, <2>3, <3>1 DEF AllOpen, AllAdminister
    <3> QED BY <1>1, <3>2, OpensLines
  <2>4. hbaWithSSL(run[p].hba) \in SUBSET Line
    BY <1>1, LineTypes
  <2> QED BY <1>1, <2>1, <2>3, <2>4, OpenHba
<1>15. CASE Restart(p)
  <2>1. /\ Copied(p)
        /\ container.state = "none" => UNCHANGED <<volume, container, live>>
        /\ container.state # "none" => Boot(volume, container.certs) /\ volume \in Volume
                                       /\ container.certs \in BOOLEAN
    BY <1>15, RestartDoes DEF Onward
  <2>2. CASE container.state = "none"
    BY <1>1, <2>1, <2>2, OpenSame DEF Up
  <2>3. CASE container.state # "none"
    <3>1. \A name \in Role : AllAdminister(volume.used, name) => Opens(volume.hba, name)
      BY <2>1, <2>3, VolumeKinds DEF AllOpen
    <3> QED BY <1>1, <2>1, <2>3, <3>1, OpenBoot
  <2> QED BY <2>2, <2>3
<1> QED BY <1>2, <1>3, <1>4, <1>5, <1>6, <1>7, <1>8, <1>9, <1>10, <1>11, <1>12, <1>13, <1>14, <1>15
        DEF Start

LEMMA SetupOpen ==
  ASSUME Typed, Accounted, AllOpen, NEW p \in Proc, Reload(p) \/ SetupUsers(p) \/ SetupDbs(p)
  PROVE  AllOpen'
<1>1. Stepped(p) /\ Expected(p) \in SUBSET Line /\ Cfg(p) \in Configs
  <2>1. Cfg(p) \in Configs
    BY CommandHere
  <2> QED BY <2>1, StartMoves, OtherMoves, LineTypes DEF Expected
<1>2. CASE Reload(p)
  <2>1. Copied(p) /\ UNCHANGED <<volume, container>>
        /\ IF p \in connected THEN pgReloadConf ELSE UNCHANGED live
    BY <1>2, ReloadDoes DEF Onward
  <2>2. CASE p \in connected
    <3>1. Up /\ live'.hba = volume.hba
      BY <2>1, <2>2, ClientUp DEF pgReloadConf
    <3> QED BY <1>1, <2>1, <3>1, OpenKept DEF AllOpen
  <2>3. CASE p \notin connected
    BY <1>1, <2>1, <2>3, OpenSame DEF Up
  <2> QED BY <2>2, <2>3
<1>3. CASE ConnectForUsers(p) \/ UsersSynced(p) \/ ConnectForDbs(p)
  <2>1. Copied(p) /\ UNCHANGED <<volume, container, live>>
    BY <1>3, ConnectForUsersDoes, UsersSyncedDoes, ConnectForDbsDoes DEF Onward
  <2> QED BY <1>1, <2>1, OpenSame DEF Up
<1>4. CASE ReadSnapshot(p)
  <2>1. Copied(p) /\ UNCHANGED <<volume, container, live>>
    BY <1>4, ReadSnapshotDoes DEF Onward
  <2> QED BY <1>1, <2>1, OpenSame DEF Up
<1>5. CASE WriteUsersHba(p)
  <2>1. /\ Copied(p) /\ UNCHANGED <<container, live>> /\ WritesHba(Expected(p))
        /\ pc[p] \in {"trustHba", "scramHba", "updateHba"}
    BY <1>5, WriteUsersHbaDoes DEF Onward
  <2>2. p \in Setters /\ Cfg(p).users # << >>
    BY <2>1, SettersHere, CommandHere DEF PlaceOf, UserSteps, LineSteps
  <2> QED BY <1>1, <2>1, <2>2, OpenOwn, OpenHba
<1>6. CASE WriteUsersConf(p)
  <2>1. Copied(p) /\ UNCHANGED <<container, live>> /\ WritesConf(run[p].ssl, TRUE)
    BY <1>6, WriteUsersConfDoes DEF Onward
  <2>2. run[p].ssl \in BOOLEAN
    BY CommandHere DEF Locals
  <2> QED BY <1>1, <2>1, <2>2, OpenConf
<1>7. CASE SyncUser(p)
  <2>1. /\ Copied(p) /\ UNCHANGED <<container, live>>
        /\ volume' = volume \/ (Up /\ volume'.hba = volume.hba /\ volume'.used = volume.used)
    BY <1>7, SyncUserDoes DEF Onward
  <2> QED BY <1>1, <2>1, OpenSame DEF Up
<1>8. CASE RandomisePostgres(p)
  <2>1. Copied(p) /\ UNCHANGED <<container, live>> /\ Randomised(p)
    BY <1>8, RandomisePostgresDoes DEF Onward
  <2>2. volume' = volume \/ (Up /\ volume'.hba = volume.hba /\ volume'.used = volume.used)
    BY <2>1, RandomisedDoes, UpHasData DEF Volume
  <2> QED BY <1>1, <2>1, <2>2, OpenSame DEF Up
<1>9. CASE CreateDatabase(p)
  <2>1. /\ Copied(p) /\ UNCHANGED <<container, live>>
        /\ volume' = volume \/ (Up /\ volume'.hba = volume.hba /\ volume'.used = volume.used)
    BY <1>9, CreateDatabaseDoes DEF Onward
  <2> QED BY <1>1, <2>1, OpenSame DEF Up
<1> QED BY <1>2, <1>3, <1>4, <1>5, <1>6, <1>7, <1>8, <1>9 DEF SetupUsers, SetupDbs

LEMMA NextOpen ==
  ASSUME Typed, Accounted, AllOpen, [Next]_vars
  PROVE  AllOpen'
<1>1. ASSUME NEW p \in Proc, Launch(p) PROVE AllOpen'
  <2>1. /\ UNCHANGED <<container, live, run>>
        /\ volume' = volume \/ volume' = Uses(volume, file)
    BY <1>1, LaunchDoes
  <2>2. HasData(volume)' =>
          HasData(volume) /\ volume'.hba = volume.hba /\ volume.used \subseteq volume'.used
    BY <2>1, UsesDoes, VolumeKinds DEF Typed, TypeOK, IsVolume
  <2> QED BY <2>1, <2>2 DEF AllOpen, AllAdminister, Up
<1>2. CASE Edit \/ UNCHANGED vars
  <2>1. UNCHANGED <<volume, container, live, run>>
    BY <1>2, EditDoes DEF vars
  <2> QED BY <2>1 DEF AllOpen, Up
<1>3. CASE Crash
  BY <1>3, CrashDoes DEF AllOpen
<1>4. ASSUME NEW p \in Proc,
             FindContainer(p) \/ StopContainer(p) \/ RemoveStopped(p) \/ RemoveVolume(p)
      PROVE  AllOpen'
  <2>1. /\ Stepped(p) /\ Copied(p) /\ live' = live /\ (Up' => Up)
        /\ volume' = volume \/ volume' = NoVolume
    BY <1>4, FindContainerDoes, StopContainerDoes, RemoveStoppedDoes, RemoveVolumeDoes DEF Onward, Up
  <2> QED BY <2>1, OpenSame, VolumeKinds
<1>5. ASSUME NEW p \in Proc, Kill(p) PROVE AllOpen'
  <2>1. Stepped(p) /\ Copied(p) /\ UNCHANGED <<volume, container, live>>
    BY <1>5, KillDoes DEF Onward
  <2> QED BY <2>1, OpenSame DEF Up
<1> QED BY <1>1, <1>2, <1>3, <1>4, <1>5, StartOpen, SetupOpen DEF Next, Stop

LEMMA InitOpen == ASSUME Init PROVE AllOpen
<1>1. \A p \in Proc : run[p].seen = {}
  BY DEF Init, NoLocals
<1>2. ~HasData(volume)
  BY VolumeKinds DEF Init
<1> QED BY <1>1, <1>2 DEF AllOpen


-----------------------------------------------------------------------------
(***************************************************************************)
(* Privileges.                                                             *)
(***************************************************************************)

\* Who is let in to one database is let in to all, if lines let them in everywhere.
LEMMA ReachesAll ==
  ASSUME Typed, AllUniform, AllOpen, NEW p \in Proc, Up, NEW v \in Volume,
         "postgres" \in Reachable(p, v),
         AllAdminister(volume.used, getAuthUserFromConfig(Cfg(p)).name)
  PROVE  Reachable(p, v) = v.dbs
<1> DEFINE admin == getAuthUserFromConfig(Cfg(p))
           ssl == Cfg(p).ssl
           types == IF ssl THEN {"host", "hostssl"} ELSE {"host"}
<1>1. /\ ssl => live.ssl
      /\ v.pw[admin.name] # "absent"
      /\ \E l \in live.hba :
           /\ l.type \in types /\ l.from = "any"
           /\ l.method = "scram" => admin.pw # "" /\ admin.pw = v.pw[admin.name]
  BY DEF Reachable, Accepts
<1>2. PICK l \in live.hba :
        /\ l.type \in types /\ l.from = "any"
        /\ l.method = "scram" => admin.pw # "" /\ admin.pw = v.pw[admin.name]
  BY <1>1
<1>3. PICK w \in live.hba : Everywhere(w, admin.name)
  <2>1. HasData(volume) /\ admin.name \in Role
    BY UpHasData, CommandHere, AdminIs
  <2> QED BY <2>1 DEF AllOpen, Opens
<1>4. w.type = l.type /\ w.method = l.method
  <2>1. PICK type \in {"host", "hostssl"}, method \in Method : \A x \in live.hba :
          x.from = "any" /\ x.type # "local" => x.type = type /\ x.method = method
    BY DEF AllUniform, Uniform
  <2> QED BY <1>2, <1>3, <2>1 DEF Everywhere
<1>5. \A d \in v.dbs : Accepts(v, admin, d, ssl)
  BY <1>1, <1>2, <1>3, <1>4 DEF Accepts, Everywhere
<1> QED BY <1>5 DEF Reachable

\* The privileges of one user, with a client that reaches all databases.
LEMMA PermissionsDo ==
  ASSUME Typed, NEW p \in Proc, NEW v \in Volume, NEW u \in User,
         getDatabasesToManage(Cfg(p), u) # {} => Reachable(p, v) = v.dbs
  PROVE  LET w == syncDatabasePermissions(p, v, u)
         IN /\ GrantedIn(Cfg(p), w, u)
            /\ \A name, d, when : name # u.name =>
                 (<<name, d, when>> \in w.granted <=> <<name, d, when>> \in v.granted)
<1> DEFINE wanted == getDatabasesToManage(Cfg(p), u)
           dbs == ToSet(Cfg(p).dbs) \cap v.dbs
           r == revokeDatabasePermissions(p, v, {u.name}, ToSet(Cfg(p).dbs) \ wanted)
           w == syncDatabasePermissions(p, v, u)
<1>1. w = IF wanted = {} THEN v ELSE grantDatabasePermissions(p, r, {u.name}, wanted)
  BY DEF syncDatabasePermissions
<1>2. {u.name} \in SUBSET Role
  BY DEF User
<1>3. r \in Volume /\ r.pw = v.pw /\ r.dbs = v.dbs
  BY <1>2, GrantsDo
<1> DEFINE away == (ToSet(Cfg(p).dbs) \ wanted) \cap Reachable(p, v)
           here == wanted \cap Reachable(p, v)
<1>4. r.granted = v.granted \ RevokedPrivileges({u.name}, away)
  BY DEF revokeDatabasePermissions, Volume
<1> HIDE DEF r
<1>5. Reachable(p, r) = Reachable(p, v)
  BY <1>3 DEF Reachable, Accepts
<1>6. wanted # {} => /\ w.granted = r.granted \union GrantedPrivileges({u.name}, here)
                     /\ w.dbs = v.dbs
  <2>1. LET g == grantDatabasePermissions(p, r, {u.name}, wanted) IN
        /\ g.granted = r.granted \union GrantedPrivileges({u.name}, here)
        /\ g.dbs = r.dbs
    BY <1>3, <1>5 DEF grantDatabasePermissions, Volume
  <2> QED BY <1>1, <1>3, <2>1
<1>7. wanted = {} => w = v
  BY <1>1
<1> HIDE DEF wanted, w, away, here
<1>8. ASSUME NEW name, NEW d, NEW when, name # u.name
      PROVE  <<name, d, when>> \in w.granted <=> <<name, d, when>> \in v.granted
  BY <1>4, <1>6, <1>7, <1>8 DEF RevokedPrivileges, GrantedPrivileges
<1>9. ASSUME wanted # {} PROVE GrantedIn(Cfg(p), w, u)
  <2>1. Reachable(p, v) = v.dbs
    BY <1>9 DEF wanted
  <2>2. ASSUME NEW d \in dbs
        PROVE  /\ <<u.name, d, "existing">> \in w.granted <=> d \in wanted
               /\ d \in wanted => <<u.name, d, "future">> \in w.granted
    <3>1. d \in away <=> d \notin wanted
      BY <2>1 DEF away
    <3>2. d \in here <=> d \in wanted
      BY <2>1 DEF here
    <3>3. ASSUME d \in wanted
          PROVE  /\ <<u.name, d, "existing">> \in w.granted
                 /\ <<u.name, d, "future">> \in w.granted
      BY <1>6, <1>9, <3>2, <3>3 DEF GrantedPrivileges
    <3>4. ASSUME d \notin wanted PROVE <<u.name, d, "existing">> \notin w.granted
      <4>1. <<u.name, d, "existing">> \notin r.granted
        BY <1>4, <3>1, <3>4 DEF RevokedPrivileges
      <4> QED BY <1>6, <1>9, <3>2, <3>4, <4>1 DEF GrantedPrivileges
    <3> QED BY <3>3, <3>4
  <2>3. /\ For(w, u, dbs, "existing") = wanted \cap dbs
        /\ wanted \cap dbs \subseteq For(w, u, dbs, "future")
    BY <2>2 DEF For
  <2> QED BY <1>6, <1>9, <2>3 DEF GrantedIn, wanted
<1>10. wanted = {} => GrantedIn(Cfg(p), w, u)
  BY DEF GrantedIn, wanted
<1> QED BY <1>8, <1>9, <1>10 DEF w

LEMMA GrantedStep ==
  ASSUME Typed, Alone, AllGranted, NEW p \in Proc, Running(p), Stepped(p), GrantedOf(p)'
  PROVE  AllGranted'
<1>1. ASSUME NEW q \in Proc \ {p} PROVE GrantedOf(q)'
  <2>1. pc'[q] = pc[q] /\ solo' = solo
    BY DEF Stepped, callVars
  <2>2. ~(solo[q] /\ Running(q))
    BY DEF Alone, AloneOf
  <2> QED BY <2>1, <2>2 DEF GrantedOf, Running
<1> QED BY <1>1 DEF AllGranted

\* The other commands have nothing to do with it.
LEMMA GrantedOthers ==
  ASSUME Typed, Alone, AllGranted, NEW p \in Proc, Running(p), Stepped(p), Typed',
         pc[p] \notin UserSteps
  PROVE  AllGranted'
<1>1. cmd' = cmd /\ KindOf(p) /\ KindOf(p)'
  BY CommandHere DEF Stepped, callVars, Typed, Placed
<1>2. pc[p] \in StartSteps \union DbSteps \union StopSteps
  BY CommandHere DEF Running, Resting, Steps, StartSteps, UserSteps, DbSteps, StopSteps
<1>3. pc'[p] \notin UserSteps
  BY <1>1, <1>2 DEF KindOf
<1> QED BY <1>3, GrantedStep DEF GrantedOf, Synced, UserSteps, UsersFirst, AfterSync

\* The steps of a setup-users that do not come from one user to the next.
Came(p) ==
  /\ pc'[p] \in UsersFirst => pc[p] \in UsersFirst \ {"sync"} /\ run'[p].at = run[p].at
  /\ pc'[p] \in AfterSync =>
       \/ pc[p] \in AfterSync
       \/ pc[p] = "sync" /\ run[p].at \notin DOMAIN Cfg(p).users

LEMMA AllSynced ==
  ASSUME Typed, NEW p \in Proc, pc[p] = "sync", run[p].at \notin DOMAIN Cfg(p).users,
         NEW k \in DOMAIN Cfg(p).users
  PROVE  k < run[p].at
<1>1. run[p].at \in Nat \ {0}
  BY CommandHere DEF PlaceOf, UsersFirst
<1>2. Cfg(p).users \in Seq(User)
  BY CommandHere, FileTypes DEF Config
<1>3. DOMAIN Cfg(p).users = 1..Len(Cfg(p).users) /\ Len(Cfg(p).users) \in Nat
  BY <1>2
<1> QED BY <1>1, <1>3

LEMMA SyncedBefore ==
  ASSUME Typed, NEW p \in Proc, Running(p), solo[p], GrantedOf(p), Came(p),
         NEW k \in DOMAIN Cfg(p).users, Synced(p, k)'
  PROVE  Synced(p, k)
<1>1. CASE pc'[p] \in AfterSync
  BY <1>1, AllSynced DEF Came, Synced
<1>2. CASE pc'[p] = "sync" /\ k < run'[p].at
  <2>1. run'[p].at = 1
    BY <1>2 DEF GrantedOf, Came, UsersFirst
  <2>2. k \in Nat /\ k >= 1
    BY CommandHere, FileTypes DEF Config
  <2> QED BY <1>2, <2>1, <2>2
<1> QED BY <1>1, <1>2 DEF Synced

\* These steps leave privileges, and the passwords of the file's users, as they are.
LEMMA GrantedSame ==
  ASSUME Typed, Alone, AllGranted, NEW p \in Proc, Running(p), Stepped(p),
         UNCHANGED container, solo[p] => Came(p),
         Up => /\ volume'.used = volume.used /\ volume'.dbs = volume.dbs
               /\ volume'.granted = volume.granted
  PROVE  AllGranted'
<1>1. solo' = solo /\ Cfg(p)' = Cfg(p) /\ (Up' <=> Up)
  BY DEF Stepped, callVars, Cfg, Up
<1> SUFFICES ASSUME solo[p], Running(p)' PROVE GrantedOf(p)'
  BY <1>1, GrantedStep DEF GrantedOf
<1>2. GrantedOf(p)
  BY DEF AllGranted
<1>3. ASSUME Up, ListsOnce(Cfg(p)),
             AllAdminister(volume.used, getAuthUserFromConfig(Cfg(p)).name),
             NEW k \in DOMAIN Cfg(p).users, Synced(p, k)'
      PROVE  Granted(Cfg(p), Cfg(p).users[k])'
  <2>1. Granted(Cfg(p), Cfg(p).users[k])
    BY <1>2, <1>3, SyncedBefore DEF GrantedOf
  <2> QED BY <1>1, <1>3, <2>1 DEF Granted, GrantedIn, For
<1>4. pc'[p] \in UsersFirst => run'[p].at = 1
  BY <1>2 DEF GrantedOf, Came
<1>5. Up => volume'.used = volume.used
  OBVIOUS
<1> QED BY <1>1, <1>3, <1>4, <1>5 DEF GrantedOf

LEMMA SetupKeeps ==
  ASSUME Typed, Accounted, NEW p \in Proc, SetupUsers(p) \/ Reload(p), ~SyncUser(p)
  PROVE  /\ Stepped(p) /\ Running(p) /\ Typed' /\ UNCHANGED container
         /\ Up => /\ volume'.used = volume.used /\ volume'.dbs = volume.dbs
                  /\ volume'.granted = volume.granted
                  /\ \A u \in ToSet(Cfg(p).users) : volume'.pw[u.name] = volume.pw[u.name]
<1>1. Stepped(p) /\ Running(p) /\ Typed'
  <2>1. CASE SetupUsers(p)
    BY <2>1, OtherMoves, SetupTyped
  <2>2. CASE Reload(p)
    BY <2>2, ReloadDoes DEF Onward, Running, Resting
  <2> QED BY <2>1, <2>2
<1>2. CASE ConnectForUsers(p) \/ ReadSnapshot(p) \/ UsersSynced(p) \/ Reload(p)
  <2>1. UNCHANGED <<volume, container>>
    BY <1>2, ConnectForUsersDoes, ReadSnapshotDoes, UsersSyncedDoes, ReloadDoes
  <2> QED BY <1>1, <2>1
<1>3. CASE WriteUsersHba(p) \/ WriteUsersConf(p)
  <2>1. /\ UNCHANGED container
        /\ WritesHba(Expected(p)) \/ WritesConf(run[p].ssl, TRUE)
    BY <1>3, WriteUsersHbaDoes, WriteUsersConfDoes
  <2> QED BY <1>1, <2>1, UpHasData DEF WritesHba, WritesConf, Volume
<1>4. CASE RandomisePostgres(p)
  <2>1. pc[p] = "randomise" /\ UNCHANGED container /\ Randomised(p)
    BY <1>4, RandomisePostgresDoes DEF Onward
  <2>2. \A u \in ToSet(Cfg(p).users) : u.name # "postgres" /\ u.name \in Role
    <3>1. ~InUsers(Cfg(p), "postgres") /\ Cfg(p) \in Configs
      BY <2>1, CommandHere DEF PlaceOf
    <3> SUFFICES ASSUME NEW u \in ToSet(Cfg(p).users)
                 PROVE  u.name # "postgres" /\ u.name \in Role
      OBVIOUS
    <3>2. u \in User
      BY <3>1, FileTypes
    <3> QED BY <3>1, <3>2 DEF InUsers, User
  <2>3. ASSUME Up
        PROVE  /\ volume'.used = volume.used /\ volume'.dbs = volume.dbs
               /\ volume'.granted = volume.granted
               /\ \A r \in Role \ {"postgres"} : volume'.pw[r] = volume.pw[r]
    BY <2>1, <2>3, RandomisedDoes, UpHasData DEF Volume
  <2> QED BY <1>1, <2>1, <2>2, <2>3
<1> QED BY <1>2, <1>3, <1>4 DEF SetupUsers

LEMMA SetupCame ==
  ASSUME Typed, Accounted, AllGranted, NEW p \in Proc, SetupUsers(p) \/ Reload(p), ~SyncUser(p),
         solo[p]
  PROVE  Came(p)
<1> USE DEF Came, UsersFirst, AfterSync, Resting
<1>1. CASE ConnectForUsers(p)
  BY <1>1, ConnectForUsersDoes DEF Onward
<1>2. CASE ReadSnapshot(p)
  <2>1. /\ pc[p] = "snapshot" /\ pc'[p] \in {"trustHba", "sync"}
        /\ run'[p] = IF Up THEN Reads(p) ELSE NoLocals
    BY <1>2, ReadSnapshotDoes DEF Onward
  <2>2. Reads(p).at = run[p].at /\ NoLocals.at = 1
    BY CommandHere DEF Reads, Locals, NoLocals
  <2>3. run[p].at = 1
    BY <2>1 DEF AllGranted, GrantedOf, Running
  <2> QED BY <2>1, <2>2, <2>3
<1>3. CASE WriteUsersHba(p)
  BY <1>3, WriteUsersHbaDoes DEF Onward
<1>4. CASE WriteUsersConf(p)
  BY <1>4, WriteUsersConfDoes DEF Onward
<1>5. CASE UsersSynced(p)
  BY <1>5, UsersSyncedDoes DEF Onward
<1>6. CASE RandomisePostgres(p)
  BY <1>6, RandomisePostgresDoes DEF Onward
<1>7. CASE Reload(p)
  <2>1. /\ pc[p] \in {"reload", "reloadSsl", "reloadTrust", "reloadUsers"}
        /\ pc'[p] \in {"readSsl", "sync", "randomise", "done", "failed"}
        /\ pc'[p] = IF p \in connected THEN AfterReload(p) ELSE "failed"
        /\ run'[p] = IF pc'[p] \in Resting THEN NoLocals ELSE run[p]
    BY <1>7, ReloadDoes DEF Onward
  <2> QED BY <2>1, AfterReloadIs
<1> QED BY <1>1, <1>2, <1>3, <1>4, <1>5, <1>6, <1>7 DEF SetupUsers

\* One more user has the privileges of the file, and the ones before keep theirs.
LEMMA SyncUserGrants ==
  ASSUME Typed, AllUniform, AllOpen, Alone, AllGranted, NEW p \in Proc, SyncUser(p)
  PROVE  AllGranted'
<1>1. /\ pc[p] = "sync" /\ pc'[p] \in {"sync", "failed"} /\ Stepped(p) /\ Running(p)
      /\ UNCHANGED <<container, live>> /\ run[p].at \in DOMAIN Cfg(p).users
      /\ p \in connected => Up /\ volume'.dbs = volume.dbs /\ volume'.used = volume.used
      /\ run'[p] = IF pc'[p] \in Resting THEN NoLocals ELSE [run[p] EXCEPT !.at = @ + 1]
  BY SyncUserDoes DEF Onward, Running, Resting
<1>2. CASE pc'[p] = "failed"
  <2>1. GrantedOf(p)'
    BY <1>2 DEF GrantedOf, Running, Resting
  <2> QED BY <1>1, <2>1, GrantedStep
<1>3. CASE pc'[p] = "sync"
  <2> DEFINE u == Here(p)
             v == WithPassword(volume, u)
             wanted == getDatabasesToManage(Cfg(p), u)
  <2>1. /\ p \in connected /\ volume' = syncDatabasePermissions(p, v, u)
        /\ wanted # {} => "postgres" \in Reachable(p, v)
    <3>1. p \in connected
      <4>1. ASSUME p \notin connected PROVE FALSE
        <5>1. GoTo(p, "failed") /\ UNCHANGED callVars
          BY <4>1 DEF SyncUser
        <5>2. pc'[p] = "failed"
          BY <5>1, GoToDoes DEF Resting
        <5> QED BY <1>3, <5>2
      <4> QED BY <4>1
    <3>2. ~(wanted # {} /\ "postgres" \notin Reachable(p, v))
      <4>1. ASSUME wanted # {}, "postgres" \notin Reachable(p, v) PROVE FALSE
        <5>1. GoTo(p, "failed") /\ UNCHANGED callVars
          BY <3>1, <4>1 DEF SyncUser, Here, WithPassword
        <5>2. pc'[p] = "failed"
          BY <5>1, GoToDoes DEF Resting
        <5> QED BY <1>3, <5>2
      <4> QED BY <4>1
    <3>3. volume' = syncDatabasePermissions(p, v, u)
      BY <3>1, <3>2 DEF SyncUser, Here, WithPassword
    <3> QED BY <3>1, <3>2, <3>3
  <2>2. Up /\ volume \in Volume /\ u \in User /\ u \in ToSet(Cfg(p).users)
    BY <1>1, <2>1, UpHasData, CommandHere, FileTypes DEF Here
  <2>3. v \in Volume /\ v.dbs = volume.dbs /\ v.granted = volume.granted
    <3>1. v \in Volume /\ v.dbs = volume.dbs
      BY <2>2, WithPasswordDoes
    <3>2. v.granted = volume.granted
      BY <2>2 DEF WithPassword, Volume
    <3> QED BY <3>1, <3>2
  <2> HIDE DEF u, v, wanted
  <2>4. solo' = solo /\ Cfg(p)' = Cfg(p) /\ Up' /\ volume'.used = volume.used
        /\ volume'.dbs = volume.dbs
    BY <1>1, <2>1, <2>2 DEF Stepped, callVars, Cfg, Up
  <2>5. ASSUME solo[p], ListsOnce(Cfg(p)),
               AllAdminister(volume.used, getAuthUserFromConfig(Cfg(p)).name),
               NEW k \in DOMAIN Cfg(p).users, k < run[p].at + 1
        PROVE  Granted(Cfg(p), Cfg(p).users[k])'
    <3>1. wanted # {} => Reachable(p, v) = v.dbs
      BY <2>1, <2>2, <2>3, <2>5, ReachesAll
    <3>2. /\ GrantedIn(Cfg(p), volume', u)
          /\ \A name, d, when : name # u.name =>
               (<<name, d, when>> \in volume'.granted <=> <<name, d, when>> \in v.granted)
      BY <2>1, <2>2, <2>3, <3>1, PermissionsDo DEF wanted
    <3>3. CASE Cfg(p).users[k] = u
      <4> DEFINE w == Cfg(p).users[k]
      <4>1. w' = w
        BY <2>4
      <4>2. GrantedIn(Cfg(p), volume', w)
        BY <3>2, <3>3
      <4> HIDE DEF w
      <4>3. Granted(Cfg(p), w)'
        BY <2>4, <4>1, <4>2 DEF Granted, GrantedIn, For
      <4> QED BY <4>3 DEF w
    <3>4. CASE Cfg(p).users[k] # u
      <4>1. Cfg(p).users[k] \in ToSet(Cfg(p).users)
        BY CommandHere, FileTypes
      <4>2. Cfg(p).users[k].name # u.name
        BY <2>2, <2>5, <3>4, <4>1 DEF ListsOnce
      <4>3. k < run[p].at
        <5>1. k # run[p].at
          BY <3>4 DEF Here, u
        <5>2. k \in Nat /\ run[p].at \in Nat
          BY CommandHere, FileTypes DEF Config, Locals
        <5> QED BY <2>5, <5>1, <5>2
      <4>4. Granted(Cfg(p), Cfg(p).users[k])
        BY <1>1, <2>2, <2>5, <4>3 DEF AllGranted, GrantedOf, Synced
      <4>5. \A d, when : <<Cfg(p).users[k].name, d, when>> \in volume'.granted <=>
                         <<Cfg(p).users[k].name, d, when>> \in volume.granted
        BY <2>3, <3>2, <4>2
      <4> QED BY <2>4, <4>4, <4>5 DEF Granted, GrantedIn, For
    <3> QED BY <3>3, <3>4
  <2>6. run'[p].at = run[p].at + 1
    BY <1>1, <1>3, CommandHere DEF Locals, Resting
  <2>7. GrantedOf(p)'
    BY <1>3, <2>4, <2>5, <2>6 DEF GrantedOf, Synced, UsersFirst, AfterSync
  <2> QED BY <1>1, <2>7, GrantedStep
<1> QED BY <1>1, <1>2, <1>3

LEMMA SetupGrants ==
  ASSUME Typed, Accounted, AllUniform, AllOpen, Alone, AllGranted, NEW p \in Proc,
         SetupUsers(p) \/ Reload(p)
  PROVE  AllGranted'
<1>1. CASE SyncUser(p)
  BY <1>1, SyncUserGrants
<1>2. CASE ~SyncUser(p)
  BY <1>2, SetupKeeps, SetupCame, GrantedSame
<1> QED BY <1>1, <1>2

\* Where the commands are that set up no users.
LEMMA OthersAt ==
  ASSUME NEW p \in Proc
  PROVE  /\ Start(p) => pc[p] \in StartSteps
         /\ SetupDbs(p) => pc[p] \in DbSteps
         /\ Stop(p) => pc[p] \in StopSteps
<1>1. ASSUME Start(p) PROVE pc[p] \in StartSteps
  BY <1>1 DEF Start, VolumeRemove, VolumeCreate, Inspect, RemoveContainer, RunContainer,
     WaitForReady, AlterPostgres, ReadConf, WriteConf, SyncHba, WriteHba, ReadSsl,
     WriteSslConf, WriteSslHba, Restart, WaitForReadySsl, StartSteps
<1>2. SetupDbs(p) => pc[p] \in DbSteps
  BY DEF SetupDbs, ConnectForDbs, CreateDatabase, DbSteps
<1>3. Stop(p) => pc[p] \in StopSteps
  BY DEF Stop, FindContainer, StopContainer, RemoveStopped, RemoveVolume, StopSteps
<1> QED BY <1>1, <1>2, <1>3

LEMMA NextGrants ==
  ASSUME Typed, Accounted, AllUniform, AllOpen, Alone, AllGranted, [Next]_vars
  PROVE  AllGranted'
<1>1. Typed'
  BY NextTyped
<1>2. ASSUME NEW p \in Proc, Start(p) \/ SetupDbs(p) \/ Stop(p) PROVE AllGranted'
  <2>1. Stepped(p) /\ Running(p)
    BY <1>2, StartMoves, OtherMoves
  <2>2. pc[p] \notin UserSteps
    BY <1>2, OthersAt DEF StartSteps, UserSteps, DbSteps, StopSteps
  <2> QED BY <1>1, <2>1, <2>2, GrantedOthers
<1>3. ASSUME NEW p \in Proc, Kill(p) PROVE AllGranted'
  <2>1. Stepped(p) /\ Running(p) /\ pc'[p] = "failed"
    BY <1>3, KillDoes DEF Onward, Kill
  <2>2. GrantedOf(p)'
    BY <2>1 DEF GrantedOf, Running, Resting
  <2> QED BY <2>1, <2>2, GrantedStep
<1>4. ASSUME NEW p \in Proc, Launch(p) PROVE AllGranted'
  <2>1. /\ ~Running(p) /\ run' = run
        /\ \A q \in Proc \ {p} : pc'[q] = pc[q]
        /\ pc'[p] \in {"volumeRemove", "connect", "connectDbs", "find"}
        /\ solo' = [q \in Proc |-> IF q = p THEN \A r \in Proc \ {p} : ~Running(r)
                                   ELSE solo[q] /\ ~Running(q)]
    BY <1>4, LaunchDoes
  <2>2. run'[p].at = 1
    BY <2>1, CommandHere DEF PlaceOf, Running, NoLocals
  <2>3. GrantedOf(p)'
    BY <2>1, <2>2 DEF GrantedOf, Synced, AfterSync
  <2>4. ASSUME NEW q \in Proc \ {p} PROVE ~(solo'[q] /\ Running(q)')
    BY <2>1 DEF Running
  <2> QED BY <2>3, <2>4 DEF AllGranted, GrantedOf
<1>5. CASE Edit \/ UNCHANGED vars
  <2>1. UNCHANGED <<volume, container, pc, cmd, run, solo>>
    BY <1>5, EditDoes DEF vars
  <2> QED BY <2>1 DEF AllGranted, GrantedOf, Granted, GrantedIn, For, Synced, Running, Up, Cfg
<1>6. CASE Crash
  <2>1. /\ pc' = pc /\ solo' = [q \in Proc |-> solo[q] /\ ~Running(q)]
    BY <1>6 DEF Crash
  <2> QED BY <2>1 DEF AllGranted, GrantedOf, Running
<1> QED BY <1>2, <1>3, <1>4, <1>5, <1>6, SetupGrants DEF Next

LEMMA InitGrants == ASSUME Init PROVE AllGranted
BY DEF Init, AllGranted, GrantedOf, Running, Resting

\* Where a setup-users ends, it has gone over all users.
LEMMA SetupReports ==
  ASSUME Typed, Accounted, AllGranted, NEW p \in Proc,
         SetupUsers(p) \/ Reload(p), pc'[p] = "done", cmd[p].kind = "setup-users",
         solo[p], Up, ListsOnce(Cfg(p)),
         AllAdminister(volume.used, getAuthUserFromConfig(Cfg(p)).name),
         NEW k \in DOMAIN Cfg(p).users
  PROVE  Granted(Cfg(p), Cfg(p).users[k])
<1>1. \/ pc[p] \in AfterSync
      \/ pc[p] = "sync" /\ run[p].at \notin DOMAIN Cfg(p).users
  <2>1. CASE ConnectForUsers(p)
    BY <2>1, ConnectForUsersDoes
  <2>2. CASE ReadSnapshot(p)
    BY <2>2, ReadSnapshotDoes DEF Onward
  <2>3. CASE WriteUsersHba(p) \/ WriteUsersConf(p) \/ SyncUser(p)
    BY <2>3, WriteUsersHbaDoes, WriteUsersConfDoes, SyncUserDoes DEF Onward
  <2>4. CASE UsersSynced(p) \/ RandomisePostgres(p)
    BY <2>4, UsersSyncedDoes, RandomisePostgresDoes DEF Onward, AfterSync
  <2>5. CASE Reload(p)
    <3>1. /\ pc[p] \in {"reload", "reloadSsl", "reloadTrust", "reloadUsers"}
          /\ AfterReload(p) = "done"
      BY <2>5, ReloadDoes DEF Onward
    <3>2. pc[p] \notin StartSteps
      BY CommandHere DEF KindOf
    <3> QED BY <3>1, <3>2, AfterReloadIs DEF StartSteps, AfterSync
  <2> QED BY <2>1, <2>2, <2>3, <2>4, <2>5 DEF SetupUsers
<1>2. Synced(p, k)
  BY <1>1, AllSynced DEF Synced
<1>3. Running(p)
  BY <1>1 DEF Running, Resting, AfterSync
<1> QED BY <1>1, <1>2, <1>3 DEF AllGranted, GrantedOf

GrantInv == Typed /\ Accounted /\ OneFile /\ Alone /\ AllUniform /\ AllOpen /\ AllGranted

\* Postgres!GrantsAsConfigured, of syncDatabasePermissions() in setupPostgresUsers(): a setup-users
\* that ran alone and reports success leaves each user with privileges on what there is in
\* the databases that the file gives them, and on nothing in another one of the file, and
\* with default privileges for what will be made in the former, if all files that worked
\* on the volume let the administrator in everywhere.  Default privileges in the others
\* may be left from earlier files.
THEOREM GrantsAreConfigured == Spec => GrantsAsConfigured
<1> DEFINE End ==
      \A p \in Proc :
        /\ Reports(p) /\ solo[p] /\ Up
        /\ cmd[p].kind = "setup-users" /\ ListsOnce(Cfg(p))
        /\ \A c \in volume.used : AdministersAll(c, getAuthUserFromConfig(Cfg(p)).name)
        => \A u \in ToSet(Cfg(p).users) :
             LET wanted == getDatabasesToManage(Cfg(p), u)
                 dbs == ToSet(Cfg(p).dbs) \cap volume.dbs
                 for(when) == {d \in dbs : <<u.name, d, when>> \in volume.granted}
             IN wanted # {} =>
                  /\ for("existing") = wanted \cap dbs
                  /\ wanted \cap dbs \subseteq for("future")
<1>1. Init => GrantInv
  BY InitTyped, InitOneFile, InitAlone, InitUniform, InitOpen, InitGrants DEF GrantInv
<1>2. GrantInv /\ [Next]_vars => GrantInv'
  BY NextTyped, NextOneFile, NextAlone, NextUniform, NextOpen, NextGrants DEF GrantInv
<1>3. GrantInv /\ [Next]_vars => [End]_vars
  <2> SUFFICES ASSUME GrantInv, [Next]_vars, NEW p \in Proc, Reports(p), solo[p], Up,
                      cmd[p].kind = "setup-users", ListsOnce(Cfg(p)),
                      AllAdminister(volume.used, getAuthUserFromConfig(Cfg(p)).name),
                      NEW u \in ToSet(Cfg(p).users)
               PROVE  Granted(Cfg(p), u)
    BY DEF AllAdminister, Granted, GrantedIn, For
  <2>1. Start(p) \/ Reload(p) \/ SetupUsers(p)
    BY WhoReports DEF GrantInv
  <2>2. ~Start(p)
    BY OthersAt, CommandHere DEF KindOf, GrantInv
  <2>3. PICK k \in DOMAIN Cfg(p).users : u = Cfg(p).users[k]
    BY DEF ToSet
  <2> QED BY <2>1, <2>2, <2>3, SetupReports DEF GrantInv, Reports
<1> HIDE DEF End
<1>4. Spec => [][End]_vars
  BY <1>1, <1>2, <1>3, PTL DEF Spec
<1> QED BY <1>4 DEF GrantsAsConfigured, End


-----------------------------------------------------------------------------
(***************************************************************************)
(* Who could connect still can.                                            *)
(***************************************************************************)

\* A setup-users that runs alone knows the lines it has written, that the server has
\* SSL if its file says so or has nothing but lines that ask for it, and the passwords
\* it has set.
AccessOf(p) ==
  solo[p] /\ Running(p) =>
    /\ pc[p] \in {"trustHba", "reloadTrust"} => ~Cfg(p).auth
    /\ Up /\ pc[p] \in {"reloadTrust", "scramConf", "reloadUsers"} => volume.hba = Expected(p)
    /\ Up /\ pc[p] \in UserSteps \ {"connect"} /\ Cfg(p).ssl =>
         live.ssl \/ live.hba = Expected(p)
    /\ Up /\ ListsOnce(Cfg(p)) =>
         \A k \in DOMAIN Cfg(p).users :
           LET u == Cfg(p).users[k] IN
           Synced(p, k) /\ u.pw # "" => volume.pw[u.name] = u.pw

AllAccess == \A p \in Proc : AccessOf(p)

LEMMA AccessStep ==
  ASSUME Typed, Alone, AllAccess, NEW p \in Proc, Running(p), Stepped(p), AccessOf(p)'
  PROVE  AllAccess'
<1>1. ASSUME NEW q \in Proc \ {p} PROVE AccessOf(q)'
  <2>1. pc'[q] = pc[q] /\ solo' = solo
    BY DEF Stepped, callVars
  <2>2. ~(solo[q] /\ Running(q))
    BY DEF Alone, AloneOf
  <2> QED BY <2>1, <2>2 DEF AccessOf, Running
<1> QED BY <1>1 DEF AllAccess

\* The other commands have nothing to do with it.
LEMMA AccessOthers ==
  ASSUME Typed, Alone, AllAccess, NEW p \in Proc, Running(p), Stepped(p), Typed',
         pc[p] \notin UserSteps
  PROVE  AllAccess'
<1>1. cmd' = cmd /\ KindOf(p) /\ KindOf(p)'
  BY CommandHere DEF Stepped, callVars, Typed, Placed
<1>2. pc[p] \in StartSteps \union DbSteps \union StopSteps
  BY CommandHere DEF Running, Resting, Steps, StartSteps, UserSteps, DbSteps, StopSteps
<1>3. pc'[p] \notin UserSteps
  BY <1>1, <1>2 DEF KindOf
<1> QED BY <1>3, AccessStep DEF AccessOf, Synced, UserSteps, AfterSync

LEMMA Successor == \A i, j \in Nat : i < j + 1 /\ i # j => i < j
OBVIOUS

LEMMA UserNumbers ==
  ASSUME Typed, NEW p \in Proc
  PROVE  \A k \in DOMAIN Cfg(p).users : k \in Nat
<1>1. Cfg(p).users \in Seq(User)
  BY CommandHere, FileTypes DEF Config
<1> QED BY <1>1

\* The passwords that a setup-users has set stay.
LEMMA SetsPasswords ==
  ASSUME Typed, Accounted, AllGranted, NEW p \in Proc, SetupUsers(p) \/ Reload(p),
         solo[p], Running(p)', Up, AccessOf(p), ListsOnce(Cfg(p)),
         NEW k \in DOMAIN Cfg(p).users, Synced(p, k)', Cfg(p).users[k].pw # ""
  PROVE  volume'.pw[Cfg(p).users[k].name] = Cfg(p).users[k].pw
<1> DEFINE w == Cfg(p).users[k]
<1>1. w \in ToSet(Cfg(p).users) /\ w \in User
  BY CommandHere, FileTypes
<1>2. k \in Nat
  BY UserNumbers, Zenon
<1>3. CASE ~SyncUser(p)
  <2>1. Running(p) /\ volume'.pw[w.name] = volume.pw[w.name]
    BY <1>1, <1>3, SetupKeeps
  <2>2. Synced(p, k)
    BY <1>3, <2>1, SetupCame, SyncedBefore DEF AllGranted
  <2> QED BY <2>1, <2>2 DEF AccessOf
<1>4. CASE SyncUser(p)
  <2> DEFINE u == Here(p)
  <2>1. /\ pc[p] = "sync" /\ pc'[p] = "sync" /\ run[p].at \in DOMAIN Cfg(p).users
        /\ run'[p] = [run[p] EXCEPT !.at = @ + 1] /\ p \in connected
        /\ volume'.pw = WithPassword(volume, u).pw
    <3>1. /\ pc[p] = "sync" /\ pc'[p] = "sync" /\ run[p].at \in DOMAIN Cfg(p).users
          /\ run'[p] = [run[p] EXCEPT !.at = @ + 1]
          /\ p \in connected => volume'.pw = WithPassword(volume, u).pw
      BY <1>4, SyncUserDoes DEF Onward, Running, Resting
    <3>2. p \in connected
      <4>1. ASSUME p \notin connected PROVE pc'[p] = "failed"
        <5>1. GoTo(p, "failed") /\ UNCHANGED callVars
          BY <1>4, <4>1 DEF SyncUser
        <5> QED BY <5>1, GoToDoes DEF Resting
      <4> QED BY <3>1, <4>1
    <3> QED BY <3>1, <3>2
  <2>2. u \in User /\ u \in ToSet(Cfg(p).users) /\ volume \in Volume
    BY <2>1, CommandHere, FileTypes, UpHasData DEF Here
  <2> HIDE DEF u
  <2>3. volume'.pw = [volume.pw EXCEPT ![u.name] = PasswordAfterSync(u, volume.pw[u.name])]
        /\ volume.pw \in [Role -> Stored] /\ u.name \in Role
    BY <2>1, <2>2, WithPasswordDoes DEF Volume, User
  <2>4. CASE w = u
    <3>1. volume'.pw[u.name] = PasswordAfterSync(u, volume.pw[u.name])
      BY <2>3
    <3> QED BY <2>4, <3>1 DEF PasswordAfterSync
  <2>5. CASE w # u
    <3>1. w.name # u.name
      BY <1>1, <2>2, <2>5 DEF ListsOnce
    <3>2. k < run[p].at
      <4>1. run[p].at \in Nat /\ run'[p].at = run[p].at + 1
        BY <2>1, CommandHere DEF Locals
      <4>2. k < run'[p].at
        BY <2>1 DEF Synced, AfterSync
      <4>3. k # run[p].at
        BY <2>5 DEF Here, u
      <4> QED BY <1>2, <4>1, <4>2, <4>3, Successor, Zenon
    <3>3. volume.pw[w.name] = w.pw
      <4>1. Running(p) /\ Synced(p, k)
        BY <2>1, <3>2 DEF Running, Resting, Synced
      <4> QED BY <4>1 DEF AccessOf
    <3>4. w.name \in Role
      BY <1>1 DEF User
    <3>5. volume'.pw[w.name] = volume.pw[w.name]
      <4> HIDE DEF w
      <4> QED BY <2>3, <3>1, <3>4
    <3> QED BY <3>3, <3>5
  <2> QED BY <2>4, <2>5
<1> QED BY <1>3, <1>4

LEMMA SetupAccess ==
  ASSUME Typed, Accounted, Alone, AllGranted, AllAccess, NEW p \in Proc,
         SetupUsers(p) \/ Reload(p)
  PROVE  AllAccess'
<1>1. /\ Stepped(p) /\ Running(p) /\ Typed' /\ UNCHANGED container
  <2>1. CASE SyncUser(p)
    BY <2>1, SyncUserDoes DEF Onward, Running, Resting
  <2> QED BY <2>1, SetupKeeps
<1>2. /\ solo' = solo /\ cmd' = cmd /\ Cfg(p)' = Cfg(p) /\ Expected(p)' = Expected(p)
      /\ (Up' <=> Up)
  BY <1>1 DEF Stepped, callVars, Cfg, Expected, Up
<1> SUFFICES ASSUME solo[p], Running(p)' PROVE AccessOf(p)'
  BY <1>1, <1>2, AccessStep DEF AccessOf
<1>3. AccessOf(p) /\ Undisturbed(p)
  BY <1>1 DEF AllAccess, Alone, AloneOf
<1> DEFINE Files ==
             /\ pc[p] \in {"trustHba", "reloadTrust"} => ~Cfg(p).auth
             /\ Up /\ pc[p] \in {"reloadTrust", "scramConf", "reloadUsers"} =>
                  volume.hba = Expected(p)
             /\ Up /\ pc[p] \in UserSteps \ {"connect"} /\ Cfg(p).ssl =>
                  live.ssl \/ live.hba = Expected(p)
<1>4. Files
  BY <1>1, <1>3 DEF AccessOf
<1>5. Files'
  <2> USE DEF Resting, Running, UserSteps
  <2>1. CASE ConnectForUsers(p)
    <3>1. /\ pc[p] = "connect" /\ pc'[p] = "snapshot" /\ UNCHANGED <<volume, live>>
      BY <2>1, ConnectForUsersDoes DEF Onward
    <3>2. Cfg(p).ssl => live.ssl
      <4>1. CASE Cfg(p).users = << >>
        <5>1. GoTo(p, "done") /\ UNCHANGED callVars
          BY <2>1, <4>1 DEF ConnectForUsers
        <5> QED BY <3>1, <5>1, GoToDoes
      <4>2. CASE Cfg(p).users # << >>
        <5>1. getPostgresClient(p, "snapshot") /\ UNCHANGED callVars
          BY <2>1, <4>2 DEF ConnectForUsers
        <5>2. ASSUME ~Accepts(volume, getAuthUserFromConfig(Cfg(p)), "postgres", Cfg(p).ssl)
              PROVE  FALSE
          <6>1. GoTo(p, "failed")
            BY <5>1, <5>2 DEF getPostgresClient
          <6> QED BY <3>1, <5>1, <6>1, GoToDoes
        <5> QED BY <5>2 DEF Accepts
      <4> QED BY <4>1, <4>2
    <3> QED BY <1>2, <3>1, <3>2
  <2>2. CASE ReadSnapshot(p)
    <3>1. /\ pc[p] = "snapshot" /\ pc'[p] \in {"trustHba", "sync"} /\ UNCHANGED <<volume, live>>
          /\ pc'[p] = IF ToTrust(p, run'[p].hba) THEN "trustHba" ELSE "sync"
      BY <2>2, ReadSnapshotDoes DEF Onward
    <3> QED BY <1>2, <1>4, <3>1 DEF ToTrust
  <2>3. CASE WriteUsersHba(p)
    <3>1. /\ pc[p] \in {"trustHba", "scramHba", "updateHba"} /\ UNCHANGED live
          /\ WritesHba(Expected(p))
          /\ pc'[p] \in {"reloadTrust", "scramConf", "reloadUsers"}
          /\ pc'[p] = "reloadTrust" => pc[p] = "trustHba"
      BY <2>3, WriteUsersHbaDoes DEF Onward
    <3>2. Up => volume'.hba = Expected(p)
      BY <3>1, UpHasData DEF WritesHba, Volume
    <3> QED BY <1>2, <1>4, <3>1, <3>2
  <2>4. CASE WriteUsersConf(p)
    <3>1. /\ pc[p] = "scramConf" /\ pc'[p] = "reloadUsers" /\ UNCHANGED live
          /\ WritesConf(run[p].ssl, TRUE)
      BY <2>4, WriteUsersConfDoes DEF Onward
    <3>2. Up => volume'.hba = volume.hba
      BY <3>1, UpHasData DEF WritesConf, Volume
    <3> QED BY <1>2, <1>4, <3>1, <3>2
  <2>5. CASE SyncUser(p)
    <3>1. pc[p] = "sync" /\ pc'[p] = "sync" /\ UNCHANGED live
      BY <2>5, SyncUserDoes DEF Onward
    <3> QED BY <1>2, <1>4, <3>1
  <2>6. CASE UsersSynced(p)
    <3>1. /\ pc[p] = "sync" /\ pc'[p] \in {"scramHba", "updateHba", "randomise"}
          /\ UNCHANGED live
      BY <2>6, UsersSyncedDoes DEF Onward
    <3> QED BY <1>2, <1>4, <3>1
  <2>7. CASE RandomisePostgres(p)
    BY <2>7, RandomisePostgresDoes DEF Onward
  <2>8. CASE Reload(p)
    <3>1. /\ pc[p] \in {"reload", "reloadSsl", "reloadTrust", "reloadUsers"}
          /\ pc'[p] \in {"readSsl", "sync", "randomise"}
          /\ IF p \in connected THEN pgReloadConf ELSE UNCHANGED live
          /\ pc'[p] = IF p \in connected THEN AfterReload(p) ELSE "failed"
      BY <2>8, ReloadDoes DEF Onward
    <3>2. p \in connected /\ live'.hba = volume.hba
      BY <3>1 DEF pgReloadConf
    <3>3. pc'[p] \in {"sync", "randomise"} => pc[p] \in {"reloadTrust", "reloadUsers"}
      BY <3>1, AfterReloadIs
    <3> QED BY <1>2, <1>4, <3>1, <3>2, <3>3
  <2> QED BY <2>1, <2>2, <2>3, <2>4, <2>5, <2>6, <2>7, <2>8 DEF SetupUsers
<1>6. ASSUME Up, ListsOnce(Cfg(p)), NEW k \in DOMAIN Cfg(p).users, Synced(p, k)',
             Cfg(p).users[k].pw # ""
      PROVE  volume'.pw[Cfg(p).users[k].name] = Cfg(p).users[k].pw
  BY <1>3, <1>6, SetsPasswords
<1> QED BY <1>2, <1>5, <1>6 DEF AccessOf

LEMMA NextAccess ==
  ASSUME Typed, Accounted, Alone, AllGranted, AllAccess, [Next]_vars
  PROVE  AllAccess'
<1>1. Typed'
  BY NextTyped
<1>2. ASSUME NEW p \in Proc, Start(p) \/ SetupDbs(p) \/ Stop(p) PROVE AllAccess'
  <2>1. Stepped(p) /\ Running(p) /\ pc[p] \notin UserSteps
    BY <1>2, StartMoves, OtherMoves, OthersAt DEF StartSteps, UserSteps, DbSteps, StopSteps
  <2> QED BY <1>1, <2>1, AccessOthers
<1>3. ASSUME NEW p \in Proc, Kill(p) PROVE AllAccess'
  <2>1. Stepped(p) /\ Running(p) /\ pc'[p] = "failed"
    BY <1>3, KillDoes DEF Onward, Kill
  <2>2. AccessOf(p)'
    BY <2>1 DEF AccessOf, Running, Resting
  <2> QED BY <2>1, <2>2, AccessStep
<1>4. ASSUME NEW p \in Proc, Launch(p) PROVE AllAccess'
  <2>1. /\ pc'[p] \in {"volumeRemove", "connect", "connectDbs", "find"}
        /\ \A q \in Proc \ {p} : pc'[q] = pc[q]
        /\ solo' = [q \in Proc |-> IF q = p THEN \A r \in Proc \ {p} : ~Running(r)
                                   ELSE solo[q] /\ ~Running(q)]
    BY <1>4, LaunchDoes
  <2>2. AccessOf(p)'
    BY <2>1 DEF AccessOf, Synced, AfterSync, UserSteps
  <2>3. ASSUME NEW q \in Proc \ {p} PROVE ~(solo'[q] /\ Running(q)')
    BY <2>1 DEF Running
  <2> QED BY <2>2, <2>3 DEF AllAccess, AccessOf
<1>5. CASE Edit \/ UNCHANGED vars
  <2>1. UNCHANGED <<volume, container, live, pc, cmd, run, solo>>
    BY <1>5, EditDoes DEF vars
  <2> QED BY <2>1 DEF AllAccess, AccessOf, Synced, Running, Up, Cfg, Expected
<1>6. CASE Crash
  <2>1. /\ pc' = pc /\ solo' = [q \in Proc |-> solo[q] /\ ~Running(q)]
    BY <1>6 DEF Crash
  <2> QED BY <2>1 DEF AllAccess, AccessOf, Running
<1> QED BY <1>2, <1>3, <1>4, <1>5, <1>6, SetupAccess DEF Next

LEMMA InitAccess == ASSUME Init PROVE AllAccess
BY DEF Init, AllAccess, AccessOf, Running, Resting

\* The line of a user who may use the network, for a database of theirs.
LEMMA LineOfUser ==
  ASSUME NEW c \in Configs, NEW u \in ToSet(c.users), "tcp" \in u.types, NEW db,
         u.dbs = {} \/ db \in getDatabasesToManage(c, u)
  PROVE  \E l \in generatePgHbaConfContent(c) :
           /\ l.type = (IF c.ssl THEN "hostssl" ELSE "host")
           /\ l.db \in {"all", db} /\ l.user = u.name /\ l.from = "any"
           /\ l.method = IF c.auth THEN "scram" ELSE "trust"
<1> DEFINE method == IF c.auth THEN "scram" ELSE "trust"
           type == IF c.ssl THEN "hostssl" ELSE "host"
           d == IF u.dbs = {} \/ "*" \in u.dbs THEN "all" ELSE db
           l == [type |-> type, db |-> d, user |-> u.name, from |-> "any", method |-> method]
<1>1. d \in (IF u.dbs = {} \/ "*" \in u.dbs THEN {"all"} ELSE u.dbs)
  BY DEF getDatabasesToManage
<1>2. l \in generatePgHbaEntriesForUser(u, method, c.ssl)
  BY <1>1 DEF generatePgHbaEntriesForUser
<1>3. l \in generatePgHbaConfContent(c)
  BY <1>2 DEF generatePgHbaConfContent
<1>4. l.db \in {"all", db}
  OBVIOUS
<1> QED BY <1>3, <1>4

\* The server works with the lines of the file from here on.
LEMMA ReloadKeepsAccess ==
  ASSUME Typed, Accounted, Alone, AllAccess, NEW p \in Proc, Reload(p), p \in connected,
         cmd[p].kind = "setup-users", solo[p], live.ssl => volume.ssl, ListsOnce(Cfg(p)),
         NEW u \in ToSet(Cfg(p).users), "tcp" \in u.types, UserGetsIn(Cfg(p), u)
  PROVE  UserGetsIn(Cfg(p), u)'
<1> DEFINE c == Cfg(p)
<1>1. /\ pc[p] \in {"reload", "reloadSsl", "reloadTrust", "reloadUsers"}
      /\ UNCHANGED <<volume, container>> /\ pgReloadConf /\ Stepped(p)
  BY ReloadDoes DEF Onward
<1>2. Up /\ pc[p] \in {"reloadTrust", "reloadUsers"} /\ Running(p) /\ c' = c /\ c \in Configs
  BY <1>1, ClientUp, CommandHere DEF KindOf, StartSteps, Running, Resting, Stepped, callVars, Cfg
<1>3. volume.hba = Expected(p) /\ live'.hba = Expected(p)
  BY <1>1, <1>2 DEF AllAccess, AccessOf, pgReloadConf
<1>4. PICK db \in volume.dbs, ssl \in BOOLEAN :
        (u.dbs = {} \/ db \in getDatabasesToManage(c, u)) /\ Accepts(volume, u, db, ssl)
  BY DEF UserGetsIn
<1>5. c.ssl => live.ssl
  <2> SUFFICES ASSUME c.ssl, ~live.ssl PROVE FALSE
    OBVIOUS
  <2>1. live.hba = Expected(p)
    BY <1>2 DEF AllAccess, AccessOf, UserSteps
  <2>2. ssl = FALSE /\ \E l \in live.hba : l.type = "host"
    BY <1>4 DEF Accepts
  <2> QED BY <1>2, <2>1, <2>2, GeneratedLine DEF Expected
<1>6. c.ssl => live'.ssl
  BY <1>1, <1>5 DEF pgReloadConf
<1>7. c.auth => u.pw # "" /\ volume.pw[u.name] = u.pw
  <2> SUFFICES ASSUME c.auth PROVE u.pw # "" /\ volume.pw[u.name] = u.pw
    OBVIOUS
  <2>1. pc[p] = "reloadUsers"
    BY <1>2 DEF AllAccess, AccessOf
  <2>2. u.pw # ""
    BY <1>2, FileTypes DEF Valid
  <2>3. PICK k \in DOMAIN c.users : u = c.users[k]
    BY DEF ToSet
  <2> QED BY <1>2, <2>1, <2>2, <2>3 DEF AllAccess, AccessOf, Synced, AfterSync
<1>8. PICK l \in Expected(p) :
        /\ l.type = (IF c.ssl THEN "hostssl" ELSE "host")
        /\ l.db \in {"all", db} /\ l.user = u.name /\ l.from = "any"
        /\ l.method = IF c.auth THEN "scram" ELSE "trust"
  BY <1>2, <1>4, LineOfUser DEF Expected
<1>9. volume.pw[u.name] # "absent" /\ c.ssl \in BOOLEAN /\ c.auth \in BOOLEAN
  BY <1>2, <1>4, FileTypes DEF Accepts
<1> HIDE DEF c
<1>10. Up' /\ volume' = volume
  BY <1>1, <1>2 DEF Up
<1>11. Accepts(volume, u, db, c.ssl)'
  BY <1>2, <1>3, <1>4, <1>6, <1>7, <1>8, <1>9, <1>10 DEF Accepts
<1>12. UserGetsIn(c, u)'
  BY <1>2, <1>4, <1>9, <1>10, <1>11 DEF UserGetsIn
<1> QED BY <1>12 DEF c

LEMMA StepKeepsAccess ==
  ASSUME Typed, Accounted, Alone, AllGranted, AllAccess, NEW p \in Proc,
         SetupUsers(p) \/ Reload(p) \/ Kill(p), cmd[p].kind = "setup-users", Up,
         solo[p], live.ssl => volume.ssl, ListsOnce(Cfg(p)),
         NEW u \in ToSet(Cfg(p).users), "tcp" \in u.types, UserGetsIn(Cfg(p), u)
  PROVE  UserGetsIn(Cfg(p), u)'
<1> DEFINE c == Cfg(p)
<1>1. CASE Reload(p) /\ p \in connected
  BY <1>1, ReloadKeepsAccess
<1>2. CASE SyncUser(p)
  <2>1. /\ Stepped(p) /\ UNCHANGED <<container, live>> /\ run[p].at \in DOMAIN c.users
        /\ \/ volume' = volume
           \/ volume'.dbs = volume.dbs /\ volume'.pw = WithPassword(volume, Here(p)).pw
    BY <1>2, SyncUserDoes DEF Onward
  <2>2. Cfg(p)' = Cfg(p)
    BY <2>1 DEF Stepped, callVars, Cfg
  <2>3. CASE volume' = volume
    <3>1. UserGetsIn(c, u)'
      BY <2>1, <2>2, <2>3 DEF UserGetsIn, Accepts, Up
    <3> QED BY <3>1
  <2>4. CASE volume'.dbs = volume.dbs /\ volume'.pw = WithPassword(volume, Here(p)).pw
    <3> DEFINE w == Here(p)
               old == volume.pw[u.name]
    <3>1. /\ w \in User /\ w \in ToSet(c.users) /\ u \in User /\ u.name \in Role
          /\ volume \in Volume
      <4>1. u \in User
        BY CommandHere, FileTypes
      <4>2. Here(p) \in User /\ Here(p) \in ToSet(Cfg(p).users)
        BY <2>1, CommandHere, FileTypes DEF Here
      <4>3. u.name \in Role
        BY <4>1 DEF User
      <4> QED BY <4>1, <4>2, <4>3, UpHasData
    <3>2. volume'.pw = [volume.pw EXCEPT ![w.name] = PasswordAfterSync(w, volume.pw[w.name])]
          /\ volume.pw \in [Role -> Stored]
      BY <2>4, <3>1, WithPasswordDoes DEF Volume
    <3>3. w.name = u.name => w = u
      BY <3>1 DEF ListsOnce
    <3> HIDE DEF w
    <3>4. volume'.pw[u.name] = IF w = u THEN PasswordAfterSync(u, old) ELSE old
      BY <3>1, <3>2, <3>3
    <3>5. /\ PasswordAfterSync(u, old) # "absent"
          /\ u.pw # "" => PasswordAfterSync(u, old) = u.pw
      <4>1. u.pw \in Password \union {""}
        BY <3>1 DEF User
      <4> QED BY <4>1, NameAssumption DEF PasswordAfterSync
    <3> HIDE DEF old, c
    <3>6. /\ volume.pw[u.name] # "absent" => volume'.pw[u.name] # "absent"
          /\ u.pw # "" /\ u.pw = volume.pw[u.name] => volume'.pw[u.name] = u.pw
      BY <3>4, <3>5 DEF old
    <3>7. UserGetsIn(c, u)'
      BY <2>1, <2>2, <2>4, <3>6 DEF UserGetsIn, Accepts, Up, c
    <3> QED BY <3>7 DEF c
  <2> QED BY <2>1, <2>3, <2>4
<1>3. CASE (SetupUsers(p) \/ (Reload(p) /\ p \notin connected)) /\ ~SyncUser(p)
  <2>1. /\ Stepped(p) /\ UNCHANGED container /\ volume'.dbs = volume.dbs
        /\ volume'.pw[u.name] = volume.pw[u.name]
    BY <1>3, SetupKeeps
  <2>2. UNCHANGED live
    <3>1. CASE ConnectForUsers(p) \/ ReadSnapshot(p) \/ UsersSynced(p)
      BY <3>1, ConnectForUsersDoes, ReadSnapshotDoes, UsersSyncedDoes
    <3>2. CASE WriteUsersHba(p) \/ WriteUsersConf(p) \/ RandomisePostgres(p)
      BY <3>2, WriteUsersHbaDoes, WriteUsersConfDoes, RandomisePostgresDoes
    <3>3. CASE Reload(p) /\ p \notin connected
      BY <3>3, ReloadDoes
    <3> QED BY <1>3, <3>1, <3>2, <3>3 DEF SetupUsers
  <2>3. Cfg(p)' = Cfg(p)
    BY <2>1 DEF Stepped, callVars, Cfg
  <2> QED BY <2>1, <2>2, <2>3 DEF UserGetsIn, Accepts, Up
<1>4. CASE Kill(p)
  <2>1. UNCHANGED <<volume, container, live>> /\ Cfg(p)' = Cfg(p)
    BY <1>4, KillDoes DEF Onward, Stepped, callVars, Cfg
  <2> QED BY <2>1 DEF UserGetsIn, Accepts, Up
<1> QED BY <1>1, <1>2, <1>3, <1>4

\* Whose step it is.
LEMMA WhoMoves ==
  ASSUME Typed, Accounted, [Next]_vars, NEW p \in Proc, Running(p),
         <<pc'[p], run'[p]>> # <<pc[p], run[p]>>, cmd[p].kind = "setup-users"
  PROVE  SetupUsers(p) \/ Reload(p) \/ Kill(p)
<1>1. ~\E q \in Proc : Launch(q)
  BY LaunchDoes
<1>2. ~(Edit \/ Crash \/ UNCHANGED vars)
  BY DEF Edit, Crash, vars
<1>3. PICK q \in Proc : \/ Start(q) \/ Reload(q) \/ SetupUsers(q) \/ SetupDbs(q) \/ Stop(q)
                        \/ Kill(q)
  BY <1>1, <1>2 DEF Next
<1>4. Stepped(q)
  BY <1>3, StartMoves, OtherMoves, KillDoes DEF Onward
<1>5. q = p
  BY <1>4 DEF Stepped
<1>6. ~(Start(p) \/ SetupDbs(p) \/ Stop(p))
  <2> SUFFICES ASSUME Start(p) \/ SetupDbs(p) \/ Stop(p) PROVE FALSE
    OBVIOUS
  <2>1. pc[p] \in StartSteps \union DbSteps \union StopSteps
    BY OthersAt
  <2> QED BY <2>1, CommandHere DEF KindOf
<1> QED BY <1>3, <1>5, <1>6

AccessInv == GrantInv /\ AllAccess

\* Postgres!SetupKeepsAccess, of setupPostgresUsers(): no step of a setup-users that runs alone
\* shuts out a user of the file who could connect with the password that the file gives.
THEOREM SetupShutsNobodyOut == Spec => SetupKeepsAccess
<1> DEFINE Keeps ==
      \A p \in Proc :
        /\ <<pc'[p], run'[p]>> # <<pc[p], run[p]>>
        /\ Running(p) /\ cmd[p].kind = "setup-users" /\ Up
        /\ solo[p] /\ (live.ssl => volume.ssl)
        /\ ListsOnce(Cfg(p))
        => \A u \in ToSet(Cfg(p).users) :
             "tcp" \in u.types /\ UserGetsIn(Cfg(p), u) => UserGetsIn(Cfg(p), u)'
<1>1. Init => AccessInv
  BY InitTyped, InitOneFile, InitAlone, InitUniform, InitOpen, InitGrants, InitAccess
  DEF AccessInv, GrantInv
<1>2. AccessInv /\ [Next]_vars => AccessInv'
  BY NextTyped, NextOneFile, NextAlone, NextUniform, NextOpen, NextGrants, NextAccess
  DEF AccessInv, GrantInv
<1>3. AccessInv /\ [Next]_vars => [Keeps]_vars
  BY WhoMoves, StepKeepsAccess DEF AccessInv, GrantInv
<1> HIDE DEF Keeps
<1>4. Spec => [][Keeps]_vars
  BY <1>1, <1>2, <1>3, PTL DEF Spec
<1> QED BY <1>4 DEF SetupKeepsAccess, Keeps


=============================================================================
