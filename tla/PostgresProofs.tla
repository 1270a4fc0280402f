-------------------------- MODULE PostgresProofs --------------------------
(***************************************************************************)
(* Theorems about Postgres, for any number of commands, any files whose    *)
(* names and passwords are of any sets, and any bounds.                    *)
(***************************************************************************)
EXTENDS Postgres, TLAPS

-----------------------------------------------------------------------------
(***************************************************************************)
(* Where a command is, and what it has in hand there.                      *)
(***************************************************************************)

StartSteps == {"volumeRemove", "volumeCreate", "inspect", "remove", "run", "ready",
               "alter", "readConf", "writeConf", "syncHba", "writeHba", "reload",
               "readSsl", "writeSslConf", "writeSslHba", "reloadSsl", "restart", "readySsl"}
UserSteps == {"connect", "snapshot", "trustHba", "reloadTrust", "sync", "scramHba",
              "scramConf", "updateHba", "reloadUsers", "randomise"}
DbSteps == {"connectDbs", "createDbs"}
StopSteps == {"find", "stop", "rm", "volumeRm"}

UsersFirst == {"connect", "snapshot", "trustHba", "reloadTrust", "sync"}
PasswordSteps == {"alter", "readConf", "writeConf"}
LineSteps == PasswordSteps \union {"syncHba", "writeHba", "reload"}
             \union (UserSteps \ {"connect"})
SslSteps == {"readSsl", "writeSslConf", "writeSslHba", "reloadSsl", "restart", "readySsl"}

KindOf(p) ==
  /\ pc[p] \in StartSteps => cmd[p].kind = "start"
  /\ pc[p] \in UserSteps => cmd[p].kind = "setup-users"
  /\ pc[p] \in DbSteps => cmd[p].kind = "setup-dbs"
  /\ pc[p] \in StopSteps => cmd[p].kind = "stop"

\* What is so of a command by where it is.
PlaceOf(p) ==
  /\ pc[p] \in Resting => run[p] = NoLocals
  /\ pc[p] \in LineSteps => Cfg(p).users # << >>
  /\ pc[p] \in PasswordSteps \union {"randomise"} => Cfg(p).auth
  /\ pc[p] \in {"alter", "randomise"} => ~InUsers(Cfg(p), "postgres")
  /\ pc[p] \in SslSteps => Cfg(p).ssl
  /\ pc[p] = "createDbs" => run[p].at \in DOMAIN Cfg(p).dbs
  /\ pc[p] \in UsersFirst => run[p].at \in Nat \ {0}

\* What a command has read is of a volume somebody worked on.
ReadOf(p) ==
  /\ pc[p] \in {"writeSslConf", "writeSslHba"} => run[p].seen # {}
  /\ run[p].seen = {} => run[p].hba = {} /\ ~run[p].ssl
  /\ run[p].fresh => pc[p] \in StartSteps

Placed == \A p \in Proc : KindOf(p) /\ PlaceOf(p) /\ ReadOf(p)

\* A container has a volume with data.
Backed == container.state # "none" => HasData(volume)

Typed == TypeOK /\ Placed /\ Backed

-----------------------------------------------------------------------------
(***************************************************************************)
(* A volume that has been worked on with one file only.                    *)
(***************************************************************************)

\* All that is on the volume or may still be written to it comes from commands
\* whose files are in `used`.
Accounted ==
  volume # NoVolume =>
    /\ volume.used # {}
    /\ \A p \in Setters : Cfg(p) \in volume.used /\ run[p].seen \subseteq volume.used

\* The lines that commands with file c write.
Lines(c, hba) ==
  \/ hba = DefaultLines(c.auth)
  \/ c.users # << >> /\ hba = generatePgHbaConfContent(c)
  \/ c.ssl /\ hba = setPgHbaRequireSSL(DefaultLines(c.auth))
  \/ c.ssl /\ c.users # << >> /\ hba = setPgHbaRequireSSL(generatePgHbaConfContent(c))

CopyOf(p) ==
  \A c \in Configs : run[p].seen = {c} => Lines(c, run[p].hba) /\ (run[p].ssl => c.ssl)

\* The administrator is there, with the password of the file.
AdminIn(c, pw) ==
  LET admin == getAuthUserFromConfig(c) IN
  Administers(c) => pw[admin.name] # "absent" /\ (c.auth => pw[admin.name] = admin.pw)

VolumeOf(c) ==
  /\ Lines(c, volume.hba)
  /\ volume.ssl => c.ssl
  /\ {"postgres", FirstDb(c)} \subseteq volume.dbs
  /\ AdminIn(c, volume.pw)

OneFile ==
  /\ \A p \in Proc : CopyOf(p)
  /\ \A c \in Configs :
       HasData(volume) /\ volume.used = {c} => VolumeOf(c) /\ (Up => Lines(c, live.hba))

-----------------------------------------------------------------------------
(***************************************************************************)
(* A command that has been alone since it began.                           *)
(***************************************************************************)

Connected == {"alter", "readConf", "writeConf", "syncHba", "writeHba", "reload", "readSsl",
              "writeSslConf", "writeSslHba", "reloadSsl", "restart"}
             \union (UserSteps \ {"connect"})
Early == {"volumeRemove", "volumeCreate", "inspect", "remove", "run"}

\* What nobody else has changed meanwhile.
Undisturbed(p) ==
  /\ pc[p] = "remove" => ~Up
  /\ pc[p] = "run" => container.state = "none"
  /\ pc[p] = "ready" /\ volume.used = {Cfg(p)} => Up
  /\ pc[p] \in Connected => p \in connected
  /\ pc[p] = "readySsl" => Up /\ live.ssl
  /\ run[p].fresh => container.certs = Cfg(p).ssl /\ pc[p] \notin Early
  /\ pc[p] \in {"writeSslHba", "reloadSsl", "restart"} => volume.ssl
  /\ pc[p] = "restart" => run[p].fresh

AloneOf(p) ==
  solo[p] /\ Running(p) => (\A q \in Proc \ {p} : ~Running(q)) /\ Undisturbed(p)

Alone == \A p \in Proc : AloneOf(p)

-----------------------------------------------------------------------------
(***************************************************************************)
(* Files of the user, and the lines that are written for them.             *)
(***************************************************************************)

\* Users and databases of a file.
LEMMA FileTypes ==
  ASSUME NEW c \in Configs
  PROVE  /\ c \in Config /\ Valid(c) /\ c.auth \in BOOLEAN /\ c.ssl \in BOOLEAN
         /\ \A u \in ToSet(c.users) : u \in User
         /\ \A k \in DOMAIN c.users : c.users[k] \in User /\ c.users[k] \in ToSet(c.users)
         /\ \A d \in ToSet(c.dbs) : d \in Db
         /\ \A k \in DOMAIN c.dbs : c.dbs[k] \in Db
         /\ c.users # << >> =>
              /\ 1 \in DOMAIN c.users /\ Head(c.users) = c.users[1]
              /\ Head(c.users) \in User /\ Head(c.users) \in ToSet(c.users)
         /\ c.dbs # << >> => Head(c.dbs) \in Db /\ Head(c.dbs) = c.dbs[1] /\ 1 \in DOMAIN c.dbs
         /\ FirstDb(c) \in Db
<1>1. c \in Config /\ Valid(c)
  BY ConfigAssumption
<1>2. /\ c.users \in Seq(User) /\ c.dbs \in Seq(Db)
      /\ c.auth \in BOOLEAN /\ c.ssl \in BOOLEAN
  BY <1>1 DEF Config
<1>3. \A k \in DOMAIN c.users : c.users[k] \in User /\ c.users[k] \in ToSet(c.users)
  BY <1>2 DEF ToSet
<1>4. \A k \in DOMAIN c.dbs : c.dbs[k] \in Db
  BY <1>2
<1>5. /\ \A u \in ToSet(c.users) : u \in User
      /\ \A d \in ToSet(c.dbs) : d \in Db
  BY <1>3, <1>4 DEF ToSet
<1>6. ASSUME c.users # << >>
      PROVE  1 \in DOMAIN c.users /\ Head(c.users) = c.users[1]
  BY <1>2, <1>6
<1>7. ASSUME c.dbs # << >>
      PROVE  1 \in DOMAIN c.dbs /\ Head(c.dbs) = c.dbs[1]
  BY <1>2, <1>7
<1>8. FirstDb(c) \in Db
  BY <1>4, <1>7, NameAssumption DEF FirstDb
<1> QED BY <1>1, <1>2, <1>3, <1>4, <1>5, <1>6, <1>7, <1>8

\* A line of the file, by what it says.
LEMMA GeneratedLine ==
  ASSUME NEW c \in Configs, NEW l \in generatePgHbaConfContent(c)
  PROVE  /\ l \in Line /\ l.from = "any" /\ l.user \in Role
         /\ l.type \in {"local", IF c.ssl THEN "hostssl" ELSE "host"}
         /\ l.method = IF c.auth THEN "scram" ELSE "trust"
<1> DEFINE method == IF c.auth THEN "scram" ELSE "trust"
<1>1. PICK u \in ToSet(c.users) : l \in generatePgHbaEntriesForUser(u, method, c.ssl)
  BY DEF generatePgHbaConfContent
<1>2. u \in User
  BY FileTypes
<1>3. PICK types \in SUBSET {"local", IF c.ssl THEN "hostssl" ELSE "host"},
           dbs \in SUBSET (Db \union {"all"}) :
        l \in [type : types, db : dbs, user : {u.name}, from : {"any"}, method : {method}]
  <2> DEFINE dbs == IF u.dbs = {} \/ "*" \in u.dbs THEN {"all"} ELSE u.dbs
             types == (IF "tcp" \in u.types THEN {IF c.ssl THEN "hostssl" ELSE "host"} ELSE {})
                      \union (IF "local" \in u.types THEN {"local"} ELSE {})
  <2>1. dbs \in SUBSET (Db \union {"all"})
    BY <1>2 DEF User
  <2>2. types \in SUBSET {"local", IF c.ssl THEN "hostssl" ELSE "host"}
    OBVIOUS
  <2>3. l \in [type : types, db : dbs, user : {u.name}, from : {"any"}, method : {method}]
    BY <1>1 DEF generatePgHbaEntriesForUser
  <2> QED BY <2>1, <2>2, <2>3
<1>4. u.name \in Role
  BY <1>2 DEF User
<1> QED BY <1>3, <1>4 DEF Line, Method

LEMMA LineTypes ==
  ASSUME NEW c \in Configs
  PROVE  /\ generatePgHbaConfContent(c) \in SUBSET Line
         /\ DefaultLines(c.auth) \in SUBSET Line
         /\ \A hba \in SUBSET Line : setPgHbaRequireSSL(hba) \in SUBSET Line
         /\ \A hba \in SUBSET Line : hbaWithSSL(hba) \in SUBSET Line
<1>1. generatePgHbaConfContent(c) \in SUBSET Line
  BY GeneratedLine
<1>2. DefaultLines(c.auth) \in SUBSET Line
  BY DEF DefaultLines, Line, Method
<1>3. ASSUME NEW hba \in SUBSET Line PROVE setPgHbaRequireSSL(hba) \in SUBSET Line
  <2> SUFFICES ASSUME NEW l \in hba
               PROVE (IF l.type = "host" THEN [l EXCEPT !.type = "hostssl"] ELSE l) \in Line
    BY DEF setPgHbaRequireSSL
  <2> l \in Line
    OBVIOUS
  <2> QED BY DEF Line
<1> QED BY <1>1, <1>2, <1>3 DEF hbaWithSSL

\* Lines that let nobody in over the network without SSL stay as they are.
LEMMA RequireTwice ==
  ASSUME NEW hba \in SUBSET Line
  PROVE  setPgHbaRequireSSL(setPgHbaRequireSSL(hba)) = setPgHbaRequireSSL(hba)
<1> DEFINE once(l) == IF l.type = "host" THEN [l EXCEPT !.type = "hostssl"] ELSE l
<1>1. \A l \in Line : once(l).type # "host"
  BY DEF Line
<1>2. \A l \in setPgHbaRequireSSL(hba) : l.type # "host"
  BY <1>1 DEF setPgHbaRequireSSL
<1> HIDE DEF once
<1>3. \A l \in setPgHbaRequireSSL(hba) :
        (IF l.type = "host" THEN [l EXCEPT !.type = "hostssl"] ELSE l) = l
  BY <1>2
<1> QED BY <1>3 DEF setPgHbaRequireSSL

LEMMA LinesWithSSL ==
  ASSUME NEW c \in Configs, c.ssl, NEW hba \in SUBSET Line, Lines(c, hba)
  PROVE  Lines(c, hbaWithSSL(hba))
<1>1. CASE hbaWithSSL(hba) = hba
  BY <1>1
<1>2. CASE hbaWithSSL(hba) = setPgHbaRequireSSL(hba)
  BY <1>2, LineTypes, RequireTwice DEF Lines
<1> QED BY <1>1, <1>2 DEF hbaWithSSL

\* Whom the commands connect as.
LEMMA AdminIs ==
  ASSUME NEW c \in Configs
  PROVE  /\ getAuthUserFromConfig(c).name \in Role
         /\ c.users = << >> => getAuthUserFromConfig(c) = [name |-> "postgres", pw |-> ""]
         /\ c.users # << >> => InUsers(c, getAuthUserFromConfig(c).name)
         /\ c.auth /\ Administers(c) =>
              /\ c.users # << >> /\ getAuthUserFromConfig(c).pw # ""
              /\ \A u \in ToSet(c.users) :
                   u.name = getAuthUserFromConfig(c).name => u.pw = getAuthUserFromConfig(c).pw
<1> DEFINE admin == getAuthUserFromConfig(c)
           supers == {k \in DOMAIN c.users : c.users[k].name = "postgres"}
<1>1. c.users = << >> => admin = [name |-> "postgres", pw |-> ""]
  BY DEF getAuthUserFromConfig
<1>2. c.users # << >> => InUsers(c, admin.name) /\ admin.name \in Role
  <2> SUFFICES ASSUME c.users # << >> PROVE InUsers(c, admin.name) /\ admin.name \in Role
    OBVIOUS
  <2>1. CASE c.auth /\ supers # {}
    <3>1. admin = [name |-> "postgres", pw |-> c.users[Min(supers)].pw]
      BY <2>1 DEF getAuthUserFromConfig
    <3>2. PICK k \in DOMAIN c.users : c.users[k].name = "postgres"
      BY <2>1
    <3>3. admin.name = "postgres"
      BY <3>1
    <3>4. c.users[k] \in ToSet(c.users)
      BY <3>2, FileTypes
    <3> HIDE DEF admin
    <3> QED BY <3>2, <3>3, <3>4, NameAssumption DEF InUsers
  <2>2. CASE ~(c.auth /\ supers # {})
    <3>1. admin = [name |-> Head(c.users).name, pw |-> Head(c.users).pw]
      BY <2>2 DEF getAuthUserFromConfig
    <3>2. Head(c.users) \in User /\ Head(c.users) \in ToSet(c.users)
      BY FileTypes
    <3>3. admin.name = Head(c.users).name
      BY <3>1
    <3> HIDE DEF admin
    <3> QED BY <3>2, <3>3 DEF InUsers, User
  <2> QED BY <2>1, <2>2
<1>3. c.auth => c.users # << >> /\ \A u \in ToSet(c.users) : u.pw # ""
  BY FileTypes DEF Valid
<1>4. c.auth /\ Administers(c) =>
        \A u \in ToSet(c.users) : u.name = admin.name => u.pw = admin.pw
  BY <1>3 DEF Administers
<1>5. c.auth /\ Administers(c) => admin.pw # ""
  BY <1>2, <1>3, <1>4 DEF InUsers
<1> HIDE DEF admin
<1>6. ASSUME c.users = << >> PROVE admin.name = "postgres"
  <2>1. admin = [name |-> "postgres", pw |-> ""]
    BY <1>1, <1>6
  <2> QED BY <2>1
<1>7. admin.name \in Role
  BY <1>2, <1>6, NameAssumption
<1> QED BY <1>1, <1>2, <1>3, <1>4, <1>5, <1>7 DEF admin

\* The lines of a file let its administrator in, and without SSL unless it asks
\* for that.
LEMMA LetsIn ==
  ASSUME NEW c \in Configs, Administers(c), NEW hba \in SUBSET Line, Lines(c, hba),
         NEW db \in {"postgres", FirstDb(c)}
  PROVE  \E l \in hba :
           /\ l.type \in (IF c.ssl THEN {"host", "hostssl"} ELSE {"host"})
           /\ l.db \in {"all", db} /\ l.user \in {"all", getAuthUserFromConfig(c).name}
           /\ l.from = "any" /\ (l.method = "scram" => c.auth)
<1> DEFINE admin == getAuthUserFromConfig(c)
           fits(l) == /\ l.db \in {"all", db} /\ l.user \in {"all", admin.name}
                      /\ l.from = "any" /\ (l.method = "scram" => c.auth)
           plain(l) == l.type = (IF c.ssl THEN "hostssl" ELSE "host") \/ l.type = "host"
           ssl(l) == IF l.type = "host" THEN [l EXCEPT !.type = "hostssl"] ELSE l
<1>1. \E l \in DefaultLines(c.auth) : l \in Line /\ fits(l) /\ plain(l)
  <2> DEFINE l == [type |-> "host", db |-> "all", user |-> "all", from |-> "any",
                   method |-> IF c.auth THEN "scram" ELSE "trust"]
  <2>1. l \in DefaultLines(c.auth)
    BY DEF DefaultLines
  <2>2. l \in Line
    BY <2>1, LineTypes
  <2>3. fits(l) /\ plain(l)
    BY FileTypes
  <2> QED BY <2>1, <2>2, <2>3
<1>2. c.users # << >> =>
        \E l \in generatePgHbaConfContent(c) : l \in Line /\ fits(l) /\ plain(l)
  <2> SUFFICES ASSUME c.users # << >>
               PROVE \E l \in generatePgHbaConfContent(c) : l \in Line /\ fits(l) /\ plain(l)
    OBVIOUS
  <2>1. PICK l \in generatePgHbaConfContent(c) :
          l.type # "local" /\ l.db \in {"all", db} /\ l.user = admin.name
    BY DEF Administers
  <2>2. /\ l \in Line /\ l.from = "any"
        /\ l.type \in {"local", IF c.ssl THEN "hostssl" ELSE "host"}
        /\ l.method = IF c.auth THEN "scram" ELSE "trust"
    BY GeneratedLine
  <2> QED BY <2>1, <2>2
<1>3. ASSUME NEW set \in SUBSET Line, \E l \in set : l \in Line /\ fits(l) /\ plain(l), c.ssl
      PROVE  \E l \in setPgHbaRequireSSL(set) : l \in Line /\ fits(l) /\ plain(l)
  <2>1. PICK l \in set : l \in Line /\ fits(l) /\ plain(l)
    BY <1>3
  <2>2. ssl(l) \in setPgHbaRequireSSL(set)
    BY DEF setPgHbaRequireSSL
  <2>3. ssl(l) \in Line /\ fits(ssl(l)) /\ plain(ssl(l))
    BY <2>1, <1>3 DEF Line
  <2> QED BY <2>2, <2>3
<1>4. \E l \in hba : l \in Line /\ fits(l) /\ plain(l)
  BY <1>1, <1>2, <1>3, LineTypes DEF Lines
<1> QED BY <1>4


-----------------------------------------------------------------------------
(***************************************************************************)
(* Volumes, and how a command goes on.                                     *)
(***************************************************************************)

IsVolume(v) == v = NoVolume \/ v \in Volume \/ \E u \in SUBSET Configs : v = Blank(u)

LEMMA VolumeKinds ==
  /\ ~HasData(NoVolume)
  /\ \A u : ~HasData(Blank(u)) /\ Blank(u) # NoVolume /\ Blank(u).used = u
  /\ \A v \in Volume : HasData(v) /\ v # NoVolume
<1>1. ~HasData(NoVolume)
  BY DEF HasData, NoVolume
<1>2. ASSUME NEW u
      PROVE  ~HasData(Blank(u)) /\ Blank(u) # NoVolume /\ Blank(u).used = u
  <2>1. DOMAIN Blank(u) = {"state", "used"} /\ DOMAIN NoVolume = {"state"}
    BY DEF Blank, NoVolume
  <2>2. "used" \in DOMAIN Blank(u) /\ "used" \notin DOMAIN NoVolume
    BY <2>1
  <2> QED BY <2>1, <2>2 DEF HasData, Blank
<1>3. ASSUME NEW v \in Volume PROVE HasData(v) /\ v # NoVolume
  <2>1. HasData(v)
    BY DEF HasData, Volume
  <2> QED BY <1>1, <2>1
<1> QED BY <1>1, <1>2, <1>3

LEMMA DataIsVolume ==
  ASSUME NEW v, IsVolume(v)
  PROVE  /\ HasData(v) => v \in Volume
         /\ v # NoVolume => v.used \in SUBSET Configs
<1>1. v \in Volume => v.used \in SUBSET Configs
  BY DEF Volume
<1> QED BY <1>1, VolumeKinds DEF IsVolume

\* A command is entered in what is there.
LEMMA UsesDoes ==
  ASSUME NEW v, IsVolume(v), NEW c \in Configs
  PROVE  /\ IsVolume(Uses(v, c))
         /\ HasData(Uses(v, c)) <=> HasData(v)
         /\ v = NoVolume <=> Uses(v, c) = NoVolume
         /\ v # NoVolume => Uses(v, c).used = v.used \union {c}
         /\ HasData(v) => /\ Uses(v, c).hba = v.hba /\ Uses(v, c).ssl = v.ssl
                          /\ Uses(v, c).pw = v.pw /\ Uses(v, c).dbs = v.dbs
                          /\ Uses(v, c).granted = v.granted
<1>1. CASE v = NoVolume
  BY <1>1, VolumeKinds DEF Uses
<1>2. CASE v \in Volume
  <2>1. Uses(v, c) = [v EXCEPT !.used = v.used \union {c}]
    BY <1>2, VolumeKinds DEF Uses
  <2>2. Uses(v, c) \in Volume
    BY <1>2, <2>1 DEF Volume
  <2> QED BY <1>2, <2>1, <2>2, VolumeKinds DEF Volume, IsVolume
<1>3. ASSUME NEW u \in SUBSET Configs, v = Blank(u) PROVE Uses(v, c) = Blank(u \union {c})
  <2>1. Uses(v, c) = [v EXCEPT !.used = v.used \union {c}]
    BY <1>3, VolumeKinds DEF Uses
  <2> QED BY <1>3, <2>1 DEF Blank
<1>4. CASE \E u \in SUBSET Configs : v = Blank(u)
  <2>1. PICK u \in SUBSET Configs : v = Blank(u)
    BY <1>4
  <2>2. Uses(v, c) = Blank(u \union {c})
    BY <1>3, <2>1
  <2> QED BY <2>1, <2>2, VolumeKinds DEF IsVolume
<1> QED BY <1>1, <1>2, <1>4 DEF IsVolume

\* What the image writes to a volume.
LEMMA ImageDoes ==
  ASSUME NEW c \in Configs, NEW v, v.used \in SUBSET Configs
  PROVE  /\ buildDockerEnvVars(c, v) \in Volume
         /\ buildDockerEnvVars(c, v).used = v.used
         /\ buildDockerEnvVars(c, v).hba = DefaultLines(c.auth)
         /\ buildDockerEnvVars(c, v).ssl = FALSE
         /\ {"postgres", FirstDb(c)} \subseteq buildDockerEnvVars(c, v).dbs
         /\ AdminIn(c, buildDockerEnvVars(c, v).pw)
<1> DEFINE su == IF c.users = << >> THEN [name |-> "postgres", pw |-> ""] ELSE Head(c.users)
           pw == [r \in Role |-> IF r # su.name THEN "absent"
                                 ELSE IF su.pw = "" THEN "none" ELSE su.pw]
           dbs == {"postgres"} \union {c.dbs[k] : k \in DOMAIN c.dbs \cap {1}}
           e == buildDockerEnvVars(c, v)
<1>1. e = [hba |-> DefaultLines(c.auth), ssl |-> FALSE, scram |-> FALSE, pw |-> pw,
           dbs |-> dbs, granted |-> {}, used |-> v.used]
  BY DEF buildDockerEnvVars
<1>2. su.name \in Role /\ su.pw \in Password \union {""}
  <2>1. CASE c.users = << >>
    BY <2>1, NameAssumption
  <2>2. CASE c.users # << >>
    <3>1. Head(c.users) \in User /\ su = Head(c.users)
      BY <2>2, FileTypes
    <3> HIDE DEF su
    <3> QED BY <3>1 DEF User
  <2> QED BY <2>1, <2>2
<1>3. AdminIn(c, pw)
  <2> SUFFICES ASSUME Administers(c)
               PROVE  LET admin == getAuthUserFromConfig(c) IN
                      pw[admin.name] # "absent" /\ (c.auth => pw[admin.name] = admin.pw)
    BY DEF AdminIn
  <2> DEFINE admin == getAuthUserFromConfig(c)
  <2>1. su.name = admin.name
    <3>1. CASE c.users = << >>
      <4>1. admin = [name |-> "postgres", pw |-> ""] /\ su = [name |-> "postgres", pw |-> ""]
        BY <3>1, AdminIs
      <4> HIDE DEF su, admin
      <4> QED BY <4>1
    <3>2. CASE c.users # << >>
      BY <3>2 DEF Administers
    <3> QED BY <3>1, <3>2
  <2>2. c.auth => su.pw = admin.pw /\ admin.pw # ""
    <3> SUFFICES ASSUME c.auth PROVE su.pw = admin.pw /\ admin.pw # ""
      OBVIOUS
    <3>1. /\ c.users # << >> /\ admin.pw # ""
          /\ \A u \in ToSet(c.users) : u.name = admin.name => u.pw = admin.pw
      BY AdminIs
    <3>2. su \in ToSet(c.users)
      BY <3>1, FileTypes
    <3> HIDE DEF su, admin
    <3> QED BY <2>1, <3>1, <3>2
  <2>3. pw[su.name] = IF su.pw = "" THEN "none" ELSE su.pw
    BY <1>2
  <2>4. pw[su.name] # "absent"
    <3> HIDE DEF su
    <3> QED BY <1>2, <2>3, NameAssumption
  <2> HIDE DEF su, admin, pw
  <2> QED BY <2>1, <2>2, <2>3, <2>4 DEF admin
<1>4. pw \in [Role -> Stored]
  <2> HIDE DEF su
  <2> QED BY <1>2 DEF Stored
<1>5. dbs \in SUBSET Db /\ {"postgres", FirstDb(c)} \subseteq dbs
  <2>1. dbs \in SUBSET Db
    BY FileTypes, NameAssumption
  <2>2. FirstDb(c) \in dbs
    <3>1. CASE c.dbs = << >>
      BY <3>1 DEF FirstDb
    <3>2. CASE c.dbs # << >>
      BY <3>2, FileTypes DEF FirstDb
    <3> QED BY <3>1, <3>2
  <2> QED BY <2>1, <2>2
<1> HIDE DEF pw, dbs, e, su
<1>6. e \in Volume
  BY <1>1, <1>4, <1>5, LineTypes DEF Volume
<1> QED BY <1>1, <1>3, <1>5, <1>6 DEF e


\* The other commands stay where they are, with what they have in hand.
Stepped(p) ==
  /\ pc' \in [Proc -> Steps \union Resting] /\ run' \in [Proc -> Locals]
  /\ \A q \in Proc \ {p} : pc'[q] = pc[q] /\ run'[q] = run[q]
  /\ UNCHANGED callVars

\* A command keeps what it has read, forgets it or reads.
Copied(p) ==
  \/ run'[p].seen = run[p].seen /\ run'[p].hba = run[p].hba /\ run'[p].ssl = run[p].ssl
  \/ run'[p] = NoLocals
  \/ /\ Up /\ run'[p].seen = volume.used
     /\ run'[p].hba = volume.hba /\ run'[p].ssl = volume.ssl

Onward(p, from, to) == pc[p] \in from /\ pc'[p] \in to /\ Stepped(p) /\ Copied(p)

LEMMA NoLocalsTyped == NoLocals \in Locals
BY DEF NoLocals, Locals

LEMMA GoesDoes ==
  ASSUME Typed, NEW p \in Proc, NEW next \in Steps \union Resting, NEW locals \in Locals,
         Goes(p, next, locals), UNCHANGED callVars
  PROVE  /\ Stepped(p) /\ pc'[p] = next
         /\ run'[p] = IF next \in Resting THEN NoLocals ELSE locals
<1>1. pc \in [Proc -> Steps \union Resting] /\ run \in [Proc -> Locals]
  BY DEF Typed, TypeOK
<1> QED BY <1>1, NoLocalsTyped DEF Goes, Stepped

LEMMA GoToDoes ==
  ASSUME Typed, NEW p \in Proc, NEW next \in Steps \union Resting,
         GoTo(p, next), UNCHANGED callVars
  PROVE  /\ Stepped(p) /\ pc'[p] = next /\ Copied(p)
         /\ run'[p] = IF next \in Resting THEN NoLocals ELSE run[p]
<1>1. run[p] \in Locals
  BY DEF Typed, TypeOK
<1>2. /\ Stepped(p) /\ pc'[p] = next
      /\ run'[p] = IF next \in Resting THEN NoLocals ELSE run[p]
  BY <1>1, GoesDoes DEF GoTo
<1> QED BY <1>2 DEF Copied

LEMMA KeepsClientDoes ==
  ASSUME Typed, NEW p \in Proc, KeepsClient(p)
  PROVE  /\ connected' \in SUBSET connected /\ connected' \in SUBSET Proc
         /\ pc'[p] \notin Resting => connected' = connected
         /\ connected \ {p} \subseteq connected'
         /\ ~Up => connected' = {}
BY DEF KeepsClient, Typed, TypeOK

\* A call into the container, and a statement of the client.
LEMMA ExecDoes ==
  ASSUME Typed, NEW p \in Proc, NEW next, NEW locals, Exec(p, next, locals),
         Up => next \in Steps \union Resting /\ locals \in Locals
  PROVE  /\ Stepped(p) /\ UNCHANGED <<serverVars, faults>>
         /\ connected' \in SUBSET connected /\ connected' \in SUBSET Proc
         /\ pc'[p] \notin Resting => connected' = connected
         /\ ~Up => connected' = {} /\ pc'[p] = "failed" /\ run'[p] = NoLocals
         /\ Up => /\ pc'[p] = next
                  /\ run'[p] = IF next \in Resting THEN NoLocals ELSE locals
<1>1. KeepsClient(p) /\ UNCHANGED <<serverVars, callVars, faults>>
  BY DEF Exec
<1>2. CASE Up
  BY <1>1, <1>2, GoesDoes, KeepsClientDoes DEF Exec
<1>3. CASE ~Up
  <2>1. GoTo(p, "failed")
    BY <1>3 DEF Exec
  <2> QED BY <1>1, <1>3, <2>1, GoToDoes, KeepsClientDoes DEF Resting
<1> QED BY <1>2, <1>3

LEMMA QueryDoes ==
  ASSUME Typed, NEW p \in Proc, NEW next \in Steps \union Resting, Query(p, next),
         UNCHANGED callVars
  PROVE  /\ Stepped(p) /\ Copied(p)
         /\ connected' \in SUBSET connected /\ connected' \in SUBSET Proc
         /\ pc'[p] \notin Resting => connected' = connected
         /\ ~Up => connected' = {}
         /\ pc'[p] = IF p \in connected THEN next ELSE "failed"
         /\ run'[p] = IF pc'[p] \in Resting THEN NoLocals ELSE run[p]
<1> DEFINE to == IF p \in connected THEN next ELSE "failed"
<1>1. GoTo(p, to) /\ KeepsClient(p)
  BY DEF Query
<1>2. to \in Steps \union Resting
  BY DEF Resting
<1> HIDE DEF to
<1>3. /\ Stepped(p) /\ Copied(p) /\ pc'[p] = to
      /\ run'[p] = IF to \in Resting THEN NoLocals ELSE run[p]
  BY <1>1, <1>2, GoToDoes
<1> QED BY <1>1, <1>3, KeepsClientDoes DEF to

\* What a step must keep for all the types to be kept.
ServerTyped ==
  /\ IsVolume(volume)
  /\ container \in [state : {"none", "stopped", "running"}, certs : BOOLEAN]
  /\ container.state # "none" => HasData(volume)
  /\ live \in [hba : SUBSET Line, ssl : BOOLEAN]
  /\ connected \in SUBSET Proc /\ (~Up => connected = {})
  /\ faults \in 0..MaxFaults

LEMMA TypedServer == ASSUME Typed PROVE ServerTyped
BY DEF Typed, TypeOK, Backed, ServerTyped, IsVolume

LEMMA StepTyped ==
  ASSUME Typed, NEW p \in Proc, Stepped(p), ServerTyped',
         (KindOf(p) /\ PlaceOf(p) /\ ReadOf(p))'
  PROVE  Typed'
<1>1. TypeOK'
  BY DEF Typed, TypeOK, ServerTyped, Stepped, callVars, IsVolume, Up
<1>2. Backed'
  BY DEF ServerTyped, Backed
<1>3. ASSUME NEW q \in Proc \ {p} PROVE (KindOf(q) /\ PlaceOf(q) /\ ReadOf(q))'
  <2>1. pc'[q] = pc[q] /\ run'[q] = run[q] /\ cmd' = cmd
    BY DEF Stepped, callVars
  <2>2. KindOf(q) /\ PlaceOf(q) /\ ReadOf(q)
    BY DEF Typed, Placed
  <2> QED BY <2>1, <2>2 DEF KindOf, PlaceOf, ReadOf, Cfg
<1> QED BY <1>1, <1>2, <1>3 DEF Typed, Placed

\* Between two steps of the same kind only what a command has in hand can matter.
LEMMA CommandHere ==
  ASSUME Typed, NEW p \in Proc
  PROVE  /\ Cfg(p) \in Configs /\ KindOf(p) /\ PlaceOf(p) /\ ReadOf(p)
         /\ run[p] \in Locals /\ pc[p] \in Steps \union Resting /\ cmd[p] \in Command
<1>1. cmd[p] \in Command
  BY DEF Typed, TypeOK
<1> QED BY <1>1 DEF Typed, TypeOK, Placed, Cfg, Command


-----------------------------------------------------------------------------
(***************************************************************************)
(* What each step does: volume and container.                              *)
(***************************************************************************)

LEMMA FaultTyped ==
  ASSUME Typed, Fault \/ UNCHANGED faults
  PROVE  faults' \in 0..MaxFaults
BY BoundAssumption DEF Typed, TypeOK, Fault

LEMMA VolumeRemoveDoes ==
  ASSUME Typed, NEW p \in Proc, VolumeRemove(p)
  PROVE  /\ Typed' /\ Onward(p, {"volumeRemove"}, {"volumeCreate"}) /\ run'[p] = run[p]
         /\ UNCHANGED <<container, live, connected>>
         /\ volume' = volume \/ (volume' = NoVolume /\ container.state = "none")
         /\ faults' = faults \/ Fault
<1>1. /\ pc[p] = "volumeRemove" /\ GoTo(p, "volumeCreate")
      /\ UNCHANGED <<container, live, connected, callVars>>
      /\ volume' = volume \/ (volume' = NoVolume /\ container.state = "none")
      /\ faults' = faults \/ Fault
  BY DEF VolumeRemove, serverVars
<1>2. /\ Stepped(p) /\ pc'[p] = "volumeCreate" /\ run'[p] = run[p] /\ Copied(p)
  BY <1>1, GoToDoes DEF Steps, Resting
<1>3. ServerTyped'
  BY <1>1, TypedServer, FaultTyped DEF ServerTyped, IsVolume, Up
<1>4. (KindOf(p) /\ PlaceOf(p) /\ ReadOf(p))'
  BY <1>1, <1>2, CommandHere
  DEF Stepped, callVars, KindOf, PlaceOf, ReadOf, Cfg, StartSteps, UserSteps, DbSteps, StopSteps,
      LineSteps, UsersFirst, PasswordSteps, SslSteps, Resting
<1> QED BY <1>1, <1>2, <1>3, <1>4, StepTyped DEF Onward

\* The volume that docker makes.
LEMMA NewVolumeDoes ==
  ASSUME Typed
  PROVE  /\ IsVolume(NewVolume) /\ ~HasData(NewVolume) /\ NewVolume # NoVolume
         /\ \A p \in Setters : Cfg(p) \in NewVolume.used /\ run[p].seen \subseteq NewVolume.used
         /\ NewVolume.used \in SUBSET Configs
         /\ \A c \in Configs : NewVolume.used = {c} =>
              \A p \in Setters : Cfg(p) = c /\ run[p].seen \subseteq {c}
<1> DEFINE users == {Cfg(q) : q \in Setters} \union UNION {run[q].seen : q \in Setters}
<1>1. \A p \in Proc : Cfg(p) \in Configs /\ run[p].seen \in SUBSET Configs
  BY CommandHere DEF Locals
<1>2. users \in SUBSET Configs
  BY <1>1 DEF Setters
<1>3. NewVolume = Blank(users)
  BY DEF NewVolume
<1>4. NewVolume.used = users
  BY <1>3, VolumeKinds
<1>5. \A p \in Setters : Cfg(p) \in users /\ run[p].seen \subseteq users
  OBVIOUS
<1> HIDE DEF users
<1> QED BY <1>2, <1>3, <1>4, <1>5, VolumeKinds DEF IsVolume

LEMMA VolumeCreateDoes ==
  ASSUME Typed, NEW p \in Proc, VolumeCreate(p)
  PROVE  /\ Typed' /\ Onward(p, {"volumeCreate"}, {"inspect"}) /\ run'[p] = run[p]
         /\ UNCHANGED <<container, live, connected, faults>>
         /\ volume' = IF volume = NoVolume THEN NewVolume ELSE volume
<1>1. /\ pc[p] = "volumeCreate" /\ GoTo(p, "inspect")
      /\ UNCHANGED <<container, live, connected, callVars, faults>>
      /\ volume' = IF volume = NoVolume THEN NewVolume ELSE volume
  BY DEF VolumeCreate, serverVars
<1>2. /\ Stepped(p) /\ pc'[p] = "inspect" /\ run'[p] = run[p] /\ Copied(p)
  BY <1>1, GoToDoes DEF Steps, Resting
<1>3. ServerTyped'
  BY <1>1, TypedServer, NewVolumeDoes, VolumeKinds DEF ServerTyped, Up
<1>4. (KindOf(p) /\ PlaceOf(p) /\ ReadOf(p))'
  BY <1>1, <1>2, CommandHere
  DEF Stepped, callVars, KindOf, PlaceOf, ReadOf, Cfg, StartSteps, UserSteps, DbSteps, StopSteps,
      LineSteps, UsersFirst, PasswordSteps, SslSteps, Resting
<1> QED BY <1>1, <1>2, <1>3, <1>4, StepTyped DEF Onward

LEMMA InspectDoes ==
  ASSUME Typed, NEW p \in Proc, Inspect(p)
  PROVE  /\ Typed' /\ Onward(p, {"inspect"}, {"ready", "remove"}) /\ run'[p] = run[p]
         /\ pc'[p] = IF Up THEN "ready" ELSE "remove"
         /\ UNCHANGED <<volume, container, live, connected, faults>>
<1>1. /\ pc[p] = "inspect" /\ GoTo(p, IF Up THEN "ready" ELSE "remove")
      /\ UNCHANGED <<volume, container, live, connected, callVars, faults>>
  BY DEF Inspect, serverVars
<1>2. /\ Stepped(p) /\ pc'[p] = (IF Up THEN "ready" ELSE "remove")
      /\ run'[p] = run[p] /\ Copied(p)
  BY <1>1, GoToDoes DEF Steps, Resting
<1>3. ServerTyped'
  BY <1>1, TypedServer DEF ServerTyped, Up
<1>4. (KindOf(p) /\ PlaceOf(p) /\ ReadOf(p))'
  BY <1>1, <1>2, CommandHere
  DEF Stepped, callVars, KindOf, PlaceOf, ReadOf, Cfg, StartSteps, UserSteps, DbSteps, StopSteps,
      LineSteps, UsersFirst, PasswordSteps, SslSteps, Resting
<1> QED BY <1>1, <1>2, <1>3, <1>4, StepTyped DEF Onward

LEMMA RemoveContainerDoes ==
  ASSUME Typed, NEW p \in Proc, RemoveContainer(p)
  PROVE  /\ Typed' /\ Onward(p, {"remove"}, {"run", "failed"})
         /\ pc'[p] = IF Up THEN "failed" ELSE "run"
         /\ run'[p] = IF Up THEN NoLocals ELSE run[p]
         /\ UNCHANGED <<volume, live, connected, faults>>
         /\ container' = IF Up THEN container ELSE [state |-> "none", certs |-> FALSE]
<1>1. /\ pc[p] = "remove" /\ GoTo(p, IF Up THEN "failed" ELSE "run")
      /\ UNCHANGED <<volume, live, connected, callVars, faults>>
      /\ container' = IF Up THEN container ELSE [state |-> "none", certs |-> FALSE]
  BY DEF RemoveContainer
<1>2. /\ Stepped(p) /\ pc'[p] = (IF Up THEN "failed" ELSE "run") /\ Copied(p)
      /\ run'[p] = IF Up THEN NoLocals ELSE run[p]
  BY <1>1, GoToDoes DEF Steps, Resting
<1>3. ServerTyped'
  BY <1>1, TypedServer DEF ServerTyped, Up
<1>4. (KindOf(p) /\ PlaceOf(p) /\ ReadOf(p))'
  BY <1>1, <1>2, CommandHere
  DEF Stepped, callVars, KindOf, PlaceOf, ReadOf, Cfg, StartSteps, UserSteps, DbSteps, StopSteps,
      LineSteps, UsersFirst, PasswordSteps, SslSteps, Resting, NoLocals
<1> QED BY <1>1, <1>2, <1>3, <1>4, StepTyped DEF Onward

\* The server starts, or does not for want of certificates.
LEMMA BootDoes ==
  ASSUME Typed, NEW v \in Volume, NEW certs \in BOOLEAN, Boot(v, certs)
  PROVE  /\ volume' = v /\ container'.certs = certs
         /\ container' \in [state : {"none", "stopped", "running"}, certs : BOOLEAN]
         /\ container'.state # "none"
         /\ live' \in [hba : SUBSET Line, ssl : BOOLEAN]
         /\ Up' <=> (v.ssl => certs)
         /\ Up' => live'.hba = v.hba /\ live'.ssl = v.ssl
<1>1. v.ssl \in BOOLEAN /\ v.hba \in SUBSET Line
  BY DEF Volume
<1>2. live \in [hba : SUBSET Line, ssl : BOOLEAN]
  BY TypedServer DEF ServerTyped
<1>3. CASE v.ssl /\ ~certs
  <2>1. /\ volume' = v /\ UNCHANGED live
        /\ container' = [state |-> "stopped", certs |-> certs]
    BY <1>3 DEF Boot
  <2>2. ~Up' /\ ~(v.ssl => certs)
    BY <1>3, <2>1 DEF Up
  <2> QED BY <1>2, <2>1, <2>2
<1>4. CASE ~(v.ssl /\ ~certs)
  BY <1>1, <1>2, <1>4 DEF Boot, Up
<1> QED BY <1>3, <1>4

\* The volume as the server finds or makes it.
VolumeToRun(p) ==
  LET v == IF volume = NoVolume THEN NewVolume ELSE volume IN
  IF HasData(v) THEN v ELSE buildDockerEnvVars(Cfg(p), v)

LEMMA RunContainerDoes ==
  ASSUME Typed, NEW p \in Proc, RunContainer(p)
  PROVE  /\ Typed' /\ Onward(p, {"run"}, {"ready", "failed"}) /\ UNCHANGED <<connected, faults>>
         /\ pc'[p] = IF container.state # "none" THEN "failed" ELSE "ready"
         /\ run'[p] = IF container.state # "none" THEN NoLocals
                      ELSE [run[p] EXCEPT !.fresh = TRUE]
         /\ container.state # "none" => UNCHANGED <<volume, container, live>>
         /\ container.state = "none" => /\ Boot(VolumeToRun(p), Cfg(p).ssl)
                                        /\ VolumeToRun(p) \in Volume
<1>1. pc[p] = "run" /\ UNCHANGED <<connected, callVars, faults>>
  BY DEF RunContainer
<1>2. CASE container.state # "none"
  <2>1. GoTo(p, "failed") /\ UNCHANGED <<volume, container, live>>
    BY <1>2 DEF RunContainer, serverVars
  <2>2. Stepped(p) /\ pc'[p] = "failed" /\ run'[p] = NoLocals /\ Copied(p)
    BY <1>1, <2>1, GoToDoes DEF Resting
  <2>3. ServerTyped'
    BY <1>1, <2>1, TypedServer DEF ServerTyped, Up
  <2>4. (KindOf(p) /\ PlaceOf(p) /\ ReadOf(p))'
    BY <1>1, <2>2, CommandHere
    DEF Stepped, callVars, KindOf, PlaceOf, ReadOf, Cfg, StartSteps, UserSteps, DbSteps, StopSteps,
        LineSteps, UsersFirst, PasswordSteps, SslSteps, Resting, NoLocals
  <2> QED BY <1>1, <1>2, <2>1, <2>2, <2>3, <2>4, StepTyped DEF Onward
<1>3. CASE container.state = "none"
  <2> DEFINE v == IF volume = NoVolume THEN NewVolume ELSE volume
  <2>1. Boot(VolumeToRun(p), Cfg(p).ssl) /\ Goes(p, "ready", [run[p] EXCEPT !.fresh = TRUE])
    BY <1>3 DEF RunContainer, VolumeToRun
  <2>2. [run[p] EXCEPT !.fresh = TRUE] \in Locals
    BY CommandHere DEF Locals
  <2>3. /\ Stepped(p) /\ pc'[p] = "ready" /\ run'[p] = [run[p] EXCEPT !.fresh = TRUE]
    BY <1>1, <2>1, <2>2, GoesDoes DEF Steps, Resting
  <2>4. Copied(p)
    BY <2>3, CommandHere DEF Copied, Locals
  <2>5. IsVolume(v) /\ v # NoVolume
    BY TypedServer, NewVolumeDoes DEF ServerTyped
  <2>6. VolumeToRun(p) \in Volume
    BY <2>5, DataIsVolume, ImageDoes, CommandHere DEF VolumeToRun
  <2>7. Cfg(p).ssl \in BOOLEAN
    BY CommandHere, FileTypes
  <2>8. ServerTyped'
    BY <1>1, <1>3, <2>1, <2>6, <2>7, BootDoes, TypedServer, VolumeKinds
    DEF ServerTyped, IsVolume, Up
  <2>9. (KindOf(p) /\ PlaceOf(p) /\ ReadOf(p))'
    BY <1>1, <2>3, CommandHere
    DEF Stepped, callVars, KindOf, PlaceOf, ReadOf, Cfg, StartSteps, UserSteps, DbSteps, StopSteps,
        LineSteps, UsersFirst, PasswordSteps, SslSteps, Resting, Locals
  <2> QED BY <1>1, <1>3, <2>1, <2>3, <2>4, <2>6, <2>8, <2>9, StepTyped DEF Onward
<1> QED BY <1>2, <1>3


-----------------------------------------------------------------------------
(***************************************************************************)
(* What each step does: authorization and SSL.                             *)
(***************************************************************************)

LEMMA VolumeChanges ==
  ASSUME NEW v \in Volume
  PROVE  /\ \A hba \in SUBSET Line : [v EXCEPT !.hba = hba] \in Volume
         /\ \A ssl, scram \in BOOLEAN : [v EXCEPT !.ssl = ssl, !.scram = scram] \in Volume
         /\ \A r \in Role, w \in Stored : [v EXCEPT !.pw[r] = w] \in Volume
         /\ \A d \in SUBSET Db : [v EXCEPT !.dbs = d] \in Volume
         /\ \A g \in SUBSET Privilege : [v EXCEPT !.granted = g] \in Volume
BY DEF Volume

LEMMA UpHasData == ASSUME Typed, Up PROVE volume \in Volume /\ volume # NoVolume /\ HasData(volume)
<1>1. HasData(volume) /\ IsVolume(volume)
  BY TypedServer DEF ServerTyped, Up
<1> QED BY <1>1, DataIsVolume, VolumeKinds

LEMMA WritesHbaDoes ==
  ASSUME Typed, NEW hba \in SUBSET Line, WritesHba(hba)
  PROVE  /\ ~Up => volume' = volume
         /\ Up => volume' \in Volume /\ volume' = [volume EXCEPT !.hba = hba]
BY UpHasData, VolumeChanges DEF WritesHba

LEMMA WritesConfDoes ==
  ASSUME Typed, NEW ssl \in BOOLEAN, NEW scram \in BOOLEAN, WritesConf(ssl, scram)
  PROVE  /\ ~Up => volume' = volume
         /\ Up => volume' \in Volume /\ volume' = [volume EXCEPT !.ssl = ssl, !.scram = scram]
BY UpHasData, VolumeChanges DEF WritesConf

LEMMA RandomisedDoes ==
  ASSUME Typed, NEW p \in Proc, Randomised(p)
  PROVE  \/ volume' = volume
         \/ /\ Up /\ p \in connected /\ volume' \in Volume
            /\ volume' = [volume EXCEPT !.pw["postgres"] = "random"]
<1>1. p \in connected => Up
  BY TypedServer DEF ServerTyped
<1>2. "postgres" \in Role /\ "random" \in Stored
  BY NameAssumption DEF Stored
<1> QED BY <1>1, <1>2, UpHasData, VolumeChanges DEF Randomised

\* Only the volume's files are written, if at all, and the server stays up.
LEMMA FilesTyped ==
  ASSUME Typed, UNCHANGED <<serverVars, faults>>,
         volume' = volume \/ (Up /\ volume' \in Volume),
         connected' \in SUBSET Proc, ~Up => connected' = {}
  PROVE  ServerTyped'
BY TypedServer, VolumeKinds DEF ServerTyped, serverVars, IsVolume, Up

\* A client only comes with a running server.
LEMMA AcceptsUp ==
  ASSUME NEW v, NEW user, NEW db, NEW ssl, Accepts(v, user, db, ssl)
  PROVE  Up
BY DEF Accepts

\* Where a start goes once the server answers.
LEMMA AfterReadyIs ==
  ASSUME NEW c
  PROVE  /\ AfterReady(c) \in {"readSsl", "alter", "readConf", "syncHba", "done"}
         /\ AfterReady(c) = "alter" => c.users # << >> /\ c.auth /\ ~InUsers(c, "postgres")
         /\ AfterReady(c) = "readConf" => c.users # << >> /\ c.auth
         /\ AfterReady(c) = "syncHba" => c.users # << >>
         /\ AfterReady(c) = "readSsl" => c.users = << >> /\ c.ssl
         /\ AfterReady(c) = "done" => c.users = << >>
BY DEF AfterReady, AfterAuthorization

LEMMA WaitForReadyDoes ==
  ASSUME Typed, NEW p \in Proc, WaitForReady(p)
  PROVE  /\ Typed' /\ Onward(p, {"ready"}, {"readSsl", "alter", "readConf", "syncHba", "done", "failed"})
         /\ UNCHANGED <<volume, container, live, faults>>
         /\ pc'[p] # "failed" => pc'[p] = AfterReady(Cfg(p))
         /\ run'[p] = IF pc'[p] \in Resting THEN NoLocals ELSE run[p]
         /\ pc'[p] \notin Resting => connected' = connected \union {p} /\ Up
         /\ connected \ {p} \subseteq connected'
         /\ pc'[p] = "failed" =>
              LET modes == ModesIn(Cfg(p), FirstDb(Cfg(p))) IN
              ~(modes # {} /\ Accepts(volume, getAuthUserFromConfig(Cfg(p)), "postgres", FALSE \notin modes))
<1> DEFINE modes == ModesIn(Cfg(p), FirstDb(Cfg(p)))
           ok == modes # {} /\ Accepts(volume, getAuthUserFromConfig(Cfg(p)), "postgres", FALSE \notin modes)
           to == IF ok THEN AfterReady(Cfg(p)) ELSE "failed"
<1>1. /\ pc[p] = "ready" /\ GoTo(p, to)
      /\ connected' = IF Running(p)' THEN connected \union {p} ELSE connected \ {p}
      /\ UNCHANGED <<volume, serverVars, callVars, faults>>
  BY DEF WaitForReady
<1>2. ok => Up
  BY AcceptsUp
<1> HIDE DEF ok
<1>3. AfterReady(Cfg(p)) \in {"readSsl", "alter", "readConf", "syncHba", "done"}
  BY AfterReadyIs
<1>4. to \in Steps \union Resting
  BY <1>3 DEF Steps, Resting
<1>5. /\ Stepped(p) /\ pc'[p] = to /\ Copied(p)
      /\ run'[p] = IF to \in Resting THEN NoLocals ELSE run[p]
  BY <1>1, <1>4, GoToDoes
<1>6. /\ connected' = IF pc'[p] \notin Resting THEN connected \union {p} ELSE connected \ {p}
      /\ pc'[p] \notin Resting => Up
  BY <1>1, <1>2, <1>5 DEF Running, Resting
<1>7. ~Up => connected' = {}
  BY <1>6, TypedServer DEF ServerTyped
<1>8. connected' \in SUBSET Proc
  BY <1>6, TypedServer DEF ServerTyped
<1>9. ServerTyped'
  BY <1>1, <1>7, <1>8, FilesTyped
<1>10. (KindOf(p) /\ PlaceOf(p) /\ ReadOf(p))'
  <2>1. /\ AfterReady(Cfg(p)) = "alter" => Cfg(p).users # << >> /\ Cfg(p).auth /\ ~InUsers(Cfg(p), "postgres")
        /\ AfterReady(Cfg(p)) = "readConf" => Cfg(p).users # << >> /\ Cfg(p).auth
        /\ AfterReady(Cfg(p)) = "syncHba" => Cfg(p).users # << >>
        /\ AfterReady(Cfg(p)) = "readSsl" => Cfg(p).ssl
    BY AfterReadyIs
  <2>2. Cfg(p)' = Cfg(p) /\ cmd' = cmd
    BY <1>5 DEF Stepped, callVars, Cfg
  <2>3. pc'[p] \in {"readSsl", "alter", "readConf", "syncHba", "done", "failed"}
    BY <1>3, <1>5
  <2>4. KindOf(p)'
    BY <1>1, <2>2, <2>3, CommandHere
    DEF KindOf, StartSteps, UserSteps, DbSteps, StopSteps
  <2>5. ReadOf(p)'
    BY <1>1, <1>5, <2>2, <2>3, CommandHere DEF ReadOf, NoLocals, StartSteps, Resting
  <2>6. PlaceOf(p)'
    BY <1>5, <2>1, <2>2, <2>3
    DEF PlaceOf, NoLocals, LineSteps, UsersFirst, UserSteps, PasswordSteps, SslSteps, Resting
  <2> QED BY <2>4, <2>5, <2>6
<1>11. Typed'
  BY <1>5, <1>9, <1>10, StepTyped
<1>12. pc'[p] \in {"readSsl", "alter", "readConf", "syncHba", "done", "failed"}
  BY <1>3, <1>5
<1>13. UNCHANGED <<volume, container, live, faults>>
  BY <1>1 DEF serverVars
<1>14. pc'[p] # "failed" => pc'[p] = AfterReady(Cfg(p))
  BY <1>5
<1>15. pc'[p] = "failed" => ~ok
  BY <1>3, <1>5
<1>16. run'[p] = IF pc'[p] \in Resting THEN NoLocals ELSE run[p]
  BY <1>5
<1> HIDE DEF to, modes
<1> QED BY <1>1, <1>5, <1>6, <1>11, <1>12, <1>13, <1>14, <1>15, <1>16 DEF Onward, ok, modes


LEMMA AlterPostgresDoes ==
  ASSUME Typed, NEW p \in Proc, AlterPostgres(p)
  PROVE  /\ Typed' /\ Onward(p, {"alter"}, {"readConf", "failed"})
         /\ UNCHANGED <<container, live, faults>> /\ Randomised(p)
         /\ pc'[p] = IF p \in connected THEN "readConf" ELSE "failed"
         /\ run'[p] = IF pc'[p] \in Resting THEN NoLocals ELSE run[p]
         /\ pc'[p] \notin Resting => connected' = connected
<1>1. /\ pc[p] = "alter" /\ Query(p, "readConf") /\ Randomised(p)
      /\ UNCHANGED <<serverVars, callVars, faults>>
  BY DEF AlterPostgres
<1>2. /\ Stepped(p) /\ Copied(p) /\ connected' \in SUBSET Proc /\ (~Up => connected' = {})
      /\ pc'[p] = IF p \in connected THEN "readConf" ELSE "failed"
      /\ run'[p] = IF pc'[p] \in Resting THEN NoLocals ELSE run[p]
      /\ pc'[p] \notin Resting => connected' = connected
  BY <1>1, QueryDoes DEF Steps, Resting
<1>3. ServerTyped'
  BY <1>1, <1>2, RandomisedDoes, FilesTyped
<1>4. (KindOf(p) /\ PlaceOf(p) /\ ReadOf(p))'
  BY <1>1, <1>2, CommandHere
  DEF Stepped, callVars, KindOf, PlaceOf, ReadOf, Cfg, StartSteps, UserSteps, DbSteps, StopSteps,
      LineSteps, UsersFirst, PasswordSteps, SslSteps, Resting, NoLocals
<1> QED BY <1>1, <1>2, <1>3, <1>4, StepTyped DEF Onward, serverVars

\* What is read is of the volume.
LEMMA ReadsDoes ==
  ASSUME Typed, Up, NEW p \in Proc
  PROVE  /\ Reads(p) \in Locals
         /\ Reads(p).seen = volume.used /\ Reads(p).hba = volume.hba /\ Reads(p).ssl = volume.ssl
         /\ Reads(p).fresh = run[p].fresh
BY UpHasData, CommandHere DEF Reads, Locals, Volume

LEMMA ReadConfDoes ==
  ASSUME Typed, NEW p \in Proc, ReadConf(p), Accounted
  PROVE  /\ Typed' /\ Onward(p, {"readConf"}, {"syncHba", "writeConf", "failed"})
         /\ UNCHANGED <<volume, container, live, faults>>
         /\ pc'[p] = "failed" <=> ~Up
         /\ run'[p] = IF Up THEN Reads(p) ELSE NoLocals
         /\ pc'[p] \notin Resting => connected' = connected
<1>1. /\ pc[p] = "readConf" /\ UNCHANGED volume
      /\ Exec(p, IF volume.scram THEN "syncHba" ELSE "writeConf", Reads(p))
  BY DEF ReadConf
<1>2. /\ Stepped(p) /\ UNCHANGED <<serverVars, faults>>
      /\ connected' \in SUBSET Proc /\ (~Up => connected' = {})
      /\ pc'[p] \notin Resting => connected' = connected
      /\ Up => pc'[p] \in {"syncHba", "writeConf"} /\ run'[p] = Reads(p)
      /\ ~Up => pc'[p] = "failed" /\ run'[p] = NoLocals
  BY <1>1, ExecDoes, ReadsDoes DEF Steps, Resting
<1>3. ServerTyped'
  BY <1>1, <1>2, FilesTyped
<1>4. Up => Reads(p).seen # {}
  BY ReadsDoes, UpHasData DEF Accounted
<1>5. Copied(p)
  BY <1>2, ReadsDoes DEF Copied
<1>6. (KindOf(p) /\ PlaceOf(p) /\ ReadOf(p))'
  <2>1. KindOf(p)' /\ PlaceOf(p)'
    BY <1>1, <1>2, CommandHere
    DEF Stepped, callVars, KindOf, PlaceOf, Cfg, StartSteps, UserSteps, DbSteps, StopSteps,
        LineSteps, UsersFirst, PasswordSteps, SslSteps, Resting
  <2>2. ReadOf(p)'
    BY <1>1, <1>2, <1>4, ReadsDoes, CommandHere
    DEF ReadOf, StartSteps, NoLocals
  <2> QED BY <2>1, <2>2
<1> QED BY <1>1, <1>2, <1>3, <1>5, <1>6, StepTyped DEF Onward, serverVars

\* A step that writes files of the volume and goes on to the next one.
LEMMA WriteConfDoes ==
  ASSUME Typed, NEW p \in Proc, WriteConf(p)
  PROVE  /\ Typed' /\ Onward(p, {"writeConf"}, {"syncHba", "failed"})
         /\ UNCHANGED <<container, live, faults>> /\ WritesConf(run[p].ssl, TRUE)
         /\ pc'[p] = "failed" <=> ~Up
         /\ run'[p] = IF Up THEN [run[p] EXCEPT !.wrote = TRUE] ELSE NoLocals
         /\ pc'[p] \notin Resting => connected' = connected
<1>1. /\ pc[p] = "writeConf" /\ WritesConf(run[p].ssl, TRUE)
      /\ Exec(p, "syncHba", [run[p] EXCEPT !.wrote = TRUE])
  BY DEF WriteConf
<1>2. /\ [run[p] EXCEPT !.wrote = TRUE] \in Locals /\ run[p].ssl \in BOOLEAN
  BY CommandHere DEF Locals
<1>3. /\ Stepped(p) /\ UNCHANGED <<serverVars, faults>>
      /\ connected' \in SUBSET Proc /\ (~Up => connected' = {})
      /\ pc'[p] \notin Resting => connected' = connected
      /\ Up => pc'[p] = "syncHba" /\ run'[p] = [run[p] EXCEPT !.wrote = TRUE]
      /\ ~Up => pc'[p] = "failed" /\ run'[p] = NoLocals
  BY <1>1, <1>2, ExecDoes DEF Steps, Resting
<1>4. ServerTyped'
  BY <1>1, <1>2, <1>3, WritesConfDoes, FilesTyped
<1>5. Copied(p)
  BY <1>3, CommandHere DEF Copied, Locals
<1>6. (KindOf(p) /\ PlaceOf(p) /\ ReadOf(p))'
  <2>1. KindOf(p)' /\ PlaceOf(p)'
    BY <1>1, <1>3, CommandHere
    DEF Stepped, callVars, KindOf, PlaceOf, Cfg, StartSteps, UserSteps, DbSteps, StopSteps,
        LineSteps, UsersFirst, PasswordSteps, SslSteps, Resting
  <2>2. ReadOf(p)'
    BY <1>1, <1>3, CommandHere
    DEF ReadOf, StartSteps, NoLocals, Locals
  <2> QED BY <2>1, <2>2
<1> QED BY <1>1, <1>3, <1>4, <1>5, <1>6, StepTyped DEF Onward, serverVars

LEMMA SyncHbaDoes ==
  ASSUME Typed, NEW p \in Proc, SyncHba(p)
  PROVE  /\ Typed' /\ Onward(p, {"syncHba"}, {"writeHba", "reload", "readSsl", "done", "failed"})
         /\ UNCHANGED <<volume, container, live, faults>>
         /\ pc'[p] = "failed" <=> ~Up
         /\ Up => pc'[p] = IF pgHbaConfNeedsUpdate(volume.hba, Expected(p)) THEN "writeHba"
                           ELSE IF run[p].wrote THEN "reload" ELSE AfterAuthorization(Cfg(p))
         /\ run'[p] = IF pc'[p] \in Resting THEN NoLocals ELSE run[p]
         /\ pc'[p] \notin Resting => connected' = connected
<1> DEFINE to == IF pgHbaConfNeedsUpdate(volume.hba, Expected(p)) THEN "writeHba"
                 ELSE IF run[p].wrote THEN "reload" ELSE AfterAuthorization(Cfg(p))
<1>1. pc[p] = "syncHba" /\ UNCHANGED volume /\ Exec(p, to, run[p])
  BY DEF SyncHba
<1>2. to \in {"writeHba", "reload", "readSsl", "done"} /\ (to = "readSsl" => Cfg(p).ssl)
  BY DEF AfterAuthorization
<1> HIDE DEF to
<1>3. /\ Stepped(p) /\ UNCHANGED <<serverVars, faults>>
      /\ connected' \in SUBSET Proc /\ (~Up => connected' = {})
      /\ pc'[p] \notin Resting => connected' = connected
      /\ Up => pc'[p] = to /\ run'[p] = IF to \in Resting THEN NoLocals ELSE run[p]
      /\ ~Up => pc'[p] = "failed" /\ run'[p] = NoLocals
  BY <1>1, <1>2, ExecDoes, CommandHere DEF Steps, Resting
<1>4. ServerTyped'
  BY <1>1, <1>3, FilesTyped
<1>5. run'[p] = IF pc'[p] \in Resting THEN NoLocals ELSE run[p]
  BY <1>3 DEF Resting
<1>6. Copied(p)
  BY <1>5 DEF Copied
<1>7. (KindOf(p) /\ PlaceOf(p) /\ ReadOf(p))'
  <2>1. pc'[p] \in {"writeHba", "reload", "readSsl", "done", "failed"}
        /\ (pc'[p] = "readSsl" => Cfg(p).ssl)
    BY <1>2, <1>3
  <2>2. KindOf(p)' /\ PlaceOf(p)'
    BY <1>1, <1>3, <1>5, <2>1, CommandHere
    DEF Stepped, callVars, KindOf, PlaceOf, Cfg, StartSteps, UserSteps, DbSteps, StopSteps,
        LineSteps, UsersFirst, PasswordSteps, SslSteps, Resting
  <2>3. ReadOf(p)'
    BY <1>1, <1>5, <2>1, CommandHere
    DEF ReadOf, StartSteps, NoLocals, Resting
  <2> QED BY <2>2, <2>3
<1>8. Typed'
  BY <1>3, <1>4, <1>7, StepTyped
<1>9. pc'[p] \in {"writeHba", "reload", "readSsl", "done", "failed"} /\ (pc'[p] = "failed" <=> ~Up)
  BY <1>2, <1>3
<1> QED BY <1>1, <1>3, <1>5, <1>6, <1>8, <1>9 DEF Onward, serverVars, to

LEMMA WriteHbaDoes ==
  ASSUME Typed, NEW p \in Proc, WriteHba(p)
  PROVE  /\ Typed' /\ Onward(p, {"writeHba"}, {"reload", "failed"})
         /\ UNCHANGED <<container, live, faults>> /\ WritesHba(Expected(p))
         /\ pc'[p] = "failed" <=> ~Up
         /\ run'[p] = IF pc'[p] \in Resting THEN NoLocals ELSE run[p]
         /\ pc'[p] \notin Resting => connected' = connected
<1>1. pc[p] = "writeHba" /\ WritesHba(Expected(p)) /\ Exec(p, "reload", run[p])
  BY DEF WriteHba
<1>2. /\ Stepped(p) /\ UNCHANGED <<serverVars, faults>>
      /\ connected' \in SUBSET Proc /\ (~Up => connected' = {})
      /\ pc'[p] \notin Resting => connected' = connected
      /\ Up => pc'[p] = "reload" /\ run'[p] = run[p]
      /\ ~Up => pc'[p] = "failed" /\ run'[p] = NoLocals
  BY <1>1, ExecDoes, CommandHere DEF Steps, Resting
<1>3. ServerTyped'
  BY <1>1, <1>2, CommandHere, LineTypes, WritesHbaDoes, FilesTyped DEF Expected
<1>4. run'[p] = IF pc'[p] \in Resting THEN NoLocals ELSE run[p]
  BY <1>2 DEF Resting
<1>5. Copied(p)
  BY <1>4 DEF Copied
<1>6. (KindOf(p) /\ PlaceOf(p) /\ ReadOf(p))'
  BY <1>1, <1>2, CommandHere
  DEF Stepped, callVars, KindOf, PlaceOf, ReadOf, Cfg, StartSteps, UserSteps, DbSteps, StopSteps,
      LineSteps, UsersFirst, PasswordSteps, SslSteps, Resting, NoLocals
<1> QED BY <1>1, <1>2, <1>3, <1>4, <1>5, <1>6, StepTyped DEF Onward, serverVars


\* Where a reload leads.
AfterReload(p) ==
  CASE pc[p] = "reload" -> AfterAuthorization(Cfg(p))
    [] pc[p] = "reloadSsl" -> "done"
    [] pc[p] = "reloadTrust" -> "sync"
    [] OTHER -> AfterUsers(Cfg(p))

LEMMA AfterUsersIs ==
  ASSUME NEW c
  PROVE  /\ AfterUsers(c) \in {"randomise", "done"}
         /\ AfterUsers(c) = "randomise" => c.auth /\ ~InUsers(c, "postgres")
BY DEF AfterUsers

LEMMA AfterReloadIs ==
  ASSUME NEW p, pc[p] \in {"reload", "reloadSsl", "reloadTrust", "reloadUsers"}
  PROVE  \/ pc[p] = "reload" /\ AfterReload(p) = "readSsl" /\ Cfg(p).ssl
         \/ pc[p] = "reload" /\ AfterReload(p) = "done" /\ ~Cfg(p).ssl
         \/ pc[p] = "reloadSsl" /\ AfterReload(p) = "done"
         \/ pc[p] = "reloadTrust" /\ AfterReload(p) = "sync"
         \/ pc[p] = "reloadUsers" /\ AfterReload(p) = "done"
         \/ /\ pc[p] = "reloadUsers" /\ AfterReload(p) = "randomise"
            /\ Cfg(p).auth /\ ~InUsers(Cfg(p), "postgres")
<1>1. CASE pc[p] = "reload"
  <2>1. AfterReload(p) = AfterAuthorization(Cfg(p))
    BY <1>1 DEF AfterReload
  <2> QED BY <1>1, <2>1 DEF AfterAuthorization
<1>2. CASE pc[p] = "reloadSsl"
  BY <1>2 DEF AfterReload
<1>3. CASE pc[p] = "reloadTrust"
  BY <1>3 DEF AfterReload
<1>4. CASE pc[p] = "reloadUsers"
  <2>1. AfterReload(p) = AfterUsers(Cfg(p))
    BY <1>4 DEF AfterReload
  <2> QED BY <1>4, <2>1, AfterUsersIs
<1> QED BY <1>1, <1>2, <1>3, <1>4

LEMMA ReloadDoes ==
  ASSUME Typed, NEW p \in Proc, Reload(p)
  PROVE  /\ Typed'
         /\ Onward(p, {"reload", "reloadSsl", "reloadTrust", "reloadUsers"},
                   {"readSsl", "sync", "randomise", "done", "failed"})
         /\ UNCHANGED <<volume, container, faults>>
         /\ IF p \in connected THEN pgReloadConf ELSE UNCHANGED live
         /\ pc'[p] = IF p \in connected THEN AfterReload(p) ELSE "failed"
         /\ run'[p] = IF pc'[p] \in Resting THEN NoLocals ELSE run[p]
         /\ pc'[p] \notin Resting => connected' = connected
<1>1. /\ pc[p] \in {"reload", "reloadSsl", "reloadTrust", "reloadUsers"}
      /\ Query(p, AfterReload(p)) /\ UNCHANGED <<volume, container, callVars, faults>>
      /\ IF p \in connected THEN pgReloadConf ELSE UNCHANGED live
  BY DEF Reload, AfterReload
<1>2. AfterReload(p) \in {"readSsl", "sync", "randomise", "done"}
  BY <1>1, AfterReloadIs
<1>3. /\ Stepped(p) /\ Copied(p) /\ connected' \in SUBSET Proc /\ (~Up => connected' = {})
      /\ pc'[p] = IF p \in connected THEN AfterReload(p) ELSE "failed"
      /\ run'[p] = IF pc'[p] \in Resting THEN NoLocals ELSE run[p]
      /\ pc'[p] \notin Resting => connected' = connected
  BY <1>1, <1>2, QueryDoes DEF Steps, Resting
<1>4. p \in connected => volume \in Volume
  BY TypedServer, UpHasData DEF ServerTyped
<1>5. live' \in [hba : SUBSET Line, ssl : BOOLEAN]
  <2>1. CASE p \in connected
    <3>1. live' = [hba |-> volume.hba, ssl |-> volume.ssl /\ (container.certs \/ live.ssl)]
      BY <1>1, <2>1 DEF pgReloadConf
    <3> QED BY <2>1, <1>4, <3>1 DEF Volume
  <2>2. CASE p \notin connected
    BY <1>1, <2>2, TypedServer DEF ServerTyped
  <2> QED BY <2>1, <2>2
<1>6. ServerTyped'
  BY <1>1, <1>3, <1>5, TypedServer DEF ServerTyped, Up
<1>7. KindOf(p)' /\ PlaceOf(p)' /\ ReadOf(p)'
  <2>1. \/ pc[p] = "reload" /\ pc'[p] = "readSsl" /\ Cfg(p).ssl
        \/ pc'[p] \in {"done", "failed"}
        \/ pc[p] = "reloadTrust" /\ pc'[p] = "sync"
        \/ /\ pc[p] = "reloadUsers" /\ pc'[p] = "randomise"
           /\ Cfg(p).auth /\ ~InUsers(Cfg(p), "postgres")
    BY <1>1, <1>3, AfterReloadIs
  <2>2. cmd' = cmd /\ Cfg(p)' = Cfg(p)
    BY <1>3 DEF Stepped, callVars, Cfg
  <2>3. KindOf(p)'
    BY <1>1, <2>1, <2>2, CommandHere
    DEF KindOf, StartSteps, UserSteps, DbSteps, StopSteps
  <2>4. PlaceOf(p)'
    <3>1. pc'[p] = "sync" => run'[p].at \in Nat \ {0}
      BY <1>1, <1>3, <2>1, CommandHere DEF Resting, PlaceOf, UsersFirst
    <3> QED BY <1>1, <1>3, <2>1, <2>2, <3>1, CommandHere
            DEF PlaceOf, UsersFirst, LineSteps, PasswordSteps, SslSteps, UserSteps, Resting
  <2>5. ReadOf(p)'
    BY <1>1, <1>3, <2>1, CommandHere DEF ReadOf, NoLocals, StartSteps, Resting
  <2> QED BY <2>3, <2>4, <2>5
<1>8. Typed'
  BY <1>3, <1>6, <1>7, StepTyped
<1>9. pc'[p] \in {"readSsl", "sync", "randomise", "done", "failed"}
  BY <1>2, <1>3
<1> QED BY <1>1, <1>3, <1>8, <1>9 DEF Onward

LEMMA ReadSslDoes ==
  ASSUME Typed, NEW p \in Proc, ReadSsl(p), Accounted
  PROVE  /\ Typed' /\ Onward(p, {"readSsl"}, {"writeSslConf", "writeSslHba", "done", "failed"})
         /\ UNCHANGED <<volume, container, live, faults>>
         /\ pc'[p] = "failed" <=> ~Up
         /\ Up => pc'[p] = IF ~volume.ssl THEN "writeSslConf"
                           ELSE IF hbaWithSSL(volume.hba) # volume.hba THEN "writeSslHba"
                           ELSE "done"
         /\ run'[p] = IF pc'[p] \in Resting THEN NoLocals
                      ELSE [Reads(p) EXCEPT !.wrote = FALSE]
         /\ pc'[p] \notin Resting => connected' = connected
<1> DEFINE to == IF ~volume.ssl THEN "writeSslConf"
                 ELSE IF hbaWithSSL(volume.hba) # volume.hba THEN "writeSslHba" ELSE "done"
           new == [Reads(p) EXCEPT !.wrote = FALSE]
<1>1. pc[p] = "readSsl" /\ UNCHANGED volume /\ Exec(p, to, new)
  BY DEF ReadSsl
<1>2. to \in {"writeSslConf", "writeSslHba", "done"}
  OBVIOUS
<1>3. Up => /\ new \in Locals /\ new.seen = volume.used /\ new.hba = volume.hba
            /\ new.ssl = volume.ssl /\ new.fresh = run[p].fresh /\ new.seen # {}
  BY ReadsDoes, UpHasData DEF Locals, Accounted
<1> HIDE DEF to, new
<1>4. /\ Stepped(p) /\ UNCHANGED <<serverVars, faults>>
      /\ connected' \in SUBSET Proc /\ (~Up => connected' = {})
      /\ pc'[p] \notin Resting => connected' = connected
      /\ Up => pc'[p] = to /\ run'[p] = IF to \in Resting THEN NoLocals ELSE new
      /\ ~Up => pc'[p] = "failed" /\ run'[p] = NoLocals
  BY <1>1, <1>2, <1>3, ExecDoes DEF Steps, Resting
<1>5. ServerTyped'
  BY <1>1, <1>4, FilesTyped
<1>6. Copied(p)
  BY <1>3, <1>4 DEF Copied
<1>7. (KindOf(p) /\ PlaceOf(p) /\ ReadOf(p))'
  <2>1. pc'[p] \in {"writeSslConf", "writeSslHba", "done", "failed"}
        /\ cmd' = cmd /\ Cfg(p)' = Cfg(p)
    BY <1>2, <1>4 DEF Stepped, callVars, Cfg
  <2>2. KindOf(p)' /\ PlaceOf(p)'
    BY <1>1, <1>4, <2>1, CommandHere
    DEF KindOf, PlaceOf, StartSteps, UserSteps, DbSteps, StopSteps,
        LineSteps, UsersFirst, PasswordSteps, SslSteps, Resting
  <2>3. ReadOf(p)'
    BY <1>1, <1>3, <1>4, <2>1, CommandHere
    DEF ReadOf, StartSteps, NoLocals, Resting
  <2> QED BY <2>2, <2>3
<1>8. Typed'
  BY <1>4, <1>5, <1>7, StepTyped
<1>9. /\ pc'[p] \in {"writeSslConf", "writeSslHba", "done", "failed"}
      /\ pc'[p] = "failed" <=> ~Up
      /\ run'[p] = IF pc'[p] \in Resting THEN NoLocals ELSE new
  BY <1>2, <1>4 DEF Resting
<1> QED BY <1>1, <1>4, <1>6, <1>8, <1>9 DEF Onward, serverVars, to, new

LEMMA WriteSslConfDoes ==
  ASSUME Typed, NEW p \in Proc, WriteSslConf(p)
  PROVE  /\ Typed' /\ Onward(p, {"writeSslConf"}, {"writeSslHba", "restart", "done", "failed"})
         /\ UNCHANGED <<container, live, faults>> /\ WritesConf(TRUE, run[p].scram)
         /\ run[p].scram \in BOOLEAN
         /\ pc'[p] = "failed" <=> ~Up
         /\ Up => pc'[p] = IF hbaWithSSL(run[p].hba) # run[p].hba THEN "writeSslHba"
                           ELSE AfterSsl(p, TRUE)
         /\ run'[p] = IF pc'[p] \in Resting THEN NoLocals ELSE [run[p] EXCEPT !.wrote = TRUE]
         /\ pc'[p] \notin Resting => connected' = connected
<1> DEFINE to == IF hbaWithSSL(run[p].hba) # run[p].hba THEN "writeSslHba" ELSE AfterSsl(p, TRUE)
           new == [run[p] EXCEPT !.wrote = TRUE]
<1>1. pc[p] = "writeSslConf" /\ WritesConf(TRUE, run[p].scram) /\ Exec(p, to, new)
  BY DEF WriteSslConf
<1>2. to \in {"writeSslHba", "restart", "done"}
  BY DEF AfterSsl
<1>3. /\ new \in Locals /\ new.seen = run[p].seen /\ new.hba = run[p].hba
      /\ new.ssl = run[p].ssl /\ new.fresh = run[p].fresh /\ run[p].scram \in BOOLEAN
  BY CommandHere DEF Locals
<1> HIDE DEF to, new
<1>4. /\ Stepped(p) /\ UNCHANGED <<serverVars, faults>>
      /\ connected' \in SUBSET Proc /\ (~Up => connected' = {})
      /\ pc'[p] \notin Resting => connected' = connected
      /\ Up => pc'[p] = to /\ run'[p] = IF to \in Resting THEN NoLocals ELSE new
      /\ ~Up => pc'[p] = "failed" /\ run'[p] = NoLocals
  BY <1>1, <1>2, <1>3, ExecDoes DEF Steps, Resting
<1>5. ServerTyped'
  BY <1>1, <1>3, <1>4, WritesConfDoes, FilesTyped
<1>6. Copied(p)
  BY <1>3, <1>4 DEF Copied
<1>7. (KindOf(p) /\ PlaceOf(p) /\ ReadOf(p))'
  <2>1. pc'[p] \in {"writeSslHba", "restart", "done", "failed"}
        /\ cmd' = cmd /\ Cfg(p)' = Cfg(p)
    BY <1>2, <1>4 DEF Stepped, callVars, Cfg
  <2>2. KindOf(p)' /\ PlaceOf(p)'
    BY <1>1, <1>4, <2>1, CommandHere
    DEF KindOf, PlaceOf, StartSteps, UserSteps, DbSteps, StopSteps,
        LineSteps, UsersFirst, PasswordSteps, SslSteps, Resting
  <2>3. ReadOf(p)'
    BY <1>1, <1>3, <1>4, <2>1, CommandHere
    DEF ReadOf, StartSteps, NoLocals, Resting
  <2> QED BY <2>2, <2>3
<1>8. Typed'
  BY <1>4, <1>5, <1>7, StepTyped
<1>9. /\ pc'[p] \in {"writeSslHba", "restart", "done", "failed"}
      /\ pc'[p] = "failed" <=> ~Up
      /\ run'[p] = IF pc'[p] \in Resting THEN NoLocals ELSE new
  BY <1>2, <1>4 DEF Resting
<1> QED BY <1>1, <1>3, <1>4, <1>6, <1>8, <1>9 DEF Onward, serverVars, to, new

LEMMA WriteSslHbaDoes ==
  ASSUME Typed, NEW p \in Proc, WriteSslHba(p)
  PROVE  /\ Typed' /\ Onward(p, {"writeSslHba"}, {"reloadSsl", "restart", "done", "failed"})
         /\ UNCHANGED <<container, live, faults>> /\ WritesHba(hbaWithSSL(run[p].hba))
         /\ pc'[p] = "failed" <=> ~Up
         /\ Up => pc'[p] = IF run[p].wrote THEN AfterSsl(p, TRUE) ELSE "reloadSsl"
         /\ run'[p] = IF pc'[p] \in Resting THEN NoLocals ELSE run[p]
         /\ pc'[p] \notin Resting => connected' = connected
<1> DEFINE to == IF run[p].wrote THEN AfterSsl(p, TRUE) ELSE "reloadSsl"
<1>1. pc[p] = "writeSslHba" /\ WritesHba(hbaWithSSL(run[p].hba)) /\ Exec(p, to, run[p])
  BY DEF WriteSslHba
<1>2. to \in {"reloadSsl", "restart", "done"}
  BY DEF AfterSsl
<1> HIDE DEF to
<1>3. /\ Stepped(p) /\ UNCHANGED <<serverVars, faults>>
      /\ connected' \in SUBSET Proc /\ (~Up => connected' = {})
      /\ pc'[p] \notin Resting => connected' = connected
      /\ Up => pc'[p] = to /\ run'[p] = IF to \in Resting THEN NoLocals ELSE run[p]
      /\ ~Up => pc'[p] = "failed" /\ run'[p] = NoLocals
  BY <1>1, <1>2, ExecDoes, CommandHere DEF Steps, Resting
<1>4. run[p].hba \in SUBSET Line
  BY CommandHere DEF Locals
<1>5. ServerTyped'
  BY <1>1, <1>3, <1>4, CommandHere, LineTypes, WritesHbaDoes, FilesTyped
<1>6. run'[p] = IF pc'[p] \in Resting THEN NoLocals ELSE run[p]
  BY <1>3 DEF Resting
<1>7. Copied(p)
  BY <1>6 DEF Copied
<1>8. (KindOf(p) /\ PlaceOf(p) /\ ReadOf(p))'
  <2>1. pc'[p] \in {"reloadSsl", "restart", "done", "failed"}
        /\ cmd' = cmd /\ Cfg(p)' = Cfg(p)
    BY <1>2, <1>3 DEF Stepped, callVars, Cfg
  <2> QED
    BY <1>1, <1>6, <2>1, CommandHere
    DEF KindOf, PlaceOf, ReadOf, StartSteps, UserSteps, DbSteps, StopSteps,
        LineSteps, UsersFirst, PasswordSteps, SslSteps, Resting, NoLocals
<1>9. Typed'
  BY <1>3, <1>5, <1>8, StepTyped
<1>10. /\ pc'[p] \in {"reloadSsl", "restart", "done", "failed"}
       /\ pc'[p] = "failed" <=> ~Up
  BY <1>2, <1>3
<1> QED BY <1>1, <1>3, <1>6, <1>7, <1>9, <1>10 DEF Onward, serverVars, to


LEMMA RestartDoes ==
  ASSUME Typed, NEW p \in Proc, Restart(p)
  PROVE  /\ Typed' /\ Onward(p, {"restart"}, {"readySsl", "failed"})
         /\ UNCHANGED faults /\ connected' = {}
         /\ pc'[p] = IF container.state = "none" THEN "failed" ELSE "readySsl"
         /\ run'[p] = IF pc'[p] \in Resting THEN NoLocals ELSE run[p]
         /\ container.state = "none" => UNCHANGED <<volume, container, live>>
         /\ container.state # "none" => Boot(volume, container.certs) /\ volume \in Volume
                                        /\ container.certs \in BOOLEAN
<1> DEFINE to == IF container.state = "none" THEN "failed" ELSE "readySsl"
<1>1. /\ pc[p] = "restart" /\ connected' = {} /\ GoTo(p, to) /\ UNCHANGED <<callVars, faults>>
      /\ container.state = "none" => UNCHANGED <<volume, container, live>>
      /\ container.state # "none" => Boot(volume, container.certs)
  BY DEF Restart, serverVars
<1>2. to \in {"readySsl", "failed"}
  OBVIOUS
<1> HIDE DEF to
<1>3. /\ Stepped(p) /\ pc'[p] = to /\ Copied(p)
      /\ run'[p] = IF to \in Resting THEN NoLocals ELSE run[p]
  BY <1>1, <1>2, GoToDoes DEF Steps, Resting
<1>4. container.state # "none" => volume \in Volume /\ container.certs \in BOOLEAN
  BY TypedServer, DataIsVolume DEF ServerTyped
<1>5. ServerTyped'
  <2>1. CASE container.state = "none"
    BY <1>1, <2>1, TypedServer DEF ServerTyped, Up
  <2>2. CASE container.state # "none"
    <3>1. /\ volume' = volume /\ container' \in [state : {"none", "stopped", "running"}, certs : BOOLEAN]
          /\ live' \in [hba : SUBSET Line, ssl : BOOLEAN]
      BY <1>1, <1>4, <2>2, BootDoes
    <3> QED BY <1>1, <1>4, <2>2, <3>1, TypedServer, VolumeKinds DEF ServerTyped
  <2> QED BY <2>1, <2>2
<1>6. (KindOf(p) /\ PlaceOf(p) /\ ReadOf(p))'
  <2>1. cmd' = cmd /\ Cfg(p)' = Cfg(p)
    BY <1>3 DEF Stepped, callVars, Cfg
  <2> QED BY <1>1, <1>2, <1>3, <2>1, CommandHere
  DEF KindOf, PlaceOf, ReadOf, StartSteps, UserSteps, DbSteps, StopSteps,
      LineSteps, UsersFirst, PasswordSteps, SslSteps, Resting, NoLocals
<1>7. Typed'
  BY <1>3, <1>5, <1>6, StepTyped
<1> QED BY <1>1, <1>2, <1>3, <1>4, <1>7 DEF Onward, to

LEMMA WaitForReadySslDoes ==
  ASSUME Typed, NEW p \in Proc, WaitForReadySsl(p)
  PROVE  /\ Typed' /\ Onward(p, {"readySsl"}, {"done", "failed"})
         /\ UNCHANGED <<volume, container, live, connected, faults>>
         /\ pc'[p] = IF Accepts(volume, getAuthUserFromConfig(Cfg(p)), FirstDb(Cfg(p)), TRUE)
                     THEN "done" ELSE "failed"
         /\ run'[p] = NoLocals
<1> DEFINE to == IF Accepts(volume, getAuthUserFromConfig(Cfg(p)), FirstDb(Cfg(p)), TRUE)
                 THEN "done" ELSE "failed"
<1>1. /\ pc[p] = "readySsl" /\ GoTo(p, to)
      /\ UNCHANGED <<volume, container, live, connected, callVars, faults>>
  BY DEF WaitForReadySsl, serverVars
<1>2. to \in {"done", "failed"}
  OBVIOUS
<1> HIDE DEF to
<1>3. /\ Stepped(p) /\ pc'[p] = to /\ Copied(p) /\ run'[p] = NoLocals
  BY <1>1, <1>2, GoToDoes DEF Resting
<1>4. ServerTyped'
  BY <1>1, TypedServer DEF ServerTyped, Up
<1>5. (KindOf(p) /\ PlaceOf(p) /\ ReadOf(p))'
  BY <1>1, <1>2, <1>3
  DEF KindOf, PlaceOf, ReadOf, StartSteps, UserSteps, DbSteps, StopSteps,
      LineSteps, UsersFirst, PasswordSteps, SslSteps, Resting, NoLocals
<1>6. Typed'
  BY <1>3, <1>4, <1>5, StepTyped
<1> QED BY <1>1, <1>2, <1>3, <1>6 DEF Onward, to

-----------------------------------------------------------------------------
(***************************************************************************)
(* What each step does: users.                                             *)
(***************************************************************************)

\* A command that fails or ends without having looked.
LEMMA GetsClient ==
  ASSUME Typed, NEW p \in Proc, NEW next \in Steps, NEW locals \in Locals,
         \/ /\ Accepts(volume, getAuthUserFromConfig(Cfg(p)), "postgres", Cfg(p).ssl)
            /\ Goes(p, next, locals) /\ connected' = connected \union {p}
         \/ GoTo(p, "failed") /\ UNCHANGED connected,
         next \notin Resting, UNCHANGED callVars
  PROVE  /\ Stepped(p) /\ pc'[p] \in {next, "failed"}
         /\ connected' \in SUBSET Proc /\ (~Up => connected' = {})
         /\ pc'[p] = next => run'[p] = locals /\ Up /\ connected' = connected \union {p}
         /\ pc'[p] = "failed" => run'[p] = NoLocals
<1>1. connected \in SUBSET Proc /\ (~Up => connected = {})
  BY TypedServer DEF ServerTyped
<1>2. CASE /\ Accepts(volume, getAuthUserFromConfig(Cfg(p)), "postgres", Cfg(p).ssl)
           /\ Goes(p, next, locals) /\ connected' = connected \union {p}
  <2>1. Up
    BY <1>2, AcceptsUp
  <2>2. Stepped(p) /\ pc'[p] = next /\ run'[p] = locals
    BY <1>2, GoesDoes
  <2> QED BY <1>1, <1>2, <2>1, <2>2 DEF Resting
<1>3. CASE GoTo(p, "failed") /\ UNCHANGED connected
  <2>1. Stepped(p) /\ pc'[p] = "failed" /\ run'[p] = NoLocals
    BY <1>3, GoToDoes DEF Resting
  <2> QED BY <1>1, <1>3, <2>1 DEF Resting
<1> QED BY <1>2, <1>3

LEMMA ConnectForUsersDoes ==
  ASSUME Typed, NEW p \in Proc, ConnectForUsers(p)
  PROVE  /\ Typed' /\ Onward(p, {"connect"}, {"snapshot", "done", "failed"})
         /\ UNCHANGED <<volume, container, live, faults>>
         /\ pc'[p] = "done" => Cfg(p).users = << >>
         /\ run'[p] = IF pc'[p] \in Resting THEN NoLocals ELSE run[p]
         /\ pc'[p] = "snapshot" => Up /\ connected' = connected \union {p}
<1>1. pc[p] = "connect" /\ UNCHANGED <<volume, container, live, callVars, faults>>
  BY DEF ConnectForUsers, serverVars
<1>2. /\ Stepped(p) /\ pc'[p] \in {"snapshot", "done", "failed"}
      /\ connected' \in SUBSET Proc /\ (~Up => connected' = {})
      /\ pc'[p] = "done" => Cfg(p).users = << >> /\ run'[p] = NoLocals
      /\ pc'[p] = "snapshot" => /\ Cfg(p).users # << >> /\ run'[p] = run[p]
                                /\ Up /\ connected' = connected \union {p}
      /\ pc'[p] = "failed" => run'[p] = NoLocals
  <2>1. CASE Cfg(p).users = << >>
    <3>1. GoTo(p, "done") /\ UNCHANGED connected
      BY <2>1 DEF ConnectForUsers
    <3>2. Stepped(p) /\ pc'[p] = "done" /\ run'[p] = NoLocals
      BY <1>1, <3>1, GoToDoes DEF Resting
    <3> QED BY <2>1, <3>1, <3>2, TypedServer DEF ServerTyped
  <2>2. CASE Cfg(p).users # << >>
    <3>1. getPostgresClient(p, "snapshot")
      BY <2>2 DEF ConnectForUsers
    <3>2. \/ /\ Accepts(volume, getAuthUserFromConfig(Cfg(p)), "postgres", Cfg(p).ssl)
             /\ Goes(p, "snapshot", run[p]) /\ connected' = connected \union {p}
          \/ GoTo(p, "failed") /\ UNCHANGED connected
      BY <3>1 DEF getPostgresClient, GoTo
    <3>3. "snapshot" \in Steps /\ "snapshot" \notin Resting
      BY DEF Steps, Resting
    <3>4. /\ Stepped(p) /\ pc'[p] \in {"snapshot", "failed"}
          /\ connected' \in SUBSET Proc /\ (~Up => connected' = {})
          /\ pc'[p] = "snapshot" => run'[p] = run[p] /\ Up /\ connected' = connected \union {p}
          /\ pc'[p] = "failed" => run'[p] = NoLocals
      BY <1>1, <3>2, <3>3, GetsClient, CommandHere
    <3> QED BY <2>2, <3>4
  <2> QED BY <2>1, <2>2
<1>3. ServerTyped'
  BY <1>1, <1>2, TypedServer DEF ServerTyped, Up
<1>4. run'[p] = IF pc'[p] \in Resting THEN NoLocals ELSE run[p]
  BY <1>2 DEF Resting
<1>5. Copied(p)
  BY <1>4 DEF Copied
<1>6. (KindOf(p) /\ PlaceOf(p) /\ ReadOf(p))'
  <2>1. cmd' = cmd /\ Cfg(p)' = Cfg(p)
    BY <1>2 DEF Stepped, callVars, Cfg
  <2> QED BY <1>1, <1>2, <1>4, <2>1, CommandHere
  DEF KindOf, PlaceOf, ReadOf, StartSteps, UserSteps, DbSteps, StopSteps,
      LineSteps, UsersFirst, PasswordSteps, SslSteps, Resting, NoLocals
<1>7. Typed'
  BY <1>2, <1>3, <1>6, StepTyped
<1> QED BY <1>1, <1>2, <1>4, <1>5, <1>7 DEF Onward

LEMMA ReadSnapshotDoes ==
  ASSUME Typed, NEW p \in Proc, ReadSnapshot(p), Accounted
  PROVE  /\ Typed' /\ Onward(p, {"snapshot"}, {"trustHba", "sync"})
         /\ UNCHANGED <<volume, container, live, connected, faults>>
         /\ run'[p] = IF Up THEN Reads(p) ELSE NoLocals
         /\ pc'[p] = IF ToTrust(p, run'[p].hba) THEN "trustHba" ELSE "sync"
<1> DEFINE seen == IF Up THEN Reads(p) ELSE NoLocals
           to == IF ToTrust(p, seen.hba) THEN "trustHba" ELSE "sync"
<1>1. /\ pc[p] = "snapshot" /\ Goes(p, to, seen)
      /\ UNCHANGED <<volume, container, live, connected, callVars, faults>>
  BY DEF ReadSnapshot, serverVars
<1>2. to \in {"trustHba", "sync"}
  OBVIOUS
<1>3. seen \in Locals /\ seen.at \in Nat \ {0} /\ seen.fresh = FALSE /\ (Up => seen.seen # {})
  <2>1. CASE Up
    <3>1. /\ Reads(p) \in Locals /\ Reads(p).seen = volume.used /\ Reads(p).fresh = run[p].fresh
      BY <2>1, ReadsDoes
    <3>2. Reads(p).at = run[p].at
      BY CommandHere DEF Reads, Locals
    <3>3. run[p].at \in Nat \ {0} /\ ~run[p].fresh
      BY <1>1, CommandHere DEF PlaceOf, ReadOf, UsersFirst, StartSteps
    <3>4. volume.used # {}
      BY <2>1, UpHasData DEF Accounted
    <3>5. run[p].fresh \in BOOLEAN
      BY CommandHere DEF Locals
    <3> QED BY <2>1, <3>1, <3>2, <3>3, <3>4, <3>5
  <2>2. CASE ~Up
    BY <2>2, NoLocalsTyped DEF NoLocals
  <2> QED BY <2>1, <2>2
<1>4. Up => seen.hba = volume.hba /\ seen.ssl = volume.ssl /\ seen.seen = volume.used
  BY ReadsDoes
<1>5. ~Up => seen = NoLocals
  OBVIOUS
<1>6. seen = IF Up THEN Reads(p) ELSE NoLocals
  OBVIOUS
<1>7. to = IF ToTrust(p, seen.hba) THEN "trustHba" ELSE "sync"
  OBVIOUS
<1> HIDE DEF seen, to
<1>8. Stepped(p) /\ pc'[p] = to /\ run'[p] = seen
  BY <1>1, <1>2, <1>3, GoesDoes DEF Steps, Resting
<1>9. ServerTyped'
  BY <1>1, TypedServer DEF ServerTyped, Up
<1>10. Copied(p)
  BY <1>4, <1>5, <1>8 DEF Copied
<1>11. (KindOf(p) /\ PlaceOf(p) /\ ReadOf(p))'
  <2>1. cmd' = cmd /\ Cfg(p)' = Cfg(p)
    BY <1>8 DEF Stepped, callVars, Cfg
  <2>2. KindOf(p)' /\ PlaceOf(p)'
    BY <1>1, <1>2, <1>3, <1>8, <2>1, CommandHere
    DEF KindOf, PlaceOf, StartSteps, UserSteps, DbSteps, StopSteps,
      LineSteps, UsersFirst, PasswordSteps, SslSteps, Resting
  <2>3. ReadOf(p)'
    BY <1>2, <1>3, <1>5, <1>8 DEF ReadOf, NoLocals
  <2> QED BY <2>2, <2>3
<1>12. Typed'
  BY <1>8, <1>9, <1>11, StepTyped
<1> QED BY <1>1, <1>2, <1>6, <1>7, <1>8, <1>10, <1>12 DEF Onward, to

LEMMA WriteUsersHbaDoes ==
  ASSUME Typed, NEW p \in Proc, WriteUsersHba(p)
  PROVE  /\ Typed'
         /\ Onward(p, {"trustHba", "scramHba", "updateHba"},
                   {"reloadTrust", "scramConf", "reloadUsers", "failed"})
         /\ UNCHANGED <<container, live, faults>> /\ WritesHba(Expected(p))
         /\ pc'[p] = "failed" <=> ~Up
         /\ Up => pc'[p] = CASE pc[p] = "trustHba" -> "reloadTrust"
                             [] pc[p] = "scramHba" -> "scramConf"
                             [] OTHER -> "reloadUsers"
         /\ run'[p] = IF pc'[p] \in Resting THEN NoLocals ELSE run[p]
         /\ pc'[p] \notin Resting => connected' = connected
<1> DEFINE to == CASE pc[p] = "trustHba" -> "reloadTrust"
                   [] pc[p] = "scramHba" -> "scramConf"
                   [] OTHER -> "reloadUsers"
<1>1. /\ pc[p] \in {"trustHba", "scramHba", "updateHba"} /\ WritesHba(Expected(p))
      /\ Exec(p, to, run[p])
  BY DEF WriteUsersHba
<1>2. \/ pc[p] = "trustHba" /\ to = "reloadTrust"
      \/ pc[p] = "scramHba" /\ to = "scramConf"
      \/ pc[p] = "updateHba" /\ to = "reloadUsers"
  BY <1>1
<1>3. to = CASE pc[p] = "trustHba" -> "reloadTrust"
             [] pc[p] = "scramHba" -> "scramConf"
             [] OTHER -> "reloadUsers"
  OBVIOUS
<1> HIDE DEF to
<1>4. /\ Stepped(p) /\ UNCHANGED <<serverVars, faults>>
      /\ connected' \in SUBSET Proc /\ (~Up => connected' = {})
      /\ pc'[p] \notin Resting => connected' = connected
      /\ Up => pc'[p] = to /\ run'[p] = run[p]
      /\ ~Up => pc'[p] = "failed" /\ run'[p] = NoLocals
  BY <1>1, <1>2, ExecDoes, CommandHere DEF Steps, Resting
<1>5. ServerTyped'
  BY <1>1, <1>4, CommandHere, LineTypes, WritesHbaDoes, FilesTyped DEF Expected
<1>6. run'[p] = IF pc'[p] \in Resting THEN NoLocals ELSE run[p]
  BY <1>2, <1>4 DEF Resting
<1>7. Copied(p)
  BY <1>6 DEF Copied
<1>8. (KindOf(p) /\ PlaceOf(p) /\ ReadOf(p))'
  <2>1. cmd' = cmd /\ Cfg(p)' = Cfg(p)
    BY <1>4 DEF Stepped, callVars, Cfg
  <2>2. \/ pc[p] = "trustHba" /\ pc'[p] = "reloadTrust"
        \/ pc[p] = "scramHba" /\ pc'[p] = "scramConf"
        \/ pc[p] = "updateHba" /\ pc'[p] = "reloadUsers"
        \/ pc'[p] = "failed"
    BY <1>2, <1>4
  <2> QED BY <1>6, <2>1, <2>2, CommandHere
  DEF KindOf, PlaceOf, ReadOf, StartSteps, UserSteps, DbSteps, StopSteps,
      LineSteps, UsersFirst, PasswordSteps, SslSteps, Resting, NoLocals
<1>9. Typed'
  BY <1>4, <1>5, <1>8, StepTyped
<1>10. /\ pc'[p] \in {"reloadTrust", "scramConf", "reloadUsers", "failed"}
       /\ pc'[p] = "failed" <=> ~Up
       /\ Up => pc'[p] = to
  BY <1>2, <1>4
<1>11. UNCHANGED <<container, live, faults>>
  BY <1>4 DEF serverVars
<1> QED BY <1>1, <1>3, <1>4, <1>6, <1>7, <1>9, <1>10, <1>11 DEF Onward

LEMMA WriteUsersConfDoes ==
  ASSUME Typed, NEW p \in Proc, WriteUsersConf(p)
  PROVE  /\ Typed' /\ Onward(p, {"scramConf"}, {"reloadUsers", "failed"})
         /\ UNCHANGED <<container, live, faults>> /\ WritesConf(run[p].ssl, TRUE)
         /\ pc'[p] = "failed" <=> ~Up
         /\ run'[p] = IF pc'[p] \in Resting THEN NoLocals ELSE run[p]
         /\ pc'[p] \notin Resting => connected' = connected
<1>1. pc[p] = "scramConf" /\ WritesConf(run[p].ssl, TRUE) /\ Exec(p, "reloadUsers", run[p])
  BY DEF WriteUsersConf
<1>2. run[p].ssl \in BOOLEAN
  BY CommandHere DEF Locals
<1>3. /\ Stepped(p) /\ UNCHANGED <<serverVars, faults>>
      /\ connected' \in SUBSET Proc /\ (~Up => connected' = {})
      /\ pc'[p] \notin Resting => connected' = connected
      /\ Up => pc'[p] = "reloadUsers" /\ run'[p] = run[p]
      /\ ~Up => pc'[p] = "failed" /\ run'[p] = NoLocals
  BY <1>1, ExecDoes, CommandHere DEF Steps, Resting
<1>4. ServerTyped'
  BY <1>1, <1>2, <1>3, WritesConfDoes, FilesTyped
<1>5. run'[p] = IF pc'[p] \in Resting THEN NoLocals ELSE run[p]
  BY <1>3 DEF Resting
<1>6. Copied(p)
  BY <1>5 DEF Copied
<1>7. (KindOf(p) /\ PlaceOf(p) /\ ReadOf(p))'
  BY <1>1, <1>3, CommandHere
  DEF Stepped, callVars, KindOf, PlaceOf, ReadOf, Cfg, StartSteps, UserSteps, DbSteps, StopSteps,
      LineSteps, UsersFirst, PasswordSteps, SslSteps, Resting, NoLocals
<1> QED BY <1>1, <1>3, <1>4, <1>5, <1>6, <1>7, StepTyped DEF Onward, serverVars

\* What is granted and taken back is nothing but privileges.
LEMMA GrantsDo ==
  ASSUME Typed, NEW p \in Proc, NEW v \in Volume, NEW names \in SUBSET Role, NEW dbs
  PROVE  /\ \A w \in {grantDatabasePermissions(p, v, names, dbs),
                      revokeDatabasePermissions(p, v, names, dbs)} :
              /\ w \in Volume /\ w.hba = v.hba /\ w.ssl = v.ssl /\ w.pw = v.pw
              /\ w.dbs = v.dbs /\ w.used = v.used /\ w.scram = v.scram
<1> DEFINE here == dbs \cap Reachable(p, v)
           more == v.granted \union GrantedPrivileges(names, here)
           less == v.granted \ RevokedPrivileges(names, here)
<1>1. more \in SUBSET Privilege /\ less \in SUBSET Privilege
  <2>1. here \in SUBSET Db
    BY DEF Reachable, Volume
  <2> HIDE DEF here
  <2>2. v.granted \in SUBSET Privilege
    BY DEF Volume
  <2>3. GrantedPrivileges(names, here) \in SUBSET Privilege
    BY <2>1 DEF GrantedPrivileges, Privilege
  <2> QED BY <2>2, <2>3
<1>2. /\ grantDatabasePermissions(p, v, names, dbs) = [v EXCEPT !.granted = more]
      /\ revokeDatabasePermissions(p, v, names, dbs) = [v EXCEPT !.granted = less]
  BY DEF grantDatabasePermissions, revokeDatabasePermissions, Volume
<1> HIDE DEF here, more, less
<1> QED BY <1>1, <1>2 DEF Volume

LEMMA PrivilegesDo ==
  ASSUME Typed, NEW p \in Proc, NEW v \in Volume, NEW u \in User
  PROVE  LET w == syncDatabasePermissions(p, v, u) IN
         /\ w \in Volume /\ w.hba = v.hba /\ w.ssl = v.ssl /\ w.pw = v.pw
         /\ w.dbs = v.dbs /\ w.used = v.used
<1> DEFINE wanted == getDatabasesToManage(Cfg(p), u)
           r == revokeDatabasePermissions(p, v, {u.name}, ToSet(Cfg(p).dbs) \ wanted)
           w == syncDatabasePermissions(p, v, u)
<1>1. w = IF wanted = {} THEN v ELSE grantDatabasePermissions(p, r, {u.name}, wanted)
  BY DEF syncDatabasePermissions
<1>2. {u.name} \in SUBSET Role
  BY DEF User
<1>3. r \in Volume /\ r.hba = v.hba /\ r.ssl = v.ssl /\ r.pw = v.pw /\ r.dbs = v.dbs /\ r.used = v.used
  BY <1>2, GrantsDo
<1> HIDE DEF r, wanted, w
<1>4. LET g == grantDatabasePermissions(p, r, {u.name}, wanted) IN
      /\ g \in Volume /\ g.hba = r.hba /\ g.ssl = r.ssl /\ g.pw = r.pw
      /\ g.dbs = r.dbs /\ g.used = r.used
  BY <1>2, <1>3, GrantsDo
<1> QED BY <1>1, <1>3, <1>4 DEF w

\* The user a setup-users has come to.
Here(p) == Cfg(p).users[run[p].at]
WithPassword(v, u) == [v EXCEPT !.pw[u.name] = PasswordAfterSync(u, v.pw[u.name])]

LEMMA WithPasswordDoes ==
  ASSUME NEW v \in Volume, NEW u \in User
  PROVE  LET w == WithPassword(v, u) IN
         /\ w \in Volume /\ w.hba = v.hba /\ w.ssl = v.ssl
         /\ w.dbs = v.dbs /\ w.used = v.used
         /\ w.pw = [v.pw EXCEPT ![u.name] = PasswordAfterSync(u, v.pw[u.name])]
<1>1. u.name \in Role /\ u.pw \in Password \union {""}
  BY DEF User
<1>2. v.pw \in [Role -> Stored]
  BY DEF Volume
<1>3. PasswordAfterSync(u, v.pw[u.name]) \in Stored
  BY <1>1, <1>2 DEF PasswordAfterSync, Stored
<1>4. \A pw \in Stored : LET w == [v EXCEPT !.pw[u.name] = pw] IN
        /\ w \in Volume /\ w.hba = v.hba /\ w.ssl = v.ssl
        /\ w.dbs = v.dbs /\ w.used = v.used /\ w.pw = [v.pw EXCEPT ![u.name] = pw]
  BY <1>1, <1>2 DEF Volume
<1> QED BY <1>3, <1>4 DEF WithPassword

LEMMA SyncUserDoes ==
  ASSUME Typed, NEW p \in Proc, SyncUser(p)
  PROVE  /\ Typed' /\ Onward(p, {"sync"}, {"sync", "failed"})
         /\ UNCHANGED <<container, live, faults>>
         /\ run[p].at \in DOMAIN Cfg(p).users
         /\ p \notin connected => volume' = volume
         /\ p \in connected => /\ Up /\ volume' \in Volume
                               /\ volume'.hba = volume.hba /\ volume'.ssl = volume.ssl
                               /\ volume'.dbs = volume.dbs /\ volume'.used = volume.used
                               /\ volume'.pw = WithPassword(volume, Here(p)).pw
         /\ run'[p] = IF pc'[p] \in Resting THEN NoLocals
                      ELSE [run[p] EXCEPT !.at = @ + 1]
         /\ pc'[p] \notin Resting => connected' = connected
<1> DEFINE u == Here(p)
           v == WithPassword(volume, u)
           new == [run[p] EXCEPT !.at = @ + 1]
           lost == getDatabasesToManage(Cfg(p), u) # {} /\ "postgres" \notin Reachable(p, v)
<1>1. /\ pc[p] = "sync" /\ run[p].at \in DOMAIN Cfg(p).users
      /\ UNCHANGED <<container, live, callVars, faults>>
  BY DEF SyncUser, serverVars
<1>2. \/ p \notin connected /\ GoTo(p, "failed") /\ UNCHANGED <<volume, connected>>
      \/ p \in connected /\ GoTo(p, "failed") /\ volume' = v /\ connected' = connected \ {p}
      \/ /\ p \in connected /\ volume' = syncDatabasePermissions(p, v, u)
         /\ Goes(p, "sync", new) /\ UNCHANGED connected
  <2>1. CASE p \notin connected
    BY <2>1 DEF SyncUser
  <2>2. CASE p \in connected /\ lost
    BY <2>2 DEF SyncUser, Here, WithPassword
  <2>3. CASE p \in connected /\ ~lost
    BY <2>3 DEF SyncUser, Here, WithPassword
  <2> QED BY <2>1, <2>2, <2>3
<1>3. u \in User
  BY <1>1, CommandHere, FileTypes DEF Here
<1>4. p \in connected => Up /\ volume \in Volume
  BY TypedServer, UpHasData DEF ServerTyped
<1>5. /\ new \in Locals /\ new.seen = run[p].seen /\ new.hba = run[p].hba
      /\ new.ssl = run[p].ssl /\ new.fresh = run[p].fresh /\ new.at = run[p].at + 1
      /\ run[p].at \in Nat
  BY CommandHere DEF Locals
<1> HIDE DEF u, v, new
<1>6. p \in connected =>
        /\ v \in Volume /\ v.hba = volume.hba /\ v.ssl = volume.ssl
        /\ v.dbs = volume.dbs /\ v.used = volume.used
        /\ v.pw = WithPassword(volume, u).pw
  BY <1>3, <1>4, WithPasswordDoes DEF v
<1>7. p \in connected =>
        LET w == syncDatabasePermissions(p, v, u) IN
        /\ w \in Volume /\ w.hba = v.hba /\ w.ssl = v.ssl /\ w.pw = v.pw
        /\ w.dbs = v.dbs /\ w.used = v.used
  BY <1>3, <1>6, PrivilegesDo
<1>8. /\ p \notin connected => volume' = volume
      /\ p \in connected => /\ Up /\ volume' \in Volume
                            /\ volume'.hba = volume.hba /\ volume'.ssl = volume.ssl
                            /\ volume'.dbs = volume.dbs /\ volume'.used = volume.used
                            /\ volume'.pw = WithPassword(volume, u).pw
  BY <1>2, <1>4, <1>6, <1>7
<1>9. /\ Stepped(p) /\ Copied(p) /\ pc'[p] \in {"sync", "failed"}
      /\ pc'[p] = "failed" => run'[p] = NoLocals
      /\ pc'[p] = "sync" => run'[p] = new /\ connected' = connected
  <2>1. CASE GoTo(p, "failed")
    BY <1>1, <2>1, GoToDoes DEF Resting
  <2>2. CASE Goes(p, "sync", new) /\ UNCHANGED connected
    <3>1. Stepped(p) /\ pc'[p] = "sync" /\ run'[p] = new
      BY <1>1, <1>5, <2>2, GoesDoes DEF Steps, Resting
    <3> QED BY <1>5, <2>2, <3>1 DEF Copied
  <2> QED BY <1>2, <2>1, <2>2
<1>10. connected' \in SUBSET Proc /\ (~Up => connected' = {})
  BY <1>2, TypedServer DEF ServerTyped
<1>11. ServerTyped'
  BY <1>1, <1>8, <1>10, FilesTyped DEF serverVars
<1>12. (KindOf(p) /\ PlaceOf(p) /\ ReadOf(p))'
  <2>1. cmd' = cmd /\ Cfg(p)' = Cfg(p)
    BY <1>9 DEF Stepped, callVars, Cfg
  <2>2. KindOf(p)'
    BY <1>1, <1>9, <2>1, CommandHere DEF KindOf, StartSteps, UserSteps, DbSteps, StopSteps
  <2>3. PlaceOf(p)'
    BY <1>1, <1>5, <1>9, <2>1, CommandHere
    DEF PlaceOf, LineSteps, UsersFirst, UserSteps, PasswordSteps, SslSteps, Resting
  <2>4. ReadOf(p)'
    BY <1>1, <1>5, <1>9, CommandHere DEF ReadOf, NoLocals, StartSteps
  <2> QED BY <2>2, <2>3, <2>4
<1>13. Typed'
  BY <1>9, <1>11, <1>12, StepTyped
<1>14. run'[p] = (IF pc'[p] \in Resting THEN NoLocals ELSE new) /\ (pc'[p] \notin Resting => connected' = connected)
  BY <1>9 DEF Resting
<1> QED BY <1>1, <1>8, <1>9, <1>13, <1>14 DEF Onward, u, new

LEMMA UsersSyncedDoes ==
  ASSUME Typed, NEW p \in Proc, UsersSynced(p)
  PROVE  /\ Typed' /\ Onward(p, {"sync"}, {"scramHba", "updateHba", "randomise", "done"})
         /\ UNCHANGED <<volume, container, live, faults>>
         /\ run[p].at \notin DOMAIN Cfg(p).users
         /\ pc'[p] = IF ToScram(p, run[p].hba) THEN "scramHba"
                     ELSE IF pgHbaConfNeedsUpdate(run[p].hba, Expected(p)) THEN "updateHba"
                     ELSE AfterUsers(Cfg(p))
         /\ run'[p] = IF pc'[p] \in Resting THEN NoLocals ELSE run[p]
         /\ pc'[p] \notin Resting => connected' = connected
<1> DEFINE to == IF ToScram(p, run[p].hba) THEN "scramHba"
                 ELSE IF pgHbaConfNeedsUpdate(run[p].hba, Expected(p)) THEN "updateHba"
                 ELSE AfterUsers(Cfg(p))
<1>1. /\ pc[p] = "sync" /\ run[p].at \notin DOMAIN Cfg(p).users /\ GoTo(p, to)
      /\ KeepsClient(p) /\ UNCHANGED <<volume, container, live, callVars, faults>>
  BY DEF UsersSynced, serverVars
<1>2. /\ to \in {"scramHba", "updateHba", "randomise", "done"}
      /\ to = "randomise" => Cfg(p).auth /\ ~InUsers(Cfg(p), "postgres")
  BY AfterUsersIs
<1>3. to = IF ToScram(p, run[p].hba) THEN "scramHba"
           ELSE IF pgHbaConfNeedsUpdate(run[p].hba, Expected(p)) THEN "updateHba"
           ELSE AfterUsers(Cfg(p))
  OBVIOUS
<1> HIDE DEF to
<1>4. /\ Stepped(p) /\ pc'[p] = to /\ Copied(p)
      /\ run'[p] = IF to \in Resting THEN NoLocals ELSE run[p]
  BY <1>1, <1>2, GoToDoes DEF Steps, Resting
<1>5. /\ connected' \in SUBSET Proc /\ (~Up => connected' = {})
      /\ pc'[p] \notin Resting => connected' = connected
  BY <1>1, KeepsClientDoes
<1>6. ServerTyped'
  BY <1>1, <1>5, FilesTyped DEF serverVars
<1>7. (KindOf(p) /\ PlaceOf(p) /\ ReadOf(p))'
  <2>1. cmd' = cmd /\ Cfg(p)' = Cfg(p)
    BY <1>4 DEF Stepped, callVars, Cfg
  <2> QED BY <1>1, <1>2, <1>4, <2>1, CommandHere
  DEF KindOf, PlaceOf, ReadOf, StartSteps, UserSteps, DbSteps, StopSteps,
      LineSteps, UsersFirst, PasswordSteps, SslSteps, Resting, NoLocals
<1>8. Typed'
  BY <1>4, <1>6, <1>7, StepTyped
<1> QED BY <1>1, <1>2, <1>3, <1>4, <1>5, <1>8 DEF Onward

LEMMA RandomisePostgresDoes ==
  ASSUME Typed, NEW p \in Proc, RandomisePostgres(p)
  PROVE  /\ Typed' /\ Onward(p, {"randomise"}, {"done", "failed"})
         /\ UNCHANGED <<container, live, faults>> /\ Randomised(p)
         /\ run'[p] = NoLocals
<1>1. /\ pc[p] = "randomise" /\ Query(p, "done") /\ Randomised(p)
      /\ UNCHANGED <<serverVars, callVars, faults>>
  BY DEF RandomisePostgres
<1>2. /\ Stepped(p) /\ Copied(p) /\ connected' \in SUBSET Proc /\ (~Up => connected' = {})
      /\ pc'[p] \in {"done", "failed"} /\ run'[p] = NoLocals
  BY <1>1, QueryDoes DEF Steps, Resting
<1>3. ServerTyped'
  BY <1>1, <1>2, RandomisedDoes, FilesTyped
<1>4. (KindOf(p) /\ PlaceOf(p) /\ ReadOf(p))'
  BY <1>1, <1>2
  DEF KindOf, PlaceOf, ReadOf, StartSteps, UserSteps, DbSteps, StopSteps,
      LineSteps, UsersFirst, PasswordSteps, SslSteps, Resting, NoLocals
<1> QED BY <1>1, <1>2, <1>3, <1>4, StepTyped DEF Onward, serverVars

-----------------------------------------------------------------------------
(***************************************************************************)
(* What each step does: databases.                                         *)
(***************************************************************************)

LEMMA ConnectForDbsDoes ==
  ASSUME Typed, NEW p \in Proc, ConnectForDbs(p)
  PROVE  /\ Typed' /\ Onward(p, {"connectDbs"}, {"createDbs", "done", "failed"})
         /\ UNCHANGED <<volume, container, live, faults>>
<1> DEFINE new == [run[p] EXCEPT !.at = 2]
<1>1. pc[p] = "connectDbs" /\ UNCHANGED <<volume, container, live, callVars, faults>>
  BY DEF ConnectForDbs, serverVars
<1>2. /\ new \in Locals /\ new.at = 2 /\ new.seen = run[p].seen /\ new.hba = run[p].hba
      /\ new.ssl = run[p].ssl /\ new.fresh = run[p].fresh
  BY CommandHere DEF Locals
<1>3. \/ GoTo(p, "done") /\ UNCHANGED connected
      \/ /\ ~(Len(Cfg(p).dbs) < 2)
         /\ Accepts(volume, getAuthUserFromConfig(Cfg(p)), "postgres", Cfg(p).ssl)
         /\ Goes(p, "createDbs", new) /\ connected' = connected \union {p}
      \/ GoTo(p, "failed") /\ UNCHANGED connected
  BY DEF ConnectForDbs
<1>4. ~(Len(Cfg(p).dbs) < 2) => 2 \in DOMAIN Cfg(p).dbs
  <2>1. Cfg(p).dbs \in Seq(Db)
    BY CommandHere, FileTypes DEF Config
  <2> QED BY <2>1
<1> HIDE DEF new
<1>5. /\ Stepped(p) /\ Copied(p) /\ pc'[p] \in {"createDbs", "done", "failed"}
      /\ connected' \in SUBSET Proc /\ (~Up => connected' = {})
      /\ pc'[p] = "createDbs" => run'[p] = new /\ 2 \in DOMAIN Cfg(p).dbs
      /\ pc'[p] # "createDbs" => run'[p] = NoLocals
  <2>1. CASE GoTo(p, "done") /\ UNCHANGED connected
    <3>1. Stepped(p) /\ Copied(p) /\ pc'[p] = "done" /\ run'[p] = NoLocals
      BY <1>1, <2>1, GoToDoes DEF Resting
    <3> QED BY <2>1, <3>1, TypedServer DEF ServerTyped
  <2>2. CASE /\ ~(Len(Cfg(p).dbs) < 2)
             /\ Accepts(volume, getAuthUserFromConfig(Cfg(p)), "postgres", Cfg(p).ssl)
             /\ Goes(p, "createDbs", new) /\ connected' = connected \union {p}
    <3>1. Stepped(p) /\ pc'[p] = "createDbs" /\ run'[p] = new
      BY <1>1, <1>2, <2>2, GoesDoes DEF Steps, Resting
    <3>2. Up
      BY <2>2, AcceptsUp
    <3>3. Copied(p)
      BY <1>2, <3>1 DEF Copied
    <3> QED BY <1>4, <2>2, <3>1, <3>2, <3>3, TypedServer DEF ServerTyped
  <2>3. CASE GoTo(p, "failed") /\ UNCHANGED connected
    <3>1. Stepped(p) /\ Copied(p) /\ pc'[p] = "failed" /\ run'[p] = NoLocals
      BY <1>1, <2>3, GoToDoes DEF Resting
    <3> QED BY <2>3, <3>1, TypedServer DEF ServerTyped
  <2> QED BY <1>3, <2>1, <2>2, <2>3
<1>6. ServerTyped'
  BY <1>1, <1>5, FilesTyped DEF serverVars
<1>7. (KindOf(p) /\ PlaceOf(p) /\ ReadOf(p))'
  <2>1. cmd' = cmd /\ Cfg(p)' = Cfg(p)
    BY <1>5 DEF Stepped, callVars, Cfg
  <2> QED BY <1>1, <1>2, <1>5, <2>1, CommandHere
  DEF KindOf, PlaceOf, ReadOf, StartSteps, UserSteps, DbSteps, StopSteps,
      LineSteps, UsersFirst, PasswordSteps, SslSteps, Resting, NoLocals
<1>8. Typed'
  BY <1>5, <1>6, <1>7, StepTyped
<1> QED BY <1>1, <1>5, <1>8 DEF Onward

LEMMA CreateDatabaseDoes ==
  ASSUME Typed, NEW p \in Proc, CreateDatabase(p)
  PROVE  /\ Typed' /\ Onward(p, {"createDbs"}, {"createDbs", "done", "failed"})
         /\ UNCHANGED <<container, live, faults>>
         /\ \/ volume' = volume
            \/ /\ Up /\ volume' \in Volume
               /\ volume'.hba = volume.hba /\ volume'.ssl = volume.ssl /\ volume'.pw = volume.pw
               /\ volume.dbs \subseteq volume'.dbs /\ volume'.used = volume.used
<1> DEFINE d == Cfg(p).dbs[run[p].at]
           v == [volume EXCEPT !.dbs = volume.dbs \union {d}]
           users == {u \in ToSet(Cfg(p).users) : d \in getDatabasesToManage(Cfg(p), u)}
           lost == users # {} /\ "postgres" \notin Reachable(p, v)
           roles == {u.name : u \in {u \in users : v.pw[u.name] # "absent"}}
           last == run[p].at = Len(Cfg(p).dbs)
           to == IF last THEN "done" ELSE "createDbs"
           new == [run[p] EXCEPT !.at = @ + 1]
<1>1. pc[p] = "createDbs" /\ KeepsClient(p) /\ UNCHANGED <<container, live, callVars, faults>>
  BY DEF CreateDatabase, serverVars
<1>2. \/ p \notin connected /\ GoTo(p, "failed") /\ UNCHANGED volume
      \/ p \in connected /\ GoTo(p, "failed") /\ volume' = v
      \/ /\ p \in connected /\ volume' = grantDatabasePermissions(p, v, roles, {d})
         /\ Goes(p, to, new)
  <2>1. CASE p \notin connected
    BY <2>1 DEF CreateDatabase
  <2>2. CASE p \in connected /\ lost
    BY <2>2 DEF CreateDatabase
  <2>3. CASE p \in connected /\ ~lost
    BY <2>3 DEF CreateDatabase
  <2> QED BY <2>1, <2>2, <2>3
<1>3. run[p].at \in DOMAIN Cfg(p).dbs /\ Cfg(p).dbs \in Seq(Db) /\ d \in Db
  <2>1. run[p].at \in DOMAIN Cfg(p).dbs
    BY <1>1, CommandHere DEF PlaceOf
  <2> QED BY <2>1, CommandHere, FileTypes DEF Config
<1>4. roles \in SUBSET Role
  <2>1. \A u \in ToSet(Cfg(p).users) : u.name \in Role
    <3>1. \A u \in ToSet(Cfg(p).users) : u \in User
      BY CommandHere, FileTypes
    <3> QED BY <3>1 DEF User
  <2>2. users \subseteq ToSet(Cfg(p).users)
    OBVIOUS
  <2> HIDE DEF users, v
  <2> QED BY <2>1, <2>2
<1>5. p \in connected => Up /\ volume \in Volume
  BY TypedServer, UpHasData DEF ServerTyped
<1>6. p \in connected =>
        /\ v \in Volume /\ v.hba = volume.hba /\ v.ssl = volume.ssl /\ v.pw = volume.pw
        /\ volume.dbs \subseteq v.dbs /\ v.used = volume.used
  <2> SUFFICES ASSUME p \in connected
               PROVE  /\ v \in Volume /\ v.hba = volume.hba /\ v.ssl = volume.ssl
                      /\ v.pw = volume.pw /\ volume.dbs \subseteq v.dbs
                      /\ v.used = volume.used
    OBVIOUS
  <2> DEFINE more == volume.dbs \union {d}
  <2>1. more \in SUBSET Db /\ volume.dbs \subseteq more
    BY <1>3, <1>5 DEF Volume
  <2>2. v = [volume EXCEPT !.dbs = more]
    OBVIOUS
  <2> HIDE DEF more, v
  <2> QED BY <1>5, <2>1, <2>2 DEF Volume
<1>7. ~last => run[p].at + 1 \in DOMAIN Cfg(p).dbs
  BY <1>3
<1>8. /\ new \in Locals /\ new.seen = run[p].seen /\ new.hba = run[p].hba
      /\ new.ssl = run[p].ssl /\ new.fresh = run[p].fresh /\ new.at = run[p].at + 1
  BY CommandHere DEF Locals
<1>9. to \in {"createDbs", "done"} /\ (to = "createDbs" => ~last)
  OBVIOUS
<1> HIDE DEF d, v, users, roles, last, to, new
<1>10. \/ volume' = volume
       \/ /\ Up /\ volume' \in Volume
          /\ volume'.hba = volume.hba /\ volume'.ssl = volume.ssl /\ volume'.pw = volume.pw
          /\ volume.dbs \subseteq volume'.dbs /\ volume'.used = volume.used
  BY <1>2, <1>4, <1>5, <1>6, GrantsDo
<1>11. /\ Stepped(p) /\ Copied(p) /\ pc'[p] \in {"createDbs", "done", "failed"}
       /\ pc'[p] = "createDbs" => run'[p] = new /\ ~last
       /\ pc'[p] # "createDbs" => run'[p] = NoLocals
  <2>1. CASE GoTo(p, "failed")
    <3>1. Stepped(p) /\ Copied(p) /\ pc'[p] = "failed" /\ run'[p] = NoLocals
      BY <1>1, <2>1, GoToDoes DEF Resting
    <3> QED BY <3>1
  <2>2. CASE Goes(p, to, new)
    <3>1. Stepped(p) /\ pc'[p] = to /\ run'[p] = IF to \in Resting THEN NoLocals ELSE new
      BY <1>1, <1>8, <1>9, <2>2, GoesDoes DEF Steps, Resting
    <3>2. Copied(p)
      BY <1>8, <3>1 DEF Copied
    <3> QED BY <1>9, <3>1, <3>2 DEF Resting
  <2> QED BY <1>2, <2>1, <2>2
<1>12. connected' \in SUBSET Proc /\ (~Up => connected' = {})
  BY <1>1, KeepsClientDoes
<1>13. ServerTyped'
  BY <1>1, <1>10, <1>12, FilesTyped DEF serverVars
<1>14. (KindOf(p) /\ PlaceOf(p) /\ ReadOf(p))'
  <2>1. cmd' = cmd /\ Cfg(p)' = Cfg(p)
    BY <1>11 DEF Stepped, callVars, Cfg
  <2>2. KindOf(p)' /\ PlaceOf(p)'
    BY <1>1, <1>7, <1>8, <1>11, <2>1, CommandHere
    DEF KindOf, PlaceOf, StartSteps, UserSteps, DbSteps, StopSteps,
      LineSteps, UsersFirst, PasswordSteps, SslSteps, Resting
  <2>3. ReadOf(p)'
    BY <1>1, <1>8, <1>11, CommandHere DEF ReadOf, StartSteps, NoLocals
  <2> QED BY <2>2, <2>3
<1>15. Typed'
  BY <1>11, <1>13, <1>14, StepTyped
<1> QED BY <1>1, <1>10, <1>11, <1>15 DEF Onward

-----------------------------------------------------------------------------
(***************************************************************************)
(* What each step does: stop, the user, and what may go wrong.             *)
(***************************************************************************)

LEMMA FindContainerDoes ==
  ASSUME Typed, NEW p \in Proc, FindContainer(p)
  PROVE  /\ Typed' /\ Onward(p, {"find"}, {"done", "stop", "rm"})
         /\ UNCHANGED <<volume, container, live, connected, faults>>
<1> DEFINE to == CASE container.state = "none" -> "done"
                   [] Up -> "stop"
                   [] OTHER -> "rm"
<1>1. /\ pc[p] = "find" /\ GoTo(p, to)
      /\ UNCHANGED <<volume, container, live, connected, callVars, faults>>
  BY DEF FindContainer, serverVars
<1>2. to \in {"done", "stop", "rm"}
  <2>1. container.state = "none" => ~Up
    BY DEF Up
  <2> QED BY <2>1
<1> HIDE DEF to
<1>3. /\ Stepped(p) /\ pc'[p] = to /\ Copied(p)
      /\ run'[p] = IF to \in Resting THEN NoLocals ELSE run[p]
  BY <1>1, <1>2, GoToDoes DEF Steps, Resting
<1>4. ServerTyped'
  BY <1>1, TypedServer DEF ServerTyped, Up
<1>5. (KindOf(p) /\ PlaceOf(p) /\ ReadOf(p))'
  <2>1. cmd' = cmd /\ Cfg(p)' = Cfg(p)
    BY <1>3 DEF Stepped, callVars, Cfg
  <2> QED BY <1>1, <1>2, <1>3, <2>1, CommandHere
  DEF KindOf, PlaceOf, ReadOf, StartSteps, UserSteps, DbSteps, StopSteps,
      LineSteps, UsersFirst, PasswordSteps, SslSteps, Resting, NoLocals
<1>6. Typed'
  BY <1>3, <1>4, <1>5, StepTyped
<1> QED BY <1>1, <1>2, <1>3, <1>6 DEF Onward

LEMMA StopContainerDoes ==
  ASSUME Typed, NEW p \in Proc, StopContainer(p)
  PROVE  /\ Typed' /\ Onward(p, {"stop"}, {"rm", "failed"})
         /\ UNCHANGED <<volume, live, faults>>
         /\ ~Up'
<1>1. pc[p] = "stop" /\ UNCHANGED <<volume, live, callVars, faults>>
  BY DEF StopContainer
<1>2. \/ /\ container.state = "none" /\ GoTo(p, "failed") /\ UNCHANGED <<container, connected>>
      \/ /\ container.state # "none" /\ GoTo(p, "rm") /\ connected' = {}
         /\ container' = [container EXCEPT !.state = "stopped"]
  BY DEF StopContainer
<1>3. /\ Stepped(p) /\ pc'[p] \in {"rm", "failed"} /\ Copied(p)
      /\ run'[p] = IF pc'[p] \in Resting THEN NoLocals ELSE run[p]
  <2>1. CASE GoTo(p, "failed")
    BY <1>1, <2>1, GoToDoes DEF Resting
  <2>2. CASE GoTo(p, "rm")
    BY <1>1, <2>2, GoToDoes DEF Steps, Resting
  <2> QED BY <1>2, <2>1, <2>2
<1>4. ServerTyped' /\ ~Up'
  BY <1>1, <1>2, TypedServer DEF ServerTyped, Up
<1>5. (KindOf(p) /\ PlaceOf(p) /\ ReadOf(p))'
  <2>1. cmd' = cmd /\ Cfg(p)' = Cfg(p)
    BY <1>3 DEF Stepped, callVars, Cfg
  <2> QED BY <1>1, <1>3, <2>1, CommandHere
  DEF KindOf, PlaceOf, ReadOf, StartSteps, UserSteps, DbSteps, StopSteps,
      LineSteps, UsersFirst, PasswordSteps, SslSteps, Resting, NoLocals
<1>6. Typed'
  BY <1>3, <1>4, <1>5, StepTyped
<1> QED BY <1>1, <1>3, <1>4, <1>6 DEF Onward

LEMMA RemoveStoppedDoes ==
  ASSUME Typed, NEW p \in Proc, RemoveStopped(p)
  PROVE  /\ Typed' /\ Onward(p, {"rm"}, {"volumeRm", "done"})
         /\ UNCHANGED <<volume, live>>
         /\ Up' <=> Up
<1> DEFINE to == IF ShouldRemoveVolume(cmd[p]) THEN "volumeRm" ELSE "done"
<1>1. /\ pc[p] = "rm" /\ GoTo(p, to) /\ UNCHANGED <<volume, live, connected, callVars>>
      /\ container' \in {container, IF Up THEN container ELSE [state |-> "none", certs |-> FALSE]}
      /\ Fault \/ UNCHANGED faults
  BY DEF RemoveStopped
<1>2. to \in {"volumeRm", "done"}
  OBVIOUS
<1> HIDE DEF to
<1>3. /\ Stepped(p) /\ pc'[p] = to /\ Copied(p)
      /\ run'[p] = IF to \in Resting THEN NoLocals ELSE run[p]
  BY <1>1, <1>2, GoToDoes DEF Steps, Resting
<1>4. ServerTyped' /\ (Up' <=> Up)
  <2>1. faults' \in 0..MaxFaults
    BY <1>1, FaultTyped
  <2>2. CASE container' = container
    BY <1>1, <2>1, <2>2, TypedServer DEF ServerTyped, Up
  <2>3. CASE ~Up /\ container' = [state |-> "none", certs |-> FALSE]
    BY <1>1, <2>1, <2>3, TypedServer DEF ServerTyped, Up
  <2> QED BY <1>1, <2>2, <2>3
<1>5. (KindOf(p) /\ PlaceOf(p) /\ ReadOf(p))'
  <2>1. cmd' = cmd /\ Cfg(p)' = Cfg(p)
    BY <1>3 DEF Stepped, callVars, Cfg
  <2> QED BY <1>1, <1>2, <1>3, <2>1, CommandHere
  DEF KindOf, PlaceOf, ReadOf, StartSteps, UserSteps, DbSteps, StopSteps,
      LineSteps, UsersFirst, PasswordSteps, SslSteps, Resting, NoLocals
<1>6. Typed'
  BY <1>3, <1>4, <1>5, StepTyped
<1> QED BY <1>1, <1>2, <1>3, <1>4, <1>6 DEF Onward

LEMMA RemoveVolumeDoes ==
  ASSUME Typed, NEW p \in Proc, RemoveVolume(p)
  PROVE  /\ Typed' /\ Onward(p, {"volumeRm"}, {"done"})
         /\ UNCHANGED <<container, live, connected>>
         /\ volume' = volume \/ (volume' = NoVolume /\ container.state = "none")
<1>1. /\ pc[p] = "volumeRm" /\ GoTo(p, "done")
      /\ UNCHANGED <<container, live, connected, callVars>>
      /\ volume' = volume \/ (volume' = NoVolume /\ container.state = "none")
      /\ faults' = faults \/ Fault
  BY DEF RemoveVolume, serverVars
<1>2. Stepped(p) /\ pc'[p] = "done" /\ run'[p] = NoLocals /\ Copied(p)
  BY <1>1, GoToDoes DEF Resting
<1>3. ServerTyped'
  BY <1>1, TypedServer, FaultTyped DEF ServerTyped, IsVolume, Up
<1>4. (KindOf(p) /\ PlaceOf(p) /\ ReadOf(p))'
  BY <1>2
  DEF KindOf, PlaceOf, ReadOf, StartSteps, UserSteps, DbSteps, StopSteps,
      LineSteps, UsersFirst, PasswordSteps, SslSteps, Resting, NoLocals
<1> QED BY <1>1, <1>2, <1>3, <1>4, StepTyped DEF Onward

LEMMA KillDoes ==
  ASSUME Typed, NEW p \in Proc, Kill(p)
  PROVE  /\ Typed' /\ Onward(p, Steps, {"failed"}) /\ run'[p] = NoLocals
         /\ UNCHANGED <<volume, container, live>> /\ Fault
         /\ connected' = connected \ {p}
<1>1. /\ Running(p) /\ GoTo(p, "failed") /\ Fault /\ connected' = connected \ {p}
      /\ UNCHANGED <<volume, container, live, callVars>>
  BY DEF Kill, serverVars
<1>2. /\ Stepped(p) /\ pc'[p] = "failed" /\ Copied(p) /\ run'[p] = NoLocals
  BY <1>1, GoToDoes DEF Resting
<1>3. ServerTyped'
  BY <1>1, TypedServer, FaultTyped DEF ServerTyped, Up
<1>4. (KindOf(p) /\ PlaceOf(p) /\ ReadOf(p))'
  BY <1>2
  DEF KindOf, PlaceOf, ReadOf, StartSteps, UserSteps, DbSteps, StopSteps,
      LineSteps, UsersFirst, PasswordSteps, SslSteps, Resting, NoLocals
<1>5. pc[p] \in Steps
  BY <1>1, CommandHere DEF Running
<1> QED BY <1>1, <1>2, <1>3, <1>4, <1>5, StepTyped DEF Onward

\* A command begins: its file is entered in the volume it works with.
LEMMA LaunchDoes ==
  ASSUME Typed, NEW p \in Proc, Launch(p)
  PROVE  /\ Typed' /\ ~Running(p) /\ launches' = launches + 1
         /\ UNCHANGED <<file, container, live, connected, faults, run>>
         /\ \A q \in Proc \ {p} : pc'[q] = pc[q] /\ cmd'[q] = cmd[q]
         /\ pc'[p] = FirstStep(cmd'[p].kind) /\ cmd'[p].cfg = file
         /\ pc'[p] \in {"volumeRemove", "connect", "connectDbs", "find"}
         /\ volume' = IF cmd'[p].kind = "stop" THEN volume ELSE Uses(volume, file)
         /\ solo' = [q \in Proc |-> IF q = p THEN \A r \in Proc \ {p} : ~Running(r)
                                    ELSE solo[q] /\ ~Running(q)]
         /\ loaded' = [loaded EXCEPT ![p] = Up => live.hba = volume.hba]
<1>1. PICK c \in Command :
        /\ c.cfg = file /\ cmd' = [cmd EXCEPT ![p] = c] /\ GoTo(p, FirstStep(c.kind))
        /\ volume' = IF c.kind = "stop" THEN volume ELSE Uses(volume, file)
  BY DEF Launch
<1>2. /\ ~Running(p) /\ launches < MaxLaunches /\ launches' = launches + 1
      /\ UNCHANGED <<file, container, live, connected, edits, faults>>
      /\ solo' = [q \in Proc |-> IF q = p THEN \A r \in Proc \ {p} : ~Running(r)
                                 ELSE solo[q] /\ ~Running(q)]
      /\ loaded' = [loaded EXCEPT ![p] = Up => live.hba = volume.hba]
  BY DEF Launch, serverVars
<1>3. /\ pc \in [Proc -> Steps \union Resting] /\ cmd \in [Proc -> Command]
      /\ run \in [Proc -> Locals] /\ file \in Configs /\ IsVolume(volume)
      /\ edits \in 0..MaxEdits /\ faults \in 0..MaxFaults /\ launches \in 0..MaxLaunches
      /\ solo \in [Proc -> BOOLEAN] /\ loaded \in [Proc -> BOOLEAN]
  BY DEF Typed, TypeOK, IsVolume
<1>4. c.kind \in Kinds
  BY DEF Command, Kinds
<1> DEFINE to == FirstStep(c.kind)
<1>5. \/ c.kind = "start" /\ to = "volumeRemove"
      \/ c.kind = "setup-users" /\ to = "connect"
      \/ c.kind = "setup-dbs" /\ to = "connectDbs"
      \/ c.kind = "stop" /\ to = "find"
  BY <1>4 DEF Kinds, FirstStep
<1>6. to = FirstStep(c.kind)
  OBVIOUS
<1> HIDE DEF to
<1>7. run[p] = NoLocals
  BY <1>2, CommandHere DEF PlaceOf, Running
<1>8. /\ pc' = [pc EXCEPT ![p] = to] /\ run' = run
  <2>1. /\ pc' = [pc EXCEPT ![p] = to]
        /\ run' = [run EXCEPT ![p] = IF to \in Resting THEN NoLocals ELSE run[p]]
    BY <1>1, <1>6 DEF GoTo, Goes
  <2>2. \A q \in Proc : run'[q] = run[q]
    BY <1>3, <1>7, <2>1
  <2>3. run' \in [Proc -> Locals]
    BY <1>3, <2>1, NoLocalsTyped
  <2> QED BY <1>3, <2>1, <2>2, <2>3
<1>9. /\ IsVolume(volume') /\ (HasData(volume)' <=> HasData(volume))
  <2>1. IsVolume(Uses(volume, file)) /\ (HasData(Uses(volume, file)) <=> HasData(volume))
    BY <1>3, UsesDoes
  <2> QED BY <1>1, <1>3, <2>1
<1>10. pc' \in [Proc -> Steps \union Resting] /\ cmd' \in [Proc -> Command]
  BY <1>1, <1>3, <1>5, <1>8 DEF Steps
<1>11. launches' \in 0..MaxLaunches /\ edits' \in 0..MaxEdits /\ faults' \in 0..MaxFaults
  BY <1>2, <1>3, BoundAssumption
<1>12. solo' \in [Proc -> BOOLEAN] /\ loaded' \in [Proc -> BOOLEAN]
  <2>1. \A q \in Proc : solo[q] \in BOOLEAN
    BY <1>3
  <2>2. solo' \in [Proc -> BOOLEAN]
    BY <1>2, <2>1 DEF Running
  <2>3. loaded' \in [Proc -> BOOLEAN]
    BY <1>2, <1>3
  <2> QED BY <2>2, <2>3
<1>13. TypeOK'
  <2>1. container' = container /\ connected' = connected /\ live' = live /\ file' = file
    BY <1>2
  <2>2. /\ container \in [state : {"none", "stopped", "running"}, certs : BOOLEAN]
        /\ Up => HasData(volume)
        /\ live \in [hba : SUBSET Line, ssl : BOOLEAN]
        /\ connected \in SUBSET Proc /\ (~Up => connected = {})
    BY DEF Typed, TypeOK
  <2> QED BY <1>3, <1>8, <1>9, <1>10, <1>11, <1>12, <2>1, <2>2 DEF TypeOK, IsVolume, Up
<1>14. Backed'
  BY <1>2, <1>9, TypedServer DEF ServerTyped, Backed
<1>15. ASSUME NEW q \in Proc \ {p}
       PROVE  pc'[q] = pc[q] /\ cmd'[q] = cmd[q] /\ (KindOf(q) /\ PlaceOf(q) /\ ReadOf(q))'
  <2>1. pc'[q] = pc[q] /\ cmd'[q] = cmd[q] /\ run'[q] = run[q]
    BY <1>1, <1>3, <1>8
  <2> QED BY <2>1, CommandHere DEF KindOf, PlaceOf, ReadOf, Cfg
<1>16. pc'[p] = to /\ cmd'[p] = c /\ run'[p] = NoLocals
  BY <1>1, <1>3, <1>7, <1>8
<1>17. (KindOf(p) /\ PlaceOf(p) /\ ReadOf(p))'
  BY <1>5, <1>16
  DEF KindOf, PlaceOf, ReadOf, StartSteps, UserSteps, DbSteps, StopSteps,
      LineSteps, UsersFirst, PasswordSteps, SslSteps, Resting, NoLocals
<1>18. Typed'
  BY <1>13, <1>14, <1>15, <1>17 DEF Typed, Placed
<1> QED BY <1>1, <1>2, <1>5, <1>6, <1>8, <1>15, <1>16, <1>18

\* The user edits the file, or the machine goes down.
LEMMA EditDoes ==
  ASSUME Typed, Edit
  PROVE  /\ Typed'
         /\ UNCHANGED <<volume, container, live, connected, pc, cmd, run, solo, loaded,
                        launches, faults>>
<1>1. /\ edits < MaxEdits /\ edits' = edits + 1 /\ file' \in Configs
      /\ UNCHANGED <<volume, container, live, connected, pc, cmd, run, solo, loaded,
                     launches, faults>>
  BY DEF Edit, serverVars
<1>2. edits' \in 0..MaxEdits
  BY <1>1, BoundAssumption DEF Typed, TypeOK
<1>3. TypeOK'
  BY <1>1, <1>2 DEF Typed, TypeOK, Up
<1>4. Placed' /\ Backed'
  BY <1>1 DEF Typed, Placed, Backed, KindOf, PlaceOf, ReadOf, Cfg
<1> QED BY <1>1, <1>3, <1>4 DEF Typed

LEMMA CrashDoes ==
  ASSUME Typed, Crash
  PROVE  /\ Typed' /\ ~Up' /\ connected' = {} /\ Up
         /\ UNCHANGED <<file, volume, live, pc, cmd, run, loaded, launches>>
         /\ faults' = faults + 1
         /\ solo' = [p \in Proc |-> solo[p] /\ ~Running(p)]
<1>1. /\ Up /\ Fault /\ container' = [container EXCEPT !.state = "stopped"] /\ connected' = {}
      /\ UNCHANGED <<file, volume, live, pc, cmd, run, loaded, launches, edits>>
      /\ solo' = [p \in Proc |-> solo[p] /\ ~Running(p)]
  BY DEF Crash
<1>2. /\ container' \in [state : {"none", "stopped", "running"}, certs : BOOLEAN] /\ ~Up'
  BY <1>1, TypedServer DEF ServerTyped, Up
<1>3. solo' \in [Proc -> BOOLEAN] /\ faults' \in 0..MaxFaults
  BY <1>1, FaultTyped DEF Typed, TypeOK, Running
<1>4. TypeOK'
  BY <1>1, <1>2, <1>3 DEF Typed, TypeOK
<1>5. Placed'
  BY <1>1 DEF Typed, Placed, KindOf, PlaceOf, ReadOf, Cfg
<1>6. Backed'
  BY <1>1, TypedServer DEF ServerTyped, Backed, Up
<1>7. faults' = faults + 1
  BY <1>1 DEF Fault
<1> QED BY <1>1, <1>2, <1>4, <1>5, <1>6, <1>7 DEF Typed

-----------------------------------------------------------------------------
(***************************************************************************)
(* The types, and whose work is on the volume.                             *)
(***************************************************************************)

\* A step of a running command keeps account of the volume, also if it is new.
LEMMA AccountedKept ==
  ASSUME Typed, Accounted, NEW p \in Proc, Running(p), Stepped(p), Copied(p),
         \/ volume' = NoVolume
         \/ volume # NoVolume /\ volume'.used = volume.used
         \/ volume = NoVolume /\ volume'.used = NewVolume.used /\ p \in Setters
  PROVE  Accounted'
<1>1. Setters' \subseteq Setters /\ cmd' = cmd
  BY DEF Setters, Running, Stepped, callVars
<1>2. ASSUME NEW q \in Proc
      PROVE  Cfg(q)' = Cfg(q) /\ (run'[q].seen \subseteq run[q].seen \/ (Up /\ run'[q].seen = volume.used))
  BY <1>1 DEF Cfg, Stepped, Copied, NoLocals
<1>3. CASE volume # NoVolume /\ volume'.used = volume.used
  BY <1>1, <1>2, <1>3 DEF Accounted, Setters
<1>4. CASE volume = NoVolume /\ volume'.used = NewVolume.used /\ p \in Setters
  <2>1. ~Up
    BY <1>4, UpHasData
  <2>2. \A q \in Setters : Cfg(q) \in NewVolume.used /\ run[q].seen \subseteq NewVolume.used
    BY NewVolumeDoes
  <2> QED BY <1>1, <1>2, <1>4, <2>1, <2>2 DEF Accounted, Setters
<1> QED BY <1>3, <1>4 DEF Accounted

\* The steps that leave the volume alone, or only its files and catalogs.
LEMMA AccountedSame ==
  ASSUME Typed, Accounted, NEW p \in Proc, Stepped(p), Copied(p), Running(p),
         volume' = volume \/ volume' = NoVolume \/ (Up /\ volume'.used = volume.used)
  PROVE  Accounted'
<1>1. CASE volume' = volume \/ volume' = NoVolume
  <2>1. volume' = NoVolume \/ (volume # NoVolume /\ volume'.used = volume.used)
    BY <1>1
  <2> QED BY <2>1, AccountedKept
<1>2. CASE Up /\ volume'.used = volume.used
  <2>1. volume # NoVolume
    BY <1>2, UpHasData
  <2> QED BY <1>2, <2>1, AccountedKept
<1> QED BY <1>1, <1>2

LEMMA OnwardRuns ==
  ASSUME NEW p \in Proc, NEW from \in SUBSET Steps, NEW to, Onward(p, from, to)
  PROVE  Running(p) /\ Stepped(p) /\ Copied(p)
BY DEF Onward, Running, Resting, Steps

LEMMA StartTyped ==
  ASSUME Typed, Accounted, NEW p \in Proc, Start(p)
  PROVE  Typed' /\ Accounted'
<1>1. CASE VolumeRemove(p)
  <2>1. Typed' /\ Onward(p, {"volumeRemove"}, {"volumeCreate"})
        /\ (volume' = volume \/ volume' = NoVolume)
    BY <1>1, VolumeRemoveDoes
  <2> QED BY <2>1, OnwardRuns, AccountedSame DEF Steps
<1>2. CASE VolumeCreate(p)
  <2>1. /\ Typed' /\ Onward(p, {"volumeCreate"}, {"inspect"})
        /\ volume' = IF volume = NoVolume THEN NewVolume ELSE volume
    BY <1>2, VolumeCreateDoes
  <2>2. p \in Setters
    BY <2>1, OnwardRuns, CommandHere DEF Setters, Onward, KindOf, StartSteps, Steps
  <2> QED BY <2>1, <2>2, OnwardRuns, AccountedKept DEF Steps
<1>3. CASE Inspect(p)
  <2>1. Typed' /\ Onward(p, {"inspect"}, {"ready", "remove"}) /\ volume' = volume
    BY <1>3, InspectDoes
  <2> QED BY <2>1, OnwardRuns, AccountedSame DEF Steps
<1>4. CASE RemoveContainer(p)
  <2>1. Typed' /\ Onward(p, {"remove"}, {"run", "failed"}) /\ volume' = volume
    BY <1>4, RemoveContainerDoes
  <2> QED BY <2>1, OnwardRuns, AccountedSame DEF Steps
<1>5. CASE RunContainer(p)
  <2>1. /\ Typed' /\ Onward(p, {"run"}, {"ready", "failed"})
        /\ container.state # "none" => volume' = volume
        /\ container.state = "none" => Boot(VolumeToRun(p), Cfg(p).ssl) /\ VolumeToRun(p) \in Volume
    BY <1>5, RunContainerDoes
  <2>2. CASE container.state # "none"
    BY <2>1, <2>2, OnwardRuns, AccountedSame DEF Steps
  <2>3. CASE container.state = "none"
    <3>1. volume' = VolumeToRun(p)
      BY <2>1, <2>3, CommandHere, FileTypes, BootDoes
    <3>2. p \in Setters
      BY <2>1, OnwardRuns, CommandHere DEF Setters, Onward, KindOf, StartSteps, Steps
    <3>3. NewVolume.used \in SUBSET Configs /\ (volume # NoVolume => volume.used \in SUBSET Configs)
      BY NewVolumeDoes, TypedServer, DataIsVolume DEF ServerTyped
    <3>4. VolumeToRun(p).used = IF volume = NoVolume THEN NewVolume.used ELSE volume.used
      BY <3>3, CommandHere, ImageDoes DEF VolumeToRun
    <3> QED BY <2>1, <3>1, <3>2, <3>4, OnwardRuns, AccountedKept DEF Steps
  <2> QED BY <2>2, <2>3
<1>6. CASE WaitForReady(p)
  <2>1. /\ Typed' /\ volume' = volume
        /\ Onward(p, {"ready"}, {"readSsl", "alter", "readConf", "syncHba", "done", "failed"})
    BY <1>6, WaitForReadyDoes
  <2> QED BY <2>1, OnwardRuns, AccountedSame DEF Steps
<1>7. CASE AlterPostgres(p)
  <2>1. Typed' /\ Onward(p, {"alter"}, {"readConf", "failed"}) /\ Randomised(p)
    BY <1>7, AlterPostgresDoes
  <2>2. volume' = volume \/ (Up /\ volume'.used = volume.used)
    BY <2>1, RandomisedDoes, UpHasData DEF Volume
  <2> QED BY <2>1, <2>2, OnwardRuns, AccountedSame DEF Steps
<1>8. CASE ReadConf(p)
  <2>1. Typed' /\ Onward(p, {"readConf"}, {"syncHba", "writeConf", "failed"}) /\ volume' = volume
    BY <1>8, ReadConfDoes
  <2> QED BY <2>1, OnwardRuns, AccountedSame DEF Steps
<1>9. CASE WriteConf(p)
  <2>1. Typed' /\ Onward(p, {"writeConf"}, {"syncHba", "failed"}) /\ WritesConf(run[p].ssl, TRUE)
    BY <1>9, WriteConfDoes
  <2>2. volume' = volume \/ (Up /\ volume'.used = volume.used)
    BY <2>1, UpHasData DEF WritesConf, Volume
  <2> QED BY <2>1, <2>2, OnwardRuns, AccountedSame DEF Steps
<1>10. CASE SyncHba(p)
  <2>1. /\ Typed' /\ volume' = volume
        /\ Onward(p, {"syncHba"}, {"writeHba", "reload", "readSsl", "done", "failed"})
    BY <1>10, SyncHbaDoes
  <2> QED BY <2>1, OnwardRuns, AccountedSame DEF Steps
<1>11. CASE WriteHba(p)
  <2>1. Typed' /\ Onward(p, {"writeHba"}, {"reload", "failed"}) /\ WritesHba(Expected(p))
    BY <1>11, WriteHbaDoes
  <2>2. volume' = volume \/ (Up /\ volume'.used = volume.used)
    BY <2>1, UpHasData DEF WritesHba, Volume
  <2> QED BY <2>1, <2>2, OnwardRuns, AccountedSame DEF Steps
<1>12. CASE ReadSsl(p)
  <2>1. /\ Typed' /\ volume' = volume
        /\ Onward(p, {"readSsl"}, {"writeSslConf", "writeSslHba", "done", "failed"})
    BY <1>12, ReadSslDoes
  <2> QED BY <2>1, OnwardRuns, AccountedSame DEF Steps
<1>13. CASE WriteSslConf(p)
  <2>1. /\ Typed' /\ WritesConf(TRUE, run[p].scram)
        /\ Onward(p, {"writeSslConf"}, {"writeSslHba", "restart", "done", "failed"})
    BY <1>13, WriteSslConfDoes
  <2>2. volume' = volume \/ (Up /\ volume'.used = volume.used)
    BY <2>1, UpHasData DEF WritesConf, Volume
  <2> QED BY <2>1, <2>2, OnwardRuns, AccountedSame DEF Steps
<1>14. CASE WriteSslHba(p)
  <2>1. /\ Typed' /\ WritesHba(hbaWithSSL(run[p].hba))
        /\ Onward(p, {"writeSslHba"}, {"reloadSsl", "restart", "done", "failed"})
    BY <1>14, WriteSslHbaDoes
  <2>2. volume' = volume \/ (Up /\ volume'.used = volume.used)
    BY <2>1, UpHasData DEF WritesHba, Volume
  <2> QED BY <2>1, <2>2, OnwardRuns, AccountedSame DEF Steps
<1>15. CASE Restart(p)
  <2>1. /\ Typed' /\ Onward(p, {"restart"}, {"readySsl", "failed"})
        /\ container.state = "none" => volume' = volume
        /\ container.state # "none" => Boot(volume, container.certs) /\ volume \in Volume
                                       /\ container.certs \in BOOLEAN
    BY <1>15, RestartDoes
  <2>2. volume' = volume
    BY <2>1, BootDoes
  <2> QED BY <2>1, <2>2, OnwardRuns, AccountedSame DEF Steps
<1>16. CASE WaitForReadySsl(p)
  <2>1. Typed' /\ Onward(p, {"readySsl"}, {"done", "failed"}) /\ volume' = volume
    BY <1>16, WaitForReadySslDoes
  <2> QED BY <2>1, OnwardRuns, AccountedSame DEF Steps
<1> QED BY <1>1, <1>2, <1>3, <1>4, <1>5, <1>6, <1>7, <1>8, <1>9, <1>10, <1>11, <1>12, <1>13,
           <1>14, <1>15, <1>16 DEF Start

LEMMA SetupTyped ==
  ASSUME Typed, Accounted, NEW p \in Proc, Reload(p) \/ SetupUsers(p) \/ SetupDbs(p)
  PROVE  Typed' /\ Accounted'
<1>1. CASE Reload(p)
  <2>1. /\ Typed' /\ volume' = volume
        /\ Onward(p, {"reload", "reloadSsl", "reloadTrust", "reloadUsers"},
                  {"readSsl", "sync", "randomise", "done", "failed"})
    BY <1>1, ReloadDoes
  <2> QED BY <2>1, OnwardRuns, AccountedSame DEF Steps
<1>2. CASE ConnectForUsers(p)
  <2>1. Typed' /\ Onward(p, {"connect"}, {"snapshot", "done", "failed"}) /\ volume' = volume
    BY <1>2, ConnectForUsersDoes
  <2> QED BY <2>1, OnwardRuns, AccountedSame DEF Steps
<1>3. CASE ReadSnapshot(p)
  <2>1. Typed' /\ Onward(p, {"snapshot"}, {"trustHba", "sync"}) /\ volume' = volume
    BY <1>3, ReadSnapshotDoes
  <2> QED BY <2>1, OnwardRuns, AccountedSame DEF Steps
<1>4. CASE WriteUsersHba(p)
  <2>1. /\ Typed' /\ WritesHba(Expected(p))
        /\ Onward(p, {"trustHba", "scramHba", "updateHba"},
                  {"reloadTrust", "scramConf", "reloadUsers", "failed"})
    BY <1>4, WriteUsersHbaDoes
  <2>2. volume' = volume \/ (Up /\ volume'.used = volume.used)
    BY <2>1, UpHasData DEF WritesHba, Volume
  <2> QED BY <2>1, <2>2, OnwardRuns, AccountedSame DEF Steps
<1>5. CASE WriteUsersConf(p)
  <2>1. /\ Typed' /\ Onward(p, {"scramConf"}, {"reloadUsers", "failed"})
        /\ WritesConf(run[p].ssl, TRUE)
    BY <1>5, WriteUsersConfDoes
  <2>2. volume' = volume \/ (Up /\ volume'.used = volume.used)
    BY <2>1, UpHasData DEF WritesConf, Volume
  <2> QED BY <2>1, <2>2, OnwardRuns, AccountedSame DEF Steps
<1>6. CASE SyncUser(p)
  <2>1. /\ Typed' /\ Onward(p, {"sync"}, {"sync", "failed"})
        /\ volume' = volume \/ (Up /\ volume'.used = volume.used)
    BY <1>6, SyncUserDoes
  <2> QED BY <2>1, OnwardRuns, AccountedSame DEF Steps
<1>7. CASE UsersSynced(p)
  <2>1. /\ Typed' /\ volume' = volume
        /\ Onward(p, {"sync"}, {"scramHba", "updateHba", "randomise", "done"})
    BY <1>7, UsersSyncedDoes
  <2> QED BY <2>1, OnwardRuns, AccountedSame DEF Steps
<1>8. CASE RandomisePostgres(p)
  <2>1. Typed' /\ Onward(p, {"randomise"}, {"done", "failed"}) /\ Randomised(p)
    BY <1>8, RandomisePostgresDoes
  <2>2. volume' = volume \/ (Up /\ volume'.used = volume.used)
    BY <2>1, RandomisedDoes, UpHasData DEF Volume
  <2> QED BY <2>1, <2>2, OnwardRuns, AccountedSame DEF Steps
<1>9. CASE ConnectForDbs(p)
  <2>1. /\ Typed' /\ Onward(p, {"connectDbs"}, {"createDbs", "done", "failed"})
        /\ volume' = volume
    BY <1>9, ConnectForDbsDoes
  <2> QED BY <2>1, OnwardRuns, AccountedSame DEF Steps
<1>10. CASE CreateDatabase(p)
  <2>1. /\ Typed' /\ Onward(p, {"createDbs"}, {"createDbs", "done", "failed"})
        /\ volume' = volume \/ (Up /\ volume'.used = volume.used)
    BY <1>10, CreateDatabaseDoes
  <2> QED BY <2>1, OnwardRuns, AccountedSame DEF Steps
<1> QED BY <1>1, <1>2, <1>3, <1>4, <1>5, <1>6, <1>7, <1>8, <1>9, <1>10 DEF SetupUsers, SetupDbs

LEMMA StopTyped ==
  ASSUME Typed, Accounted, NEW p \in Proc, Stop(p) \/ Kill(p)
  PROVE  Typed' /\ Accounted'
<1>1. CASE FindContainer(p)
  <2>1. Typed' /\ Onward(p, {"find"}, {"done", "stop", "rm"}) /\ volume' = volume
    BY <1>1, FindContainerDoes
  <2> QED BY <2>1, OnwardRuns, AccountedSame DEF Steps
<1>2. CASE StopContainer(p)
  <2>1. Typed' /\ Onward(p, {"stop"}, {"rm", "failed"}) /\ volume' = volume
    BY <1>2, StopContainerDoes
  <2> QED BY <2>1, OnwardRuns, AccountedSame DEF Steps
<1>3. CASE RemoveStopped(p)
  <2>1. Typed' /\ Onward(p, {"rm"}, {"volumeRm", "done"}) /\ volume' = volume
    BY <1>3, RemoveStoppedDoes
  <2> QED BY <2>1, OnwardRuns, AccountedSame DEF Steps
<1>4. CASE RemoveVolume(p)
  <2>1. /\ Typed' /\ Onward(p, {"volumeRm"}, {"done"})
        /\ volume' = volume \/ volume' = NoVolume
    BY <1>4, RemoveVolumeDoes
  <2> QED BY <2>1, OnwardRuns, AccountedSame DEF Steps
<1>5. CASE Kill(p)
  <2>1. Typed' /\ Onward(p, Steps, {"failed"}) /\ volume' = volume
    BY <1>5, KillDoes
  <2> QED BY <2>1, OnwardRuns, AccountedSame
<1> QED BY <1>1, <1>2, <1>3, <1>4, <1>5 DEF Stop

\* A new command is entered in the volume; the others were there.
LEMMA LaunchTyped ==
  ASSUME Typed, Accounted, NEW p \in Proc, Launch(p)
  PROVE  Typed' /\ Accounted'
<1>1. /\ Typed' /\ UNCHANGED run /\ cmd'[p].cfg = file
      /\ \A q \in Proc \ {p} : pc'[q] = pc[q] /\ cmd'[q] = cmd[q]
      /\ volume' = IF cmd'[p].kind = "stop" THEN volume ELSE Uses(volume, file)
  BY LaunchDoes
<1>2. IsVolume(volume) /\ file \in Configs
  BY TypedServer DEF ServerTyped, Typed, TypeOK
<1>3. run[p] = NoLocals
  BY LaunchDoes, CommandHere DEF PlaceOf, Running
<1>4. Setters' \subseteq Setters \union {p}
  BY <1>1 DEF Setters, Running
<1>5. CASE cmd'[p].kind = "stop"
  <2>1. Setters' \subseteq Setters \ {p}
    BY <1>4, <1>5 DEF Setters
  <2>2. volume' = volume
    BY <1>1, <1>5
  <2> QED BY <1>1, <2>1, <2>2 DEF Accounted, Setters, Cfg
<1>6. CASE cmd'[p].kind # "stop"
  <2>1. /\ volume # NoVolume <=> volume' # NoVolume
        /\ volume # NoVolume => volume'.used = volume.used \union {file}
    BY <1>1, <1>2, <1>6, UsesDoes
  <2> QED BY <1>1, <1>3, <1>4, <2>1 DEF Accounted, Setters, Cfg, NoLocals
<1> QED BY <1>1, <1>5, <1>6

LEMMA QuietTyped ==
  ASSUME Typed, Accounted, Edit \/ Crash \/ UNCHANGED vars
  PROVE  Typed' /\ Accounted'
<1>1. Typed' /\ UNCHANGED <<volume, pc, cmd, run>>
  <2>1. CASE UNCHANGED vars
    <3>1. UNCHANGED <<file, volume, container, live, connected, pc, cmd, run, solo, loaded,
                      launches, edits, faults>>
      BY <2>1 DEF vars
    <3>2. TypeOK'
      BY <3>1 DEF Typed, TypeOK, Up
    <3>3. Placed' /\ Backed'
      BY <3>1 DEF Typed, Placed, Backed, KindOf, PlaceOf, ReadOf, Cfg
    <3> QED BY <3>1, <3>2, <3>3 DEF Typed
  <2> QED BY <2>1, EditDoes, CrashDoes
<1> QED BY <1>1 DEF Accounted, Setters, Running, Cfg

LEMMA InitTyped == ASSUME Init PROVE Typed /\ Accounted
<1>1. /\ cmd \in [Proc -> Command] /\ \A p \in Proc : pc[p] = "idle" /\ run[p] = NoLocals
  <2>1. [kind |-> "start", cfg |-> file] \in Command
    BY DEF Init, Command, Kinds
  <2> QED BY <2>1 DEF Init
<1>2. TypeOK
  BY <1>1, BoundAssumption, NoLocalsTyped DEF Init, TypeOK, Up, Resting
<1>3. Placed
  BY <1>1 DEF Placed, KindOf, PlaceOf, ReadOf, StartSteps, UserSteps, DbSteps, StopSteps,
              LineSteps, UsersFirst, PasswordSteps, SslSteps, Resting, NoLocals
<1> QED BY <1>2, <1>3 DEF Typed, Backed, Accounted, Init

LEMMA NextTyped ==
  ASSUME Typed, Accounted, [Next]_vars
  PROVE  Typed' /\ Accounted'
<1>1. CASE UNCHANGED vars
  BY <1>1, QuietTyped
<1>2. CASE Next
  BY <1>2, LaunchTyped, StartTyped, SetupTyped, StopTyped, QuietTyped DEF Next
<1> QED BY <1>1, <1>2

\* Every variable keeps its type, a running server has data and only a running
\* server has clients, whatever commands run into each other.
THEOREM TypeCorrect == Spec => []TypeOK
<1>1. Init => Typed /\ Accounted
  BY InitTyped
<1>2. Typed /\ Accounted /\ [Next]_vars => (Typed /\ Accounted)'
  BY NextTyped
<1>3. Typed => TypeOK
  BY DEF Typed
<1> QED BY <1>1, <1>2, <1>3, PTL DEF Spec

-----------------------------------------------------------------------------
(***************************************************************************)
(* A volume of one file: its lines and its administrator stay that file's. *)
(***************************************************************************)

\* What commands have read of it stays what it was.
LEMMA OneFileKept ==
  ASSUME Typed, Accounted, OneFile, NEW p \in Proc, Stepped(p), Copied(p),
         \A c \in Configs : HasData(volume)' /\ volume'.used = {c} =>
           VolumeOf(c)' /\ (Up' => Lines(c, live'.hba))
  PROVE  OneFile'
<1>1. ASSUME NEW q \in Proc, NEW c \in Configs, run'[q].seen = {c}
      PROVE  Lines(c, run'[q].hba) /\ (run'[q].ssl => c.ssl)
  <2>1. CASE run'[q].seen = run[q].seen /\ run'[q].hba = run[q].hba /\ run'[q].ssl = run[q].ssl
    BY <1>1, <2>1 DEF OneFile, CopyOf
  <2>2. CASE run'[q] = NoLocals
    BY <1>1, <2>2 DEF NoLocals
  <2>3. CASE /\ Up /\ run'[q].seen = volume.used
             /\ run'[q].hba = volume.hba /\ run'[q].ssl = volume.ssl
    <3>1. VolumeOf(c)
      BY <1>1, <2>3, UpHasData DEF OneFile
    <3> QED BY <2>3, <3>1 DEF VolumeOf
  <2>4. CASE q # p
    BY <1>1, <2>1, <2>4 DEF Stepped
  <2> QED BY <2>1, <2>2, <2>3, <2>4 DEF Copied
<1>2. \A q \in Proc : CopyOf(q)'
  BY <1>1 DEF CopyOf
<1> QED BY <1>2 DEF OneFile

\* The steps that leave the volume's data and the server alone.
LEMMA QuietStep ==
  ASSUME Typed, Accounted, OneFile, NEW p \in Proc, Stepped(p), Copied(p),
         live' = live, Up' => Up, volume' = volume \/ ~HasData(volume)'
  PROVE  OneFile'
<1>1. ASSUME NEW c \in Configs, HasData(volume)', volume'.used = {c}
      PROVE  VolumeOf(c)' /\ (Up' => Lines(c, live'.hba))
  <2>1. volume' = volume
    BY <1>1
  <2>2. VolumeOf(c) /\ (Up => Lines(c, live.hba))
    BY <1>1, <2>1 DEF OneFile
  <2> QED BY <2>1, <2>2 DEF VolumeOf
<1> QED BY <1>1, OneFileKept

\* The steps that write something to the volume of a running server.
LEMMA WriteStep ==
  ASSUME Typed, Accounted, OneFile, NEW p \in Proc, Stepped(p), Copied(p), p \in Setters,
         live' = live, container' = container,
         \/ volume' = volume
         \/ /\ Up /\ volume' \in Volume /\ volume'.used = volume.used
            /\ \A c \in Configs :
                 /\ volume.used = {c} /\ Cfg(p) = c /\ VolumeOf(c) /\ run[p].seen \subseteq {c}
                 => VolumeOf(c)'
  PROVE  OneFile'
<1>1. CASE volume' = volume
  BY <1>1, QuietStep DEF Up
<1>2. CASE /\ Up /\ volume' \in Volume /\ volume'.used = volume.used
           /\ \A c \in Configs :
                /\ volume.used = {c} /\ Cfg(p) = c /\ VolumeOf(c) /\ run[p].seen \subseteq {c}
                => VolumeOf(c)'
  <2>1. ASSUME NEW c \in Configs, HasData(volume)', volume'.used = {c}
        PROVE  VolumeOf(c)' /\ (Up' => Lines(c, live'.hba))
    <3>1. HasData(volume) /\ volume # NoVolume /\ volume.used = {c}
      BY <1>2, <2>1, UpHasData
    <3>2. VolumeOf(c) /\ Lines(c, live.hba)
      BY <1>2, <3>1 DEF OneFile
    <3>3. Cfg(p) = c /\ run[p].seen \subseteq {c}
      BY <3>1 DEF Accounted
    <3> QED BY <1>2, <3>1, <3>2, <3>3
  <2> QED BY <2>1, OneFileKept
<1> QED BY <1>1, <1>2

\* Lines that are written to the volume.
LEMMA HbaStep ==
  ASSUME Typed, Accounted, OneFile, NEW p \in Proc, Stepped(p), Copied(p), p \in Setters,
         live' = live, container' = container, NEW hba \in SUBSET Line, WritesHba(hba),
         \A c \in Configs :
           /\ volume.used = {c} /\ Cfg(p) = c /\ run[p].seen \subseteq {c}
           => Lines(c, hba)
  PROVE  OneFile'
<1>1. CASE ~Up
  BY <1>1, WritesHbaDoes, WriteStep
<1>2. CASE Up
  <2>1. volume \in Volume /\ volume' \in Volume /\ volume' = [volume EXCEPT !.hba = hba]
    BY <1>2, UpHasData, WritesHbaDoes
  <2>2. /\ volume'.used = volume.used /\ volume'.hba = hba /\ volume'.ssl = volume.ssl
        /\ volume'.dbs = volume.dbs /\ volume'.pw = volume.pw
    BY <2>1 DEF Volume
  <2>3. ASSUME NEW c \in Configs, volume.used = {c}, Cfg(p) = c, VolumeOf(c),
               run[p].seen \subseteq {c}
        PROVE  VolumeOf(c)'
    BY <2>2, <2>3 DEF VolumeOf
  <2> QED BY <1>2, <2>1, <2>2, <2>3, WriteStep
<1> QED BY <1>1, <1>2

\* Settings that are written to the volume.
LEMMA ConfStep ==
  ASSUME Typed, Accounted, OneFile, NEW p \in Proc, Stepped(p), Copied(p), p \in Setters,
         live' = live, container' = container, NEW ssl \in BOOLEAN, NEW scram \in BOOLEAN,
         WritesConf(ssl, scram),
         \A c \in Configs :
           /\ volume.used = {c} /\ Cfg(p) = c /\ run[p].seen \subseteq {c}
           => (ssl => c.ssl)
  PROVE  OneFile'
<1>1. CASE ~Up
  BY <1>1, WritesConfDoes, WriteStep
<1>2. CASE Up
  <2>1. /\ volume \in Volume /\ volume' \in Volume
        /\ volume' = [volume EXCEPT !.ssl = ssl, !.scram = scram]
    BY <1>2, UpHasData, WritesConfDoes
  <2>2. /\ volume'.used = volume.used /\ volume'.hba = volume.hba /\ volume'.ssl = ssl
        /\ volume'.dbs = volume.dbs /\ volume'.pw = volume.pw
    BY <2>1 DEF Volume
  <2>3. ASSUME NEW c \in Configs, volume.used = {c}, Cfg(p) = c, VolumeOf(c),
               run[p].seen \subseteq {c}
        PROVE  VolumeOf(c)'
    BY <2>2, <2>3 DEF VolumeOf
  <2> QED BY <1>2, <2>1, <2>2, <2>3, WriteStep
<1> QED BY <1>1, <1>2

\* The settings a command read are those of the one file.
LEMMA ReadSettings ==
  ASSUME Typed, OneFile, NEW p \in Proc, NEW c \in Configs, run[p].seen \subseteq {c}
  PROVE  run[p].ssl => c.ssl
BY CommandHere DEF ReadOf, OneFile, CopyOf

\* A random password is only given to a postgres that the file does not list.
LEMMA RandomStep ==
  ASSUME Typed, Accounted, OneFile, NEW p \in Proc, Stepped(p), Copied(p), p \in Setters,
         live' = live, container' = container, Randomised(p),
         Cfg(p).users # << >>, ~InUsers(Cfg(p), "postgres")
  PROVE  OneFile'
<1>1. CASE volume' = volume
  BY <1>1, WriteStep
<1>2. CASE Up /\ volume' \in Volume /\ volume' = [volume EXCEPT !.pw["postgres"] = "random"]
  <2>1. volume \in Volume
    BY <1>2, UpHasData
  <2>2. /\ volume'.used = volume.used /\ volume'.hba = volume.hba /\ volume'.ssl = volume.ssl
        /\ volume'.dbs = volume.dbs
        /\ volume'.pw = [volume.pw EXCEPT !["postgres"] = "random"]
    BY <1>2, <2>1 DEF Volume
  <2>3. ASSUME NEW c \in Configs, volume.used = {c}, Cfg(p) = c, VolumeOf(c),
               run[p].seen \subseteq {c}
        PROVE  VolumeOf(c)'
    <3>1. getAuthUserFromConfig(c).name # "postgres"
      BY <2>3, AdminIs
    <3>2. AdminIn(c, volume.pw)
      BY <2>3 DEF VolumeOf
    <3>3. volume'.pw[getAuthUserFromConfig(c).name] = volume.pw[getAuthUserFromConfig(c).name]
      <4>1. volume.pw \in [Role -> Stored] /\ getAuthUserFromConfig(c).name \in Role
        BY <2>1, AdminIs DEF Volume
      <4> QED BY <2>2, <3>1, <4>1
    <3>4. AdminIn(c, volume'.pw)
      BY <3>2, <3>3 DEF AdminIn
    <3> QED BY <2>2, <2>3, <3>4 DEF VolumeOf
  <2> QED BY <1>2, <2>2, <2>3, WriteStep
<1> QED BY <1>1, <1>2, RandomisedDoes

\* The administrator keeps the password of the file when users are set up.
LEMMA AdminKept ==
  ASSUME NEW c \in Configs, NEW v \in Volume, AdminIn(c, v.pw), NEW u \in ToSet(c.users)
  PROVE  AdminIn(c, WithPassword(v, u).pw)
<1> SUFFICES ASSUME Administers(c)
             PROVE  LET admin == getAuthUserFromConfig(c) IN
                    /\ WithPassword(v, u).pw[admin.name] # "absent"
                    /\ c.auth => WithPassword(v, u).pw[admin.name] = admin.pw
  BY DEF AdminIn
<1> DEFINE admin == getAuthUserFromConfig(c)
           new == PasswordAfterSync(u, v.pw[u.name])
<1>1. v.pw[admin.name] # "absent" /\ (c.auth => v.pw[admin.name] = admin.pw)
  BY DEF AdminIn
<1>2. u \in User /\ u.name \in Role /\ u.pw \in Password \union {""} /\ admin.name \in Role
  <2>1. u \in User
    BY FileTypes
  <2>2. admin.name \in Role
    BY AdminIs
  <2> HIDE DEF admin
  <2> QED BY <2>1, <2>2 DEF User
<1>3. WithPassword(v, u).pw = [v.pw EXCEPT ![u.name] = new] /\ v.pw \in [Role -> Stored]
  BY <1>2, WithPasswordDoes DEF Volume
<1>4. new # "absent"
  BY <1>2, NameAssumption DEF PasswordAfterSync
<1>5. c.auth /\ u.name = admin.name => new = admin.pw
  <2>1. c.auth /\ u.name = admin.name => u.pw = admin.pw /\ admin.pw # ""
    BY AdminIs
  <2> HIDE DEF admin
  <2> QED BY <2>1 DEF PasswordAfterSync
<1> HIDE DEF admin, new
<1> QED BY <1>1, <1>2, <1>3, <1>4, <1>5 DEF admin

LEMMA SyncUserStep ==
  ASSUME Typed, Accounted, OneFile, NEW p \in Proc, SyncUser(p), p \in Setters
  PROVE  OneFile'
<1>1. /\ Onward(p, {"sync"}, {"sync", "failed"}) /\ UNCHANGED <<container, live>>
      /\ run[p].at \in DOMAIN Cfg(p).users
      /\ p \notin connected => volume' = volume
      /\ p \in connected => /\ Up /\ volume' \in Volume
                            /\ volume'.hba = volume.hba /\ volume'.ssl = volume.ssl
                            /\ volume'.dbs = volume.dbs /\ volume'.used = volume.used
                            /\ volume'.pw = WithPassword(volume, Here(p)).pw
  BY SyncUserDoes
<1>2. ASSUME NEW c \in Configs, volume.used = {c}, Cfg(p) = c, VolumeOf(c), p \in connected
      PROVE  VolumeOf(c)'
  <2>1. Here(p) \in ToSet(c.users) /\ volume \in Volume
    BY <1>1, <1>2, FileTypes, UpHasData DEF Here
  <2>2. AdminIn(c, volume'.pw)
    BY <1>1, <1>2, <2>1, AdminKept DEF VolumeOf
  <2> QED BY <1>1, <1>2, <2>2 DEF VolumeOf
<1> QED BY <1>1, <1>2, WriteStep DEF Onward

\* The image sets up what the file asks for.
LEMMA RunContainerStep ==
  ASSUME Typed, Accounted, OneFile, NEW p \in Proc, RunContainer(p), p \in Setters
  PROVE  OneFile'
<1>1. /\ Onward(p, {"run"}, {"ready", "failed"})
      /\ container.state # "none" => UNCHANGED <<volume, container, live>>
      /\ container.state = "none" => Boot(VolumeToRun(p), Cfg(p).ssl) /\ VolumeToRun(p) \in Volume
  BY RunContainerDoes
<1>2. CASE container.state # "none"
  BY <1>1, <1>2, QuietStep DEF Onward, Up
<1>3. CASE container.state = "none"
  <2> DEFINE v == IF volume = NoVolume THEN NewVolume ELSE volume
  <2>1. volume' = VolumeToRun(p) /\ (Up' => live'.hba = VolumeToRun(p).hba)
    BY <1>1, <1>3, CommandHere, FileTypes, BootDoes
  <2>2. IsVolume(v) /\ v # NoVolume /\ v.used \in SUBSET Configs
    BY TypedServer, NewVolumeDoes, DataIsVolume DEF ServerTyped
  <2>3. Cfg(p) \in v.used
    BY NewVolumeDoes DEF Accounted
  <2>4. ASSUME NEW c \in Configs, HasData(volume)', volume'.used = {c}
        PROVE  VolumeOf(c)' /\ (Up' => Lines(c, live'.hba))
    <3>1. CASE HasData(v)
      <4>1. volume' = volume /\ HasData(volume)
        BY <2>1, <3>1, NewVolumeDoes DEF VolumeToRun
      <4>2. VolumeOf(c)
        BY <2>4, <4>1 DEF OneFile
      <4>3. VolumeOf(c)'
        BY <4>1, <4>2 DEF VolumeOf
      <4> QED BY <2>1, <4>1, <4>2, <4>3 DEF VolumeOf
    <3>2. CASE ~HasData(v)
      <4>1. volume' = buildDockerEnvVars(Cfg(p), v)
        BY <2>1, <3>2 DEF VolumeToRun
      <4>2. v.used = {c} /\ Cfg(p) = c
        <5>1. buildDockerEnvVars(Cfg(p), v).used = v.used
          BY <2>2, CommandHere, ImageDoes
        <5> HIDE DEF v
        <5> QED BY <2>3, <2>4, <4>1, <5>1
      <4>3. /\ volume'.hba = DefaultLines(c.auth) /\ volume'.ssl = FALSE
            /\ {"postgres", FirstDb(c)} \subseteq volume'.dbs
            /\ AdminIn(c, volume'.pw)
        BY <2>2, <4>1, <4>2, ImageDoes
      <4>4. VolumeOf(c)'
        BY <4>3 DEF VolumeOf, Lines
      <4> QED BY <2>1, <4>3, <4>4 DEF Lines
    <3> QED BY <3>1, <3>2
  <2> QED BY <1>1, <2>4, OneFileKept DEF Onward
<1> QED BY <1>2, <1>3

\* The server loads what is on the volume.
LEMMA LoadStep ==
  ASSUME Typed, Accounted, OneFile, NEW p \in Proc, Stepped(p), Copied(p), volume' = volume,
         Up' => live'.hba = volume.hba
  PROVE  OneFile'
<1>1. ASSUME NEW c \in Configs, HasData(volume)', volume'.used = {c}
      PROVE  VolumeOf(c)' /\ (Up' => Lines(c, live'.hba))
  <2>1. VolumeOf(c)
    BY <1>1 DEF OneFile
  <2> QED BY <2>1 DEF VolumeOf
<1> QED BY <1>1, OneFileKept

LEMMA SettersHere ==
  ASSUME Typed, NEW p \in Proc, pc[p] \in StartSteps \union UserSteps \union DbSteps
  PROVE  p \in Setters
BY CommandHere DEF KindOf, Setters, Running, Resting, StartSteps, UserSteps, DbSteps

LEMMA StartOneFile ==
  ASSUME Typed, Accounted, OneFile, NEW p \in Proc, Start(p)
  PROVE  OneFile'
<1>1. CASE VolumeRemove(p)
  <2>1. /\ Onward(p, {"volumeRemove"}, {"volumeCreate"}) /\ UNCHANGED <<container, live>>
        /\ volume' = volume \/ volume' = NoVolume
    BY <1>1, VolumeRemoveDoes
  <2> QED BY <2>1, QuietStep, VolumeKinds DEF Onward, Up
<1>2. CASE VolumeCreate(p)
  <2>1. /\ Onward(p, {"volumeCreate"}, {"inspect"}) /\ UNCHANGED <<container, live>>
        /\ volume' = volume \/ volume' = NewVolume
    BY <1>2, VolumeCreateDoes
  <2> QED BY <2>1, QuietStep, NewVolumeDoes DEF Onward, Up
<1>3. CASE Inspect(p)
  <2>1. /\ Onward(p, {"inspect"}, {"ready", "remove"}) /\ UNCHANGED <<volume, container, live>>
    BY <1>3, InspectDoes
  <2> QED BY <2>1, QuietStep DEF Onward, Up
<1>4. CASE RemoveContainer(p)
  <2>1. /\ Onward(p, {"remove"}, {"run", "failed"}) /\ UNCHANGED <<volume, live>>
        /\ container' = IF Up THEN container ELSE [state |-> "none", certs |-> FALSE]
    BY <1>4, RemoveContainerDoes
  <2> QED BY <2>1, QuietStep DEF Onward, Up
<1>5. CASE RunContainer(p)
  <2>1. pc[p] = "run"
    BY <1>5 DEF RunContainer
  <2> QED BY <1>5, <2>1, SettersHere, RunContainerStep DEF StartSteps
<1>6. CASE WaitForReady(p)
  <2>1. /\ UNCHANGED <<volume, container, live>>
        /\ Onward(p, {"ready"}, {"readSsl", "alter", "readConf", "syncHba", "done", "failed"})
    BY <1>6, WaitForReadyDoes
  <2> QED BY <2>1, QuietStep DEF Onward, Up
<1>7. CASE AlterPostgres(p)
  <2>1. /\ Onward(p, {"alter"}, {"readConf", "failed"}) /\ UNCHANGED <<container, live>>
        /\ Randomised(p)
    BY <1>7, AlterPostgresDoes
  <2>2. p \in Setters /\ Cfg(p).users # << >> /\ ~InUsers(Cfg(p), "postgres")
    BY <2>1, SettersHere, CommandHere DEF Onward, PlaceOf, StartSteps, LineSteps, PasswordSteps
  <2> QED BY <2>1, <2>2, RandomStep DEF Onward
<1>8. CASE ReadConf(p)
  <2>1. /\ Onward(p, {"readConf"}, {"syncHba", "writeConf", "failed"})
        /\ UNCHANGED <<volume, container, live>>
    BY <1>8, ReadConfDoes
  <2> QED BY <2>1, QuietStep DEF Onward, Up
<1>9. CASE WriteConf(p)
  <2>1. /\ Onward(p, {"writeConf"}, {"syncHba", "failed"}) /\ WritesConf(run[p].ssl, TRUE)
        /\ UNCHANGED <<container, live>>
    BY <1>9, WriteConfDoes
  <2>2. p \in Setters /\ run[p].ssl \in BOOLEAN
    BY <2>1, SettersHere, CommandHere DEF Onward, StartSteps, Locals
  <2> QED BY <2>1, <2>2, ConfStep, ReadSettings DEF Onward
<1>10. CASE SyncHba(p)
  <2>1. /\ UNCHANGED <<volume, container, live>>
        /\ Onward(p, {"syncHba"}, {"writeHba", "reload", "readSsl", "done", "failed"})
    BY <1>10, SyncHbaDoes
  <2> QED BY <2>1, QuietStep DEF Onward, Up
<1>11. CASE WriteHba(p)
  <2>1. /\ Onward(p, {"writeHba"}, {"reload", "failed"}) /\ WritesHba(Expected(p))
        /\ UNCHANGED <<container, live>>
    BY <1>11, WriteHbaDoes
  <2>2. p \in Setters /\ Cfg(p).users # << >> /\ Expected(p) \in SUBSET Line
    BY <2>1, SettersHere, CommandHere, LineTypes
    DEF Onward, PlaceOf, StartSteps, LineSteps, Expected
  <2> QED BY <2>1, <2>2, HbaStep DEF Onward, Lines, Expected
<1>12. CASE ReadSsl(p)
  <2>1. /\ UNCHANGED <<volume, container, live>>
        /\ Onward(p, {"readSsl"}, {"writeSslConf", "writeSslHba", "done", "failed"})
    BY <1>12, ReadSslDoes
  <2> QED BY <2>1, QuietStep DEF Onward, Up
<1>13. CASE WriteSslConf(p)
  <2>1. /\ WritesConf(TRUE, run[p].scram) /\ UNCHANGED <<container, live>>
        /\ run[p].scram \in BOOLEAN
        /\ Onward(p, {"writeSslConf"}, {"writeSslHba", "restart", "done", "failed"})
    BY <1>13, WriteSslConfDoes
  <2>2. p \in Setters /\ Cfg(p).ssl
    BY <2>1, SettersHere, CommandHere DEF Onward, PlaceOf, StartSteps, SslSteps
  <2> QED BY <2>1, <2>2, ConfStep DEF Onward
<1>14. CASE WriteSslHba(p)
  <2>1. /\ WritesHba(hbaWithSSL(run[p].hba)) /\ UNCHANGED <<container, live>>
        /\ Onward(p, {"writeSslHba"}, {"reloadSsl", "restart", "done", "failed"})
    BY <1>14, WriteSslHbaDoes
  <2>2. p \in Setters /\ Cfg(p).ssl /\ run[p].seen # {}
    BY <2>1, SettersHere, CommandHere DEF Onward, PlaceOf, ReadOf, StartSteps, SslSteps
  <2>3. run[p].hba \in SUBSET Line /\ hbaWithSSL(run[p].hba) \in SUBSET Line
    BY CommandHere, LineTypes DEF Locals
  <2>4. ASSUME NEW c \in Configs, Cfg(p) = c, run[p].seen \subseteq {c}
        PROVE  Lines(c, hbaWithSSL(run[p].hba))
    <3>1. run[p].seen = {c}
      BY <2>2, <2>4
    <3>2. Lines(c, run[p].hba)
      BY <3>1 DEF OneFile, CopyOf
    <3> QED BY <2>2, <2>3, <2>4, <3>2, LinesWithSSL
  <2> QED BY <2>1, <2>2, <2>3, <2>4, HbaStep DEF Onward
<1>15. CASE Restart(p)
  <2>1. /\ Onward(p, {"restart"}, {"readySsl", "failed"})
        /\ container.state = "none" => UNCHANGED <<volume, container, live>>
        /\ container.state # "none" => Boot(volume, container.certs) /\ volume \in Volume
                                       /\ container.certs \in BOOLEAN
    BY <1>15, RestartDoes
  <2>2. CASE container.state = "none"
    BY <2>1, <2>2, QuietStep DEF Onward, Up
  <2>3. CASE container.state # "none"
    <3>1. volume' = volume /\ (Up' => live'.hba = volume.hba)
      BY <2>1, <2>3, BootDoes
    <3> QED BY <2>1, <3>1, LoadStep DEF Onward
  <2> QED BY <2>2, <2>3
<1>16. CASE WaitForReadySsl(p)
  <2>1. /\ Onward(p, {"readySsl"}, {"done", "failed"}) /\ UNCHANGED <<volume, container, live>>
    BY <1>16, WaitForReadySslDoes
  <2> QED BY <2>1, QuietStep DEF Onward, Up
<1> QED BY <1>1, <1>2, <1>3, <1>4, <1>5, <1>6, <1>7, <1>8, <1>9, <1>10, <1>11, <1>12, <1>13,
           <1>14, <1>15, <1>16 DEF Start

LEMMA SetupOneFile ==
  ASSUME Typed, Accounted, OneFile, NEW p \in Proc, Reload(p) \/ SetupUsers(p) \/ SetupDbs(p)
  PROVE  OneFile'
<1>1. CASE Reload(p)
  <2>1. /\ UNCHANGED <<volume, container>>
        /\ Onward(p, {"reload", "reloadSsl", "reloadTrust", "reloadUsers"},
                  {"readSsl", "sync", "randomise", "done", "failed"})
        /\ IF p \in connected THEN pgReloadConf ELSE UNCHANGED live
    BY <1>1, ReloadDoes
  <2>2. CASE p \in connected
    BY <2>1, <2>2, LoadStep DEF Onward, pgReloadConf
  <2>3. CASE p \notin connected
    BY <2>1, <2>3, QuietStep DEF Onward, Up
  <2> QED BY <2>2, <2>3
<1>2. CASE ConnectForUsers(p)
  <2>1. /\ Onward(p, {"connect"}, {"snapshot", "done", "failed"})
        /\ UNCHANGED <<volume, container, live>>
    BY <1>2, ConnectForUsersDoes
  <2> QED BY <2>1, QuietStep DEF Onward, Up
<1>3. CASE ReadSnapshot(p)
  <2>1. Onward(p, {"snapshot"}, {"trustHba", "sync"}) /\ UNCHANGED <<volume, container, live>>
    BY <1>3, ReadSnapshotDoes
  <2> QED BY <2>1, QuietStep DEF Onward, Up
<1>4. CASE WriteUsersHba(p)
  <2>1. /\ WritesHba(Expected(p)) /\ UNCHANGED <<container, live>>
        /\ Onward(p, {"trustHba", "scramHba", "updateHba"},
                  {"reloadTrust", "scramConf", "reloadUsers", "failed"})
    BY <1>4, WriteUsersHbaDoes
  <2>2. p \in Setters /\ Cfg(p).users # << >> /\ Expected(p) \in SUBSET Line
    BY <2>1, SettersHere, CommandHere, LineTypes
    DEF Onward, PlaceOf, UserSteps, LineSteps, Expected
  <2> QED BY <2>1, <2>2, HbaStep DEF Onward, Lines, Expected
<1>5. CASE WriteUsersConf(p)
  <2>1. /\ Onward(p, {"scramConf"}, {"reloadUsers", "failed"}) /\ UNCHANGED <<container, live>>
        /\ WritesConf(run[p].ssl, TRUE)
    BY <1>5, WriteUsersConfDoes
  <2>2. p \in Setters /\ run[p].ssl \in BOOLEAN
    BY <2>1, SettersHere, CommandHere DEF Onward, UserSteps, Locals
  <2> QED BY <2>1, <2>2, ConfStep, ReadSettings DEF Onward
<1>6. CASE SyncUser(p)
  <2>1. pc[p] = "sync"
    BY <1>6 DEF SyncUser
  <2> QED BY <1>6, <2>1, SettersHere, SyncUserStep DEF UserSteps
<1>7. CASE UsersSynced(p)
  <2>1. /\ UNCHANGED <<volume, container, live>>
        /\ Onward(p, {"sync"}, {"scramHba", "updateHba", "randomise", "done"})
    BY <1>7, UsersSyncedDoes
  <2> QED BY <2>1, QuietStep DEF Onward, Up
<1>8. CASE RandomisePostgres(p)
  <2>1. /\ Onward(p, {"randomise"}, {"done", "failed"}) /\ UNCHANGED <<container, live>>
        /\ Randomised(p)
    BY <1>8, RandomisePostgresDoes
  <2>2. p \in Setters /\ Cfg(p).users # << >> /\ ~InUsers(Cfg(p), "postgres")
    BY <2>1, SettersHere, CommandHere DEF Onward, PlaceOf, UserSteps, LineSteps
  <2> QED BY <2>1, <2>2, RandomStep DEF Onward
<1>9. CASE ConnectForDbs(p)
  <2>1. /\ Onward(p, {"connectDbs"}, {"createDbs", "done", "failed"})
        /\ UNCHANGED <<volume, container, live>>
    BY <1>9, ConnectForDbsDoes
  <2> QED BY <2>1, QuietStep DEF Onward, Up
<1>10. CASE CreateDatabase(p)
  <2>1. /\ Onward(p, {"createDbs"}, {"createDbs", "done", "failed"}) /\ UNCHANGED <<container, live>>
        /\ \/ volume' = volume
           \/ /\ Up /\ volume' \in Volume
              /\ volume'.hba = volume.hba /\ volume'.ssl = volume.ssl /\ volume'.pw = volume.pw
              /\ volume.dbs \subseteq volume'.dbs /\ volume'.used = volume.used
    BY <1>10, CreateDatabaseDoes
  <2>2. p \in Setters
    BY <2>1, SettersHere DEF Onward, DbSteps
  <2>3. CASE volume' = volume
    BY <2>1, <2>3, QuietStep DEF Onward, Up
  <2>4. CASE /\ Up /\ volume' \in Volume
             /\ volume'.hba = volume.hba /\ volume'.ssl = volume.ssl /\ volume'.pw = volume.pw
             /\ volume.dbs \subseteq volume'.dbs /\ volume'.used = volume.used
    <3>1. ASSUME NEW c \in Configs, VolumeOf(c) PROVE VolumeOf(c)'
      BY <2>4, <3>1 DEF VolumeOf
    <3> QED BY <2>1, <2>2, <2>4, <3>1, WriteStep DEF Onward
  <2> QED BY <2>1, <2>3, <2>4
<1> QED BY <1>1, <1>2, <1>3, <1>4, <1>5, <1>6, <1>7, <1>8, <1>9, <1>10 DEF SetupUsers, SetupDbs

LEMMA StopOneFile ==
  ASSUME Typed, Accounted, OneFile, NEW p \in Proc, Stop(p) \/ Kill(p)
  PROVE  OneFile'
<1>1. CASE FindContainer(p)
  <2>1. Onward(p, {"find"}, {"done", "stop", "rm"}) /\ UNCHANGED <<volume, container, live>>
    BY <1>1, FindContainerDoes
  <2> QED BY <2>1, QuietStep DEF Onward, Up
<1>2. CASE StopContainer(p)
  <2>1. Onward(p, {"stop"}, {"rm", "failed"}) /\ UNCHANGED <<volume, live>> /\ ~Up'
    BY <1>2, StopContainerDoes
  <2> QED BY <2>1, QuietStep DEF Onward
<1>3. CASE RemoveStopped(p)
  <2>1. Onward(p, {"rm"}, {"volumeRm", "done"}) /\ UNCHANGED <<volume, live>> /\ (Up' <=> Up)
    BY <1>3, RemoveStoppedDoes
  <2> QED BY <2>1, QuietStep DEF Onward
<1>4. CASE RemoveVolume(p)
  <2>1. /\ Onward(p, {"volumeRm"}, {"done"}) /\ UNCHANGED <<container, live>>
        /\ volume' = volume \/ volume' = NoVolume
    BY <1>4, RemoveVolumeDoes
  <2> QED BY <2>1, QuietStep, VolumeKinds DEF Onward, Up
<1>5. CASE Kill(p)
  <2>1. Onward(p, Steps, {"failed"}) /\ UNCHANGED <<volume, container, live>>
    BY <1>5, KillDoes
  <2> QED BY <2>1, QuietStep DEF Onward, Up
<1> QED BY <1>1, <1>2, <1>3, <1>4, <1>5 DEF Stop

\* A volume in use by one file was in use by no other one before.
LEMMA LaunchOneFile ==
  ASSUME Typed, Accounted, OneFile, NEW p \in Proc, Launch(p)
  PROVE  OneFile'
<1>1. /\ UNCHANGED <<run, container, live>>
      /\ volume' = volume \/ volume' = Uses(volume, file)
  BY LaunchDoes
<1>2. IsVolume(volume) /\ file \in Configs
  BY TypedServer DEF ServerTyped, Typed, TypeOK
<1>3. ASSUME NEW c \in Configs, HasData(volume)', volume'.used = {c}
      PROVE  VolumeOf(c)' /\ (Up' => Lines(c, live'.hba))
  <2>1. CASE volume' = volume
    <3>1. VolumeOf(c) /\ (Up => Lines(c, live.hba))
      BY <1>3, <2>1 DEF OneFile
    <3> QED BY <1>1, <2>1, <3>1 DEF VolumeOf, Up
  <2>2. CASE volume' = Uses(volume, file)
    <3>1. /\ HasData(volume) /\ volume # NoVolume /\ volume'.used = volume.used \union {file}
          /\ volume'.hba = volume.hba /\ volume'.ssl = volume.ssl
          /\ volume'.pw = volume.pw /\ volume'.dbs = volume.dbs
      BY <1>2, <1>3, <2>2, UsesDoes, VolumeKinds
    <3>2. volume.used = {c}
      BY <1>3, <3>1 DEF Accounted
    <3>3. VolumeOf(c) /\ (Up => Lines(c, live.hba))
      BY <3>1, <3>2 DEF OneFile
    <3> QED BY <1>1, <3>1, <3>3 DEF VolumeOf, Up
  <2> QED BY <1>1, <2>1, <2>2
<1>4. \A q \in Proc : CopyOf(q)'
  BY <1>1 DEF OneFile, CopyOf
<1> QED BY <1>3, <1>4 DEF OneFile

LEMMA QuietOneFile ==
  ASSUME Typed, OneFile, Edit \/ Crash \/ UNCHANGED vars
  PROVE  OneFile'
<1>1. UNCHANGED <<volume, live, run>> /\ (Up' => Up)
  <2>1. CASE UNCHANGED vars
    BY <2>1 DEF vars, Up
  <2> QED BY <2>1, EditDoes, CrashDoes DEF Up
<1> QED BY <1>1 DEF OneFile, CopyOf, VolumeOf

LEMMA InitOneFile == ASSUME Init PROVE OneFile
<1>1. ~HasData(volume) /\ \A p \in Proc : run[p] = NoLocals
  BY VolumeKinds DEF Init
<1> QED BY <1>1 DEF OneFile, CopyOf, NoLocals

LEMMA NextOneFile ==
  ASSUME Typed, Accounted, OneFile, [Next]_vars
  PROVE  OneFile'
<1>1. CASE UNCHANGED vars
  BY <1>1, QuietOneFile
<1>2. CASE Next
  BY <1>2, LaunchOneFile, StartOneFile, SetupOneFile, StopOneFile, QuietOneFile DEF Next
<1> QED BY <1>1, <1>2

\* The modes a command tries.
LEMMA ModesAre ==
  ASSUME NEW c
  PROVE  ToSet(getPostgresConnectionSslModesToTry(c)) = IF c.ssl THEN {FALSE, TRUE} ELSE {FALSE}
<1> DEFINE plain == <<FALSE>>
           both == <<FALSE, TRUE>>
<1>1. DOMAIN plain = {1} /\ plain[1] = FALSE
  OBVIOUS
<1>2. DOMAIN both = {1, 2} /\ both[1] = FALSE /\ both[2] = TRUE
  OBVIOUS
<1>3. getPostgresConnectionSslModesToTry(c) = IF c.ssl THEN both ELSE plain
  BY DEF getPostgresConnectionSslModesToTry
<1> HIDE DEF plain, both
<1>4. ToSet(plain) = {FALSE}
  <2>1. \A x : x \in {plain[i] : i \in {1}} <=> x = plain[1]
    OBVIOUS
  <2> QED BY <1>1, <2>1 DEF ToSet
<1>5. ToSet(both) = {FALSE, TRUE}
  BY <1>2 DEF ToSet
<1> QED BY <1>3, <1>4, <1>5

\* The lines of the one file let its administrator in, and the password is theirs.
LEMMA OneFileLetsIn ==
  ASSUME Typed, OneFile
  PROVE  AdminGetsIn
<1> SUFFICES ASSUME NEW c \in Configs, Up, volume.used = {c}, Administers(c)
             PROVE  GetsIn(c, "postgres") \/ (c.ssl /\ ~live.ssl)
  BY DEF AdminGetsIn
<1> DEFINE admin == getAuthUserFromConfig(c)
<1>1. VolumeOf(c) /\ Lines(c, live.hba)
  BY UpHasData DEF OneFile
<1>2. live.hba \in SUBSET Line /\ live.ssl \in BOOLEAN
  BY TypedServer DEF ServerTyped
<1>3. PICK l \in live.hba :
        /\ l.type \in (IF c.ssl THEN {"host", "hostssl"} ELSE {"host"})
        /\ l.db \in {"all", "postgres"} /\ l.user \in {"all", admin.name}
        /\ l.from = "any" /\ (l.method = "scram" => c.auth)
  BY <1>1, <1>2, LetsIn
<1>4. /\ volume.pw[admin.name] # "absent" /\ "postgres" \in volume.dbs
      /\ c.auth => admin.pw # "" /\ admin.pw = volume.pw[admin.name]
  BY <1>1, AdminIs DEF VolumeOf, AdminIn
<1> HIDE DEF admin
<1>5. ASSUME NEW ssl \in BOOLEAN, ssl => live.ssl,
             l.type \in (IF ssl THEN {"host", "hostssl"} ELSE {"host"})
      PROVE  Accepts(volume, admin, "postgres", ssl)
  BY <1>3, <1>4, <1>5 DEF Accepts
<1>6. /\ FALSE \in ToSet(getPostgresConnectionSslModesToTry(c))
      /\ c.ssl => TRUE \in ToSet(getPostgresConnectionSslModesToTry(c))
  BY ModesAre
<1>7. CASE l.type = "host"
  <2>1. Accepts(volume, admin, "postgres", FALSE)
    BY <1>5, <1>7
  <2> QED BY <1>6, <2>1 DEF GetsIn, ModesIn, admin
<1>8. CASE l.type # "host" /\ live.ssl
  <2>1. c.ssl /\ Accepts(volume, admin, "postgres", TRUE)
    BY <1>3, <1>5, <1>8
  <2> QED BY <1>6, <2>1 DEF GetsIn, ModesIn, admin
<1> QED BY <1>3, <1>7, <1>8

\* However many commands with one file overlap and wherever they are interrupted,
\* the user they connect as is let in, but for a switch to SSL under way.
THEOREM AdminAlwaysGetsIn == Spec => []AdminGetsIn
<1> DEFINE IInv == Typed /\ Accounted /\ OneFile
<1>1. Init => IInv
  BY InitTyped, InitOneFile
<1>2. IInv /\ [Next]_vars => IInv'
  BY NextTyped, NextOneFile
<1>3. IInv => AdminGetsIn
  BY OneFileLetsIn
<1> QED BY <1>1, <1>2, <1>3, PTL DEF Spec

-----------------------------------------------------------------------------
(***************************************************************************)
(* A command that is alone finds things as it left them.                   *)
(***************************************************************************)

LEMMA AloneKept ==
  ASSUME Typed, Alone, NEW p \in Proc, Running(p), Stepped(p),
         solo[p] /\ Undisturbed(p) /\ Running(p)' => Undisturbed(p)'
  PROVE  Alone'
<1>1. ASSUME NEW q \in Proc, solo'[q], Running(q)' PROVE q = p /\ solo[p]
  <2>1. solo[q] /\ (q # p => Running(q))
    BY <1>1 DEF Stepped, callVars, Running
  <2> QED BY <2>1 DEF Alone, AloneOf
<1>2. ASSUME solo[p] PROVE (\A q \in Proc \ {p} : ~Running(q)') /\ Undisturbed(p)
  BY <1>2 DEF Alone, AloneOf, Stepped, Running
<1> QED BY <1>1, <1>2 DEF Alone, AloneOf

\* Where a command depends on nothing.
LEMMA NotDisturbed ==
  ASSUME Typed', NEW p \in Proc,
         pc'[p] \in {"connect"} \union DbSteps \union StopSteps \union Resting
  PROVE  Undisturbed(p)'
<1>1. ~run'[p].fresh
  BY DEF Typed, Placed, PlaceOf, ReadOf, NoLocals, StartSteps, DbSteps, StopSteps, Resting
<1> QED BY <1>1 DEF Undisturbed, Connected, UserSteps, DbSteps, StopSteps, Resting

\* A step that does no more than to go on with its client.
LEMMA GoesOnAlone ==
  ASSUME Typed, Alone, NEW p \in Proc, Running(p), Stepped(p), Typed',
         UNCHANGED <<container, live>>, (volume' = volume \/ (Up /\ volume'.ssl = volume.ssl)),
         pc'[p] \notin Resting => connected' = connected,
         pc[p] \in Connected,
         pc'[p] \in (Connected \ {"writeSslHba", "reloadSsl", "restart"}) \union Resting,
         pc'[p] \notin Resting => run'[p].fresh = run[p].fresh
  PROVE  Alone'
<1>1. ASSUME pc'[p] \in Resting PROVE Undisturbed(p)'
  BY <1>1, NotDisturbed
<1>2. ASSUME Undisturbed(p), pc'[p] \notin Resting PROVE Undisturbed(p)'
  <2>1. Cfg(p)' = Cfg(p)
    BY DEF Stepped, callVars, Cfg
  <2>2. /\ pc'[p] \in Connected /\ p \in connected' /\ run'[p].fresh = run[p].fresh
        /\ run[p].fresh => container.certs = Cfg(p).ssl
    BY <1>2 DEF Undisturbed
  <2> QED BY <1>2, <2>1, <2>2 DEF Undisturbed, Connected, UserSteps, Early, Up
<1> QED BY <1>1, <1>2, AloneKept

LEMMA StartAlone ==
  ASSUME Typed, Accounted, OneFile, Alone, NEW p \in Proc, Start(p)
  PROVE  Alone'
<1>1. ASSUME Undisturbed(p), Stepped(p), container' = container, run'[p] = run[p],
             pc'[p] \in {"volumeCreate", "inspect"}, pc[p] \in Early
      PROVE  Undisturbed(p)'
  BY <1>1 DEF Undisturbed, Connected, UserSteps, Early, Stepped, callVars, Cfg
<1>2. CASE VolumeRemove(p) \/ VolumeCreate(p)
  <2>1. /\ container' = container /\ run'[p] = run[p] /\ pc[p] \in Early /\ Stepped(p)
        /\ pc'[p] \in {"volumeCreate", "inspect"}
    BY <1>2, VolumeRemoveDoes, VolumeCreateDoes DEF Onward, Early
  <2>2. Running(p)
    BY <2>1 DEF Early, Running, Resting
  <2> QED BY <1>1, <2>1, <2>2, AloneKept
<1>3. CASE Inspect(p)
  <2>1. /\ Onward(p, {"inspect"}, {"ready", "remove"}) /\ run'[p] = run[p]
        /\ pc'[p] = IF Up THEN "ready" ELSE "remove"
        /\ UNCHANGED <<volume, container, live, connected>>
    BY <1>3, InspectDoes
  <2>2. Running(p) /\ Stepped(p)
    BY <2>1, OnwardRuns DEF Steps
  <2>3. ASSUME Undisturbed(p) PROVE Undisturbed(p)'
    <3>1. ~run'[p].fresh
      BY <2>1, <2>3, CommandHere DEF Onward, Undisturbed, Early, Locals
    <3> QED BY <2>1, <3>1 DEF Undisturbed, Connected, UserSteps, Up
  <2> QED BY <2>2, <2>3, AloneKept
<1>4. CASE RemoveContainer(p)
  <2>1. /\ Typed' /\ Onward(p, {"remove"}, {"run", "failed"})
        /\ pc'[p] = IF Up THEN "failed" ELSE "run"
        /\ run'[p] = IF Up THEN NoLocals ELSE run[p]
        /\ container' = IF Up THEN container ELSE [state |-> "none", certs |-> FALSE]
    BY <1>4, RemoveContainerDoes
  <2>2. Running(p) /\ Stepped(p)
    BY <2>1, OnwardRuns DEF Steps
  <2>3. ASSUME Undisturbed(p) PROVE Undisturbed(p)'
    <3>1. ~Up /\ pc'[p] = "run" /\ run'[p] = run[p] /\ container'.state = "none"
      BY <2>1, <2>3 DEF Onward, Undisturbed
    <3>2. ~run'[p].fresh
      BY <2>1, <2>3, <3>1, CommandHere DEF Onward, Undisturbed, Early, Locals
    <3> QED BY <3>1, <3>2 DEF Undisturbed, Connected, UserSteps
  <2> QED BY <2>2, <2>3, AloneKept
<1>5. CASE RunContainer(p)
  <2>1. /\ Typed' /\ Onward(p, {"run"}, {"ready", "failed"})
        /\ pc'[p] = IF container.state # "none" THEN "failed" ELSE "ready"
        /\ container.state = "none" => Boot(VolumeToRun(p), Cfg(p).ssl) /\ VolumeToRun(p) \in Volume
    BY <1>5, RunContainerDoes
  <2>2. Running(p) /\ Stepped(p) /\ Cfg(p) \in Configs /\ Cfg(p)' = Cfg(p)
    BY <2>1, OnwardRuns, CommandHere DEF Steps, Stepped, callVars, Cfg
  <2>3. ASSUME Undisturbed(p), pc'[p] = "ready" PROVE Undisturbed(p)'
    <3> DEFINE v == IF volume = NoVolume THEN NewVolume ELSE volume
    <3>1. container.state = "none" /\ Cfg(p).ssl \in BOOLEAN
      BY <2>1, <2>2, <2>3, FileTypes
    <3>2. /\ volume' = VolumeToRun(p) /\ container'.certs = Cfg(p).ssl
          /\ Up' <=> (VolumeToRun(p).ssl => Cfg(p).ssl)
      BY <2>1, <3>1, BootDoes
    <3>3. ASSUME volume'.used = {Cfg(p)} PROVE VolumeToRun(p).ssl => Cfg(p).ssl
      <4>1. CASE HasData(v)
        <5>1. volume' = volume /\ HasData(volume)
          BY <3>2, <4>1, NewVolumeDoes DEF VolumeToRun
        <5> QED BY <2>2, <3>2, <3>3, <5>1 DEF OneFile, VolumeOf
      <4>2. CASE ~HasData(v)
        <5>1. VolumeToRun(p) = buildDockerEnvVars(Cfg(p), v)
          BY <4>2 DEF VolumeToRun
        <5>2. v.used \in SUBSET Configs
          BY NewVolumeDoes, TypedServer, DataIsVolume DEF ServerTyped
        <5> HIDE DEF v
        <5> QED BY <2>2, <5>1, <5>2, ImageDoes
      <4> QED BY <4>1, <4>2
    <3> QED BY <2>2, <2>3, <3>2, <3>3 DEF Undisturbed, Connected, UserSteps, Early
  <2>4. ASSUME pc'[p] = "failed" PROVE Undisturbed(p)'
    BY <2>1, <2>4, NotDisturbed DEF Resting
  <2> QED BY <2>1, <2>2, <2>3, <2>4, AloneKept
<1>6. CASE WaitForReady(p)
  <2>1. /\ Typed' /\ UNCHANGED <<volume, container, live>>
        /\ Onward(p, {"ready"}, {"readSsl", "alter", "readConf", "syncHba", "done", "failed"})
        /\ run'[p] = IF pc'[p] \in Resting THEN NoLocals ELSE run[p]
        /\ pc'[p] \notin Resting => connected' = connected \union {p} /\ Up
    BY <1>6, WaitForReadyDoes
  <2>2. Running(p) /\ Stepped(p) /\ Cfg(p)' = Cfg(p)
    BY <2>1, OnwardRuns DEF Steps, Stepped, callVars, Cfg
  <2>3. ASSUME Undisturbed(p), Running(p)' PROVE Undisturbed(p)'
    BY <2>1, <2>2, <2>3 DEF Undisturbed, Connected, UserSteps, Early, Running, Onward
  <2> QED BY <2>2, <2>3, AloneKept
<1>7. CASE AlterPostgres(p)
  <2>1. /\ Typed' /\ Onward(p, {"alter"}, {"readConf", "failed"})
        /\ UNCHANGED <<container, live>> /\ Randomised(p)
        /\ run'[p] = IF pc'[p] \in Resting THEN NoLocals ELSE run[p]
        /\ pc'[p] \notin Resting => connected' = connected
    BY <1>7, AlterPostgresDoes
  <2>2. volume' = volume \/ (Up /\ volume'.ssl = volume.ssl)
    BY <2>1, RandomisedDoes, UpHasData DEF Volume
  <2>3. Running(p) /\ Stepped(p)
    BY <2>1, OnwardRuns DEF Steps
  <2> QED BY <2>1, <2>2, <2>3, GoesOnAlone DEF Onward, Connected, Resting
<1>8. CASE ReadConf(p)
  <2>1. /\ Typed' /\ Onward(p, {"readConf"}, {"syncHba", "writeConf", "failed"})
        /\ UNCHANGED <<volume, container, live>>
        /\ pc'[p] = "failed" <=> ~Up
        /\ run'[p] = IF Up THEN Reads(p) ELSE NoLocals
        /\ pc'[p] \notin Resting => connected' = connected
    BY <1>8, ReadConfDoes
  <2>2. Running(p) /\ Stepped(p)
    BY <2>1, OnwardRuns DEF Steps
  <2>3. pc'[p] \notin Resting => run'[p].fresh = run[p].fresh
    BY <2>1, ReadsDoes DEF Resting
  <2> QED BY <2>1, <2>2, <2>3, GoesOnAlone DEF Onward, Connected, Resting
<1>9. CASE WriteConf(p)
  <2>1. /\ Typed' /\ Onward(p, {"writeConf"}, {"syncHba", "failed"})
        /\ UNCHANGED <<container, live>> /\ WritesConf(run[p].ssl, TRUE)
        /\ pc'[p] = "failed" <=> ~Up
        /\ run'[p] = IF Up THEN [run[p] EXCEPT !.wrote = TRUE] ELSE NoLocals
        /\ pc'[p] \notin Resting => connected' = connected
    BY <1>9, WriteConfDoes
  <2>2. Running(p) /\ Stepped(p) /\ Cfg(p)' = Cfg(p)
    BY <2>1, OnwardRuns DEF Steps, Stepped, callVars, Cfg
  <2>3. pc'[p] \notin Resting => run'[p].fresh = run[p].fresh
    BY <2>1, CommandHere DEF Resting, Locals
  <2>4. ASSUME Undisturbed(p), pc'[p] = "syncHba" PROVE Undisturbed(p)'
    BY <2>1, <2>2, <2>3, <2>4 DEF Undisturbed, Connected, UserSteps, Early, Resting, Onward
  <2>5. ASSUME pc'[p] = "failed" PROVE Undisturbed(p)'
    BY <2>1, <2>5, NotDisturbed DEF Resting
  <2> QED BY <2>1, <2>2, <2>4, <2>5, AloneKept DEF Onward
<1>10. CASE SyncHba(p)
  <2>1. /\ Typed' /\ Onward(p, {"syncHba"}, {"writeHba", "reload", "readSsl", "done", "failed"})
        /\ UNCHANGED <<volume, container, live>>
        /\ run'[p] = IF pc'[p] \in Resting THEN NoLocals ELSE run[p]
        /\ pc'[p] \notin Resting => connected' = connected
    BY <1>10, SyncHbaDoes
  <2>2. Running(p) /\ Stepped(p)
    BY <2>1, OnwardRuns DEF Steps
  <2> QED BY <2>1, <2>2, GoesOnAlone DEF Onward, Connected, Resting
<1>11. CASE WriteHba(p)
  <2>1. /\ Typed' /\ Onward(p, {"writeHba"}, {"reload", "failed"})
        /\ UNCHANGED <<container, live>> /\ WritesHba(Expected(p))
        /\ run'[p] = IF pc'[p] \in Resting THEN NoLocals ELSE run[p]
        /\ pc'[p] \notin Resting => connected' = connected
    BY <1>11, WriteHbaDoes
  <2>2. volume' = volume \/ (Up /\ volume'.ssl = volume.ssl)
    BY <2>1, UpHasData DEF WritesHba, Volume
  <2>3. Running(p) /\ Stepped(p)
    BY <2>1, OnwardRuns DEF Steps
  <2> QED BY <2>1, <2>2, <2>3, GoesOnAlone DEF Onward, Connected, Resting
<1>12. CASE ReadSsl(p)
  <2>1. /\ Typed' /\ Onward(p, {"readSsl"}, {"writeSslConf", "writeSslHba", "done", "failed"})
        /\ UNCHANGED <<volume, container, live>>
        /\ pc'[p] = "failed" <=> ~Up
        /\ Up => pc'[p] = IF ~volume.ssl THEN "writeSslConf"
                          ELSE IF hbaWithSSL(volume.hba) # volume.hba THEN "writeSslHba"
                          ELSE "done"
        /\ run'[p] = IF pc'[p] \in Resting THEN NoLocals ELSE [Reads(p) EXCEPT !.wrote = FALSE]
        /\ pc'[p] \notin Resting => connected' = connected
    BY <1>12, ReadSslDoes
  <2>2. Running(p) /\ Stepped(p) /\ Cfg(p)' = Cfg(p)
    BY <2>1, OnwardRuns DEF Steps, Stepped, callVars, Cfg
  <2>3. pc'[p] \notin Resting => Up /\ run'[p].fresh = run[p].fresh
    <3>1. Up => [Reads(p) EXCEPT !.wrote = FALSE].fresh = run[p].fresh
      BY ReadsDoes DEF Locals
    <3> QED BY <2>1, <3>1 DEF Resting, Onward
  <2>4. pc'[p] = "writeSslHba" => volume.ssl
    BY <2>1, <2>3 DEF Resting
  <2>5. ASSUME Undisturbed(p), Running(p)' PROVE Undisturbed(p)'
    BY <2>1, <2>2, <2>3, <2>4, <2>5
    DEF Undisturbed, Connected, UserSteps, Early, Running, Resting, Onward
  <2> QED BY <2>2, <2>5, AloneKept
<1>13. CASE WriteSslConf(p)
  <2>1. /\ Typed' /\ Onward(p, {"writeSslConf"}, {"writeSslHba", "restart", "done", "failed"})
        /\ UNCHANGED <<container, live>> /\ WritesConf(TRUE, run[p].scram)
        /\ run[p].scram \in BOOLEAN
        /\ pc'[p] = "failed" <=> ~Up
        /\ Up => pc'[p] = IF hbaWithSSL(run[p].hba) # run[p].hba THEN "writeSslHba"
                          ELSE AfterSsl(p, TRUE)
        /\ run'[p] = IF pc'[p] \in Resting THEN NoLocals ELSE [run[p] EXCEPT !.wrote = TRUE]
        /\ pc'[p] \notin Resting => connected' = connected
    BY <1>13, WriteSslConfDoes
  <2>2. Running(p) /\ Stepped(p) /\ Cfg(p)' = Cfg(p)
    BY <2>1, OnwardRuns DEF Steps, Stepped, callVars, Cfg
  <2>3. pc'[p] \notin Resting => run'[p].fresh = run[p].fresh /\ Up
    BY <2>1, CommandHere DEF Resting, Locals, Onward
  <2>4. Up => volume'.ssl = TRUE
    BY <2>1, UpHasData, WritesConfDoes DEF Volume
  <2>5. pc'[p] = "restart" => run[p].fresh
    BY <2>1, <2>3 DEF AfterSsl, Resting
  <2>6. ASSUME Undisturbed(p), Running(p)' PROVE Undisturbed(p)'
    BY <2>1, <2>2, <2>3, <2>4, <2>5, <2>6
    DEF Undisturbed, Connected, UserSteps, Early, Running, Resting, Onward
  <2> QED BY <2>2, <2>6, AloneKept
<1>14. CASE WriteSslHba(p)
  <2>1. /\ Typed' /\ Onward(p, {"writeSslHba"}, {"reloadSsl", "restart", "done", "failed"})
        /\ UNCHANGED <<container, live>> /\ WritesHba(hbaWithSSL(run[p].hba))
        /\ pc'[p] = "failed" <=> ~Up
        /\ Up => pc'[p] = IF run[p].wrote THEN AfterSsl(p, TRUE) ELSE "reloadSsl"
        /\ run'[p] = IF pc'[p] \in Resting THEN NoLocals ELSE run[p]
        /\ pc'[p] \notin Resting => connected' = connected
    BY <1>14, WriteSslHbaDoes
  <2>2. Running(p) /\ Stepped(p) /\ Cfg(p)' = Cfg(p)
    BY <2>1, OnwardRuns DEF Steps, Stepped, callVars, Cfg
  <2>3. pc'[p] \notin Resting => run'[p] = run[p] /\ Up
    BY <2>1 DEF Resting, Onward
  <2>4. Up => volume'.ssl = volume.ssl
    BY <2>1, UpHasData DEF WritesHba, Volume
  <2>5. pc'[p] = "restart" => run[p].fresh
    BY <2>1, <2>3 DEF AfterSsl, Resting
  <2>6. ASSUME Undisturbed(p), Running(p)' PROVE Undisturbed(p)'
    BY <2>1, <2>2, <2>3, <2>4, <2>5, <2>6
    DEF Undisturbed, Connected, UserSteps, Early, Running, Resting, Onward
  <2> QED BY <2>2, <2>6, AloneKept
<1>15. CASE Restart(p)
  <2>1. /\ Typed' /\ Onward(p, {"restart"}, {"readySsl", "failed"})
        /\ pc'[p] = IF container.state = "none" THEN "failed" ELSE "readySsl"
        /\ run'[p] = IF pc'[p] \in Resting THEN NoLocals ELSE run[p]
        /\ container.state # "none" => Boot(volume, container.certs) /\ volume \in Volume
                                       /\ container.certs \in BOOLEAN
    BY <1>15, RestartDoes
  <2>2. Running(p) /\ Stepped(p) /\ Cfg(p)' = Cfg(p) /\ Cfg(p).ssl
    BY <2>1, OnwardRuns, CommandHere DEF Steps, Stepped, callVars, Cfg, Onward, PlaceOf, SslSteps
  <2>3. ASSUME Undisturbed(p), pc'[p] = "readySsl" PROVE Undisturbed(p)'
    <3>1. run[p].fresh /\ container.certs = Cfg(p).ssl /\ volume.ssl
      BY <2>1, <2>3 DEF Undisturbed, Onward
    <3>2. Up' /\ live'.ssl /\ container'.certs = Cfg(p).ssl
      BY <2>1, <2>2, <2>3, <3>1, BootDoes
    <3> QED BY <2>2, <2>3, <3>2 DEF Undisturbed, Connected, UserSteps, Early
  <2>4. ASSUME pc'[p] = "failed" PROVE Undisturbed(p)'
    BY <2>1, <2>4, NotDisturbed DEF Resting
  <2> QED BY <2>1, <2>2, <2>3, <2>4, AloneKept DEF Onward
<1>16. CASE WaitForReadySsl(p)
  <2>1. Typed' /\ Onward(p, {"readySsl"}, {"done", "failed"})
    BY <1>16, WaitForReadySslDoes
  <2>2. Running(p) /\ Stepped(p) /\ pc'[p] \in Resting
    BY <2>1, OnwardRuns DEF Steps, Onward, Resting
  <2> QED BY <2>1, <2>2, NotDisturbed, AloneKept
<1> QED BY <1>2, <1>3, <1>4, <1>5, <1>6, <1>7, <1>8, <1>9, <1>10, <1>11, <1>12, <1>13,
           <1>14, <1>15, <1>16 DEF Start

\* The steps that end in a place where nothing is relied on.
LEMMA LeavesAlone ==
  ASSUME Typed, Alone, NEW p \in Proc, NEW from \in SUBSET Steps, NEW to, Onward(p, from, to),
         Typed', to \subseteq {"connect"} \union DbSteps \union StopSteps \union Resting
  PROVE  Alone'
<1>1. Running(p) /\ Stepped(p) /\ pc'[p] \in to
  BY OnwardRuns DEF Onward
<1> QED BY <1>1, NotDisturbed, AloneKept

LEMMA SetupAlone ==
  ASSUME Typed, Accounted, Alone, NEW p \in Proc, Reload(p) \/ SetupUsers(p) \/ SetupDbs(p)
  PROVE  Alone'
<1>1. ASSUME pc[p] \in UserSteps, Typed'
      PROVE  run[p].fresh = FALSE /\ (pc'[p] \in UserSteps => run'[p].fresh = FALSE)
  <2>1. run[p].fresh \in BOOLEAN /\ run'[p].fresh \in BOOLEAN
    BY <1>1 DEF Typed, TypeOK, Locals
  <2> QED BY <1>1, <2>1 DEF Typed, Placed, ReadOf, UserSteps, StartSteps
<1>2. CASE Reload(p)
  <2>1. /\ Typed' /\ UNCHANGED <<volume, container>>
        /\ Onward(p, {"reload", "reloadSsl", "reloadTrust", "reloadUsers"},
                  {"readSsl", "sync", "randomise", "done", "failed"})
        /\ pc'[p] \notin Resting => connected' = connected
        /\ run'[p] = IF pc'[p] \in Resting THEN NoLocals ELSE run[p]
    BY <1>2, ReloadDoes
  <2>2. Running(p) /\ Stepped(p) /\ Cfg(p)' = Cfg(p)
    BY <2>1, OnwardRuns DEF Steps, Stepped, callVars, Cfg
  <2>3. ASSUME Undisturbed(p), Running(p)' PROVE Undisturbed(p)'
    BY <2>1, <2>2, <2>3 DEF Undisturbed, Connected, UserSteps, Early, Running, Resting, Onward
  <2> QED BY <2>2, <2>3, AloneKept
<1>3. CASE ConnectForUsers(p)
  <2>1. /\ Typed' /\ Onward(p, {"connect"}, {"snapshot", "done", "failed"})
        /\ UNCHANGED <<volume, container, live>>
        /\ run'[p] = IF pc'[p] \in Resting THEN NoLocals ELSE run[p]
        /\ pc'[p] = "snapshot" => connected' = connected \union {p}
    BY <1>3, ConnectForUsersDoes
  <2>2. Running(p) /\ Stepped(p)
    BY <2>1, OnwardRuns DEF Steps
  <2>3. ASSUME pc'[p] = "snapshot" PROVE Undisturbed(p)'
    BY <1>1, <2>1, <2>3 DEF Undisturbed, Connected, UserSteps, Onward
  <2>4. ASSUME pc'[p] \in {"done", "failed"} PROVE Undisturbed(p)'
    BY <2>1, <2>4, NotDisturbed DEF Resting
  <2> QED BY <2>1, <2>2, <2>3, <2>4, AloneKept DEF Onward
<1>4. CASE ReadSnapshot(p)
  <2>1. /\ Typed' /\ Onward(p, {"snapshot"}, {"trustHba", "sync"})
        /\ UNCHANGED <<volume, container, live, connected>>
    BY <1>4, ReadSnapshotDoes
  <2>2. Running(p) /\ Stepped(p)
    BY <2>1, OnwardRuns DEF Steps
  <2>3. /\ pc[p] \in Connected /\ pc'[p] \in Connected /\ pc'[p] \in UserSteps
        /\ pc'[p] \notin {"writeSslHba", "reloadSsl", "restart"}
        /\ run'[p].fresh = run[p].fresh
    BY <1>1, <2>1 DEF Onward, Connected, UserSteps
  <2> QED BY <2>1, <2>2, <2>3, GoesOnAlone
<1>5. CASE WriteUsersHba(p)
  <2>1. /\ Typed' /\ WritesHba(Expected(p)) /\ UNCHANGED <<container, live>>
        /\ Onward(p, {"trustHba", "scramHba", "updateHba"},
                  {"reloadTrust", "scramConf", "reloadUsers", "failed"})
        /\ pc'[p] \notin Resting => connected' = connected
        /\ run'[p] = IF pc'[p] \in Resting THEN NoLocals ELSE run[p]
    BY <1>5, WriteUsersHbaDoes
  <2>2. volume' = volume \/ (Up /\ volume'.ssl = volume.ssl)
    BY <2>1, UpHasData DEF WritesHba, Volume
  <2>3. Running(p) /\ Stepped(p)
    BY <2>1, OnwardRuns DEF Steps
  <2>4. /\ pc[p] \in Connected
        /\ pc'[p] \in (Connected \ {"writeSslHba", "reloadSsl", "restart"}) \union Resting
        /\ pc'[p] \notin Resting => run'[p].fresh = run[p].fresh
    BY <2>1 DEF Onward, Connected, UserSteps, Resting
  <2> QED BY <2>1, <2>2, <2>3, <2>4, GoesOnAlone
<1>6. CASE WriteUsersConf(p)
  <2>1. /\ Typed' /\ Onward(p, {"scramConf"}, {"reloadUsers", "failed"})
        /\ UNCHANGED <<container, live>>
        /\ pc'[p] \notin Resting => connected' = connected
    BY <1>6, WriteUsersConfDoes
  <2>2. Running(p) /\ Stepped(p) /\ Cfg(p)' = Cfg(p)
    BY <2>1, OnwardRuns DEF Steps, Stepped, callVars, Cfg
  <2>3. ASSUME Undisturbed(p), pc'[p] = "reloadUsers" PROVE Undisturbed(p)'
    BY <1>1, <2>1, <2>2, <2>3 DEF Undisturbed, Connected, UserSteps, Onward, Resting
  <2>4. ASSUME pc'[p] = "failed" PROVE Undisturbed(p)'
    BY <2>1, <2>4, NotDisturbed DEF Resting
  <2> QED BY <2>1, <2>2, <2>3, <2>4, AloneKept DEF Onward
<1>7. CASE SyncUser(p)
  <2>1. /\ Typed' /\ Onward(p, {"sync"}, {"sync", "failed"})
        /\ UNCHANGED <<container, live>>
        /\ p \notin connected => volume' = volume
        /\ p \in connected => Up /\ volume'.ssl = volume.ssl
        /\ pc'[p] \notin Resting => connected' = connected
    BY <1>7, SyncUserDoes
  <2>2. Running(p) /\ Stepped(p)
    BY <2>1, OnwardRuns DEF Steps
  <2>3. /\ pc[p] \in Connected
        /\ pc'[p] \in (Connected \ {"writeSslHba", "reloadSsl", "restart"}) \union Resting
        /\ pc'[p] \notin Resting => run'[p].fresh = run[p].fresh
    BY <1>1, <2>1 DEF Onward, Connected, UserSteps, Resting
  <2> QED BY <2>1, <2>2, <2>3, GoesOnAlone
<1>8. CASE UsersSynced(p)
  <2>1. /\ Typed' /\ UNCHANGED <<volume, container, live>>
        /\ Onward(p, {"sync"}, {"scramHba", "updateHba", "randomise", "done"})
        /\ pc'[p] \notin Resting => connected' = connected
    BY <1>8, UsersSyncedDoes
  <2>2. Running(p) /\ Stepped(p)
    BY <2>1, OnwardRuns DEF Steps
  <2>3. /\ pc[p] \in Connected
        /\ pc'[p] \in (Connected \ {"writeSslHba", "reloadSsl", "restart"}) \union Resting
        /\ pc'[p] \notin Resting => run'[p].fresh = run[p].fresh
    BY <1>1, <2>1 DEF Onward, Connected, UserSteps, Resting
  <2> QED BY <2>1, <2>2, <2>3, GoesOnAlone
<1>9. CASE RandomisePostgres(p)
  <2>1. Typed' /\ Onward(p, {"randomise"}, {"done", "failed"})
    BY <1>9, RandomisePostgresDoes
  <2> QED BY <2>1, LeavesAlone DEF Steps, Resting
<1>10. CASE ConnectForDbs(p)
  <2>1. Typed' /\ Onward(p, {"connectDbs"}, {"createDbs", "done", "failed"})
    BY <1>10, ConnectForDbsDoes
  <2> QED BY <2>1, LeavesAlone DEF Steps, DbSteps, Resting
<1>11. CASE CreateDatabase(p)
  <2>1. Typed' /\ Onward(p, {"createDbs"}, {"createDbs", "done", "failed"})
    BY <1>11, CreateDatabaseDoes
  <2> QED BY <2>1, LeavesAlone DEF Steps, DbSteps, Resting
<1> QED BY <1>2, <1>3, <1>4, <1>5, <1>6, <1>7, <1>8, <1>9, <1>10, <1>11 DEF SetupUsers, SetupDbs

LEMMA StopAlone ==
  ASSUME Typed, Accounted, Alone, NEW p \in Proc, Stop(p) \/ Kill(p)
  PROVE  Alone'
<1>1. CASE FindContainer(p)
  <2>1. Typed' /\ Onward(p, {"find"}, {"done", "stop", "rm"})
    BY <1>1, FindContainerDoes
  <2> QED BY <2>1, LeavesAlone DEF Steps, StopSteps, Resting
<1>2. CASE StopContainer(p)
  <2>1. Typed' /\ Onward(p, {"stop"}, {"rm", "failed"})
    BY <1>2, StopContainerDoes
  <2> QED BY <2>1, LeavesAlone DEF Steps, StopSteps, Resting
<1>3. CASE RemoveStopped(p)
  <2>1. Typed' /\ Onward(p, {"rm"}, {"volumeRm", "done"})
    BY <1>3, RemoveStoppedDoes
  <2> QED BY <2>1, LeavesAlone DEF Steps, StopSteps, Resting
<1>4. CASE RemoveVolume(p)
  <2>1. Typed' /\ Onward(p, {"volumeRm"}, {"done"})
    BY <1>4, RemoveVolumeDoes
  <2> QED BY <2>1, LeavesAlone DEF Steps, Resting
<1>5. CASE Kill(p)
  <2>1. Typed' /\ Onward(p, Steps, {"failed"})
    BY <1>5, KillDoes
  <2> QED BY <2>1, LeavesAlone DEF Resting
<1> QED BY <1>1, <1>2, <1>3, <1>4, <1>5 DEF Stop

\* A command that begins makes the others cease to be alone.
LEMMA LaunchAlone ==
  ASSUME Typed, Alone, NEW p \in Proc, Launch(p)
  PROVE  Alone'
<1>1. /\ ~Running(p) /\ UNCHANGED run
      /\ \A q \in Proc \ {p} : pc'[q] = pc[q]
      /\ pc'[p] \in {"volumeRemove", "connect", "connectDbs", "find"}
      /\ solo' = [q \in Proc |-> IF q = p THEN \A r \in Proc \ {p} : ~Running(r)
                                 ELSE solo[q] /\ ~Running(q)]
  BY LaunchDoes
<1>2. run[p].fresh = FALSE
  BY <1>1, CommandHere DEF PlaceOf, Running, NoLocals
<1>3. Undisturbed(p)'
  BY <1>1, <1>2 DEF Undisturbed, Connected, UserSteps
<1>4. ASSUME NEW q \in Proc, solo'[q], Running(q)' PROVE q = p
  BY <1>1, <1>4 DEF Running
<1>5. ASSUME solo'[p] PROVE \A q \in Proc \ {p} : ~Running(q)'
  BY <1>1, <1>5 DEF Running
<1> QED BY <1>3, <1>4, <1>5 DEF Alone, AloneOf

LEMMA QuietAlone ==
  ASSUME Typed, Alone, Edit \/ Crash \/ UNCHANGED vars
  PROVE  Alone'
<1>1. CASE Crash
  BY <1>1, CrashDoes DEF Alone, AloneOf, Running
<1>2. CASE Edit \/ UNCHANGED vars
  <2>1. UNCHANGED <<volume, container, live, connected, pc, cmd, run, solo>>
    BY <1>2, EditDoes DEF vars
  <2> QED BY <2>1 DEF Alone, AloneOf, Undisturbed, Running, Up, Cfg
<1> QED BY <1>1, <1>2

LEMMA InitAlone == ASSUME Init PROVE Alone
BY DEF Init, Alone, AloneOf, Running, Resting

LEMMA NextAlone ==
  ASSUME Typed, Accounted, OneFile, Alone, [Next]_vars
  PROVE  Alone'
<1>1. CASE UNCHANGED vars
  BY <1>1, QuietAlone
<1>2. CASE Next
  BY <1>2, LaunchAlone, StartAlone, SetupAlone, StopAlone, QuietAlone DEF Next
<1> QED BY <1>1, <1>2

-----------------------------------------------------------------------------
(***************************************************************************)
(* A start that is alone on a volume of its own file.                      *)
(***************************************************************************)

\* The lines for the network are all for one mode.
LEMMA OneMode ==
  ASSUME NEW c \in Configs, NEW hba \in SUBSET Line, Lines(c, hba),
         NEW l \in hba, NEW w \in hba, l.from = "any", w.from = "any",
         l.type # "local", w.type # "local"
  PROVE  l.type = w.type
<1> DEFINE same(set) == \A x, y \in set :
             x.from = "any" /\ y.from = "any" /\ x.type # "local" /\ y.type # "local" => x.type = y.type
<1>1. same(DefaultLines(c.auth))
  BY DEF DefaultLines
<1>2. same(generatePgHbaConfContent(c))
  BY GeneratedLine
<1>3. ASSUME NEW set \in SUBSET Line PROVE same(setPgHbaRequireSSL(set))
  <2>1. \A x \in setPgHbaRequireSSL(set) : x.type \in {"local", "hostssl"}
    <3> SUFFICES ASSUME NEW x \in set
                 PROVE (IF x.type = "host" THEN [x EXCEPT !.type = "hostssl"] ELSE x).type
                         \in {"local", "hostssl"}
      BY DEF setPgHbaRequireSSL
    <3> x \in Line
      OBVIOUS
    <3> QED BY DEF Line
  <2> QED BY <2>1
<1>4. same(hba)
  BY <1>1, <1>2, <1>3, LineTypes DEF Lines
<1> QED BY <1>4

\* The administrator is let in to each database the commands connect to.
LEMMA AdminAccepted ==
  ASSUME Typed, OneFile, Up, NEW c \in Configs, volume.used = {c}, Administers(c),
         NEW db \in {"postgres", FirstDb(c)}
  PROVE  \E l \in live.hba :
           /\ l.type \in (IF c.ssl THEN {"host", "hostssl"} ELSE {"host"})
           /\ l.from = "any"
           /\ \A ssl \in BOOLEAN : (ssl => live.ssl) /\ (l.type = "hostssl" => ssl) =>
                Accepts(volume, getAuthUserFromConfig(c), db, ssl)
<1> DEFINE admin == getAuthUserFromConfig(c)
<1>1. VolumeOf(c) /\ Lines(c, live.hba)
  BY UpHasData DEF OneFile
<1>2. live.hba \in SUBSET Line /\ live.ssl \in BOOLEAN
  BY TypedServer DEF ServerTyped
<1>3. PICK l \in live.hba :
        /\ l.type \in (IF c.ssl THEN {"host", "hostssl"} ELSE {"host"})
        /\ l.db \in {"all", db} /\ l.user \in {"all", admin.name}
        /\ l.from = "any" /\ (l.method = "scram" => c.auth)
  BY <1>1, <1>2, LetsIn
<1>4. /\ volume.pw[admin.name] # "absent" /\ db \in volume.dbs
      /\ c.auth => admin.pw # "" /\ admin.pw = volume.pw[admin.name]
  BY <1>1, AdminIs DEF VolumeOf, AdminIn
<1> HIDE DEF admin
<1>5. ASSUME NEW ssl \in BOOLEAN, ssl => live.ssl, l.type = "hostssl" => ssl
      PROVE  Accepts(volume, admin, db, ssl)
  <2>1. l.type \in (IF ssl THEN {"host", "hostssl"} ELSE {"host"})
    BY <1>3, <1>5
  <2> QED BY <1>3, <1>4, <1>5, <2>1 DEF Accepts
<1> QED BY <1>3, <1>5 DEF admin

\* Which of the modes works for the first database works for the client too.
LEMMA ReadyWhenLetIn ==
  ASSUME Typed, OneFile, Up, NEW c \in Configs, volume.used = {c}, Administers(c),
         c.ssl => live.ssl
  PROVE  LET modes == ModesIn(c, FirstDb(c)) IN
         modes # {} /\ Accepts(volume, getAuthUserFromConfig(c), "postgres", FALSE \notin modes)
<1> DEFINE admin == getAuthUserFromConfig(c)
           modes == ModesIn(c, FirstDb(c))
           lets(l, db) == \A ssl \in BOOLEAN : (ssl => live.ssl) /\ (l.type = "hostssl" => ssl) =>
                            Accepts(volume, admin, db, ssl)
<1>1. PICK l \in live.hba :
        /\ l.type \in (IF c.ssl THEN {"host", "hostssl"} ELSE {"host"}) /\ l.from = "any"
        /\ lets(l, FirstDb(c))
  BY AdminAccepted
<1>2. PICK w \in live.hba :
        /\ w.type \in (IF c.ssl THEN {"host", "hostssl"} ELSE {"host"}) /\ w.from = "any"
        /\ lets(w, "postgres")
  BY AdminAccepted
<1>3. modes = {ssl \in IF c.ssl THEN {FALSE, TRUE} ELSE {FALSE} :
                 Accepts(volume, admin, FirstDb(c), ssl)}
  BY ModesAre DEF ModesIn
<1>4. Lines(c, live.hba) /\ live.hba \in SUBSET Line
  BY UpHasData, TypedServer DEF OneFile, ServerTyped
<1> HIDE DEF admin, modes
<1>5. CASE FALSE \in modes
  <2>1. PICK x \in live.hba : x.type = "host" /\ x.from = "any"
    BY <1>3, <1>5 DEF Accepts
  <2>2. w.type = "host"
    BY <1>2, <1>4, <2>1, OneMode
  <2>3. Accepts(volume, admin, "postgres", FALSE)
    BY <1>2, <2>2
  <2> QED BY <1>5, <2>3 DEF modes, admin
<1>6. CASE FALSE \notin modes
  <2>1. l.type = "hostssl" /\ c.ssl
    <3>1. l.type = "host" => Accepts(volume, admin, FirstDb(c), FALSE)
      BY <1>1
    <3> QED BY <1>1, <1>3, <1>6, <3>1
  <2>2. Accepts(volume, admin, FirstDb(c), TRUE) /\ Accepts(volume, admin, "postgres", TRUE)
    BY <1>1, <1>2, <2>1
  <2>3. TRUE \in modes
    BY <1>3, <2>1, <2>2
  <2> QED BY <1>6, <2>2, <2>3 DEF modes, admin
<1> QED BY <1>5, <1>6

\* With its client a start is never refused.
LEMMA ClientUp == ASSUME Typed, NEW p \in Proc, p \in connected PROVE Up
BY TypedServer DEF ServerTyped

\* A start that has been alone finds what it needs on a volume of its own file.
LEMMA StartGoesThrough ==
  ASSUME Typed, Accounted, OneFile, Alone, NEW p \in Proc, Start(p) \/ Reload(p),
         solo[p], cmd[p].kind = "start", Administers(Cfg(p)),
         volume.used = {Cfg(p)}, Cfg(p).ssl => live.ssl
  PROVE  pc'[p] # "failed"
<1>1. Cfg(p) \in Configs
  BY CommandHere
<1>2. Running(p) => Undisturbed(p)
  BY DEF Alone, AloneOf
<1>3. ASSUME pc[p] \in Connected PROVE Up /\ p \in connected
  <2>1. Running(p)
    BY <1>3 DEF Connected, UserSteps, Running, Resting
  <2> QED BY <1>2, <1>3, <2>1, ClientUp DEF Undisturbed
<1>4. CASE VolumeRemove(p) \/ VolumeCreate(p) \/ Inspect(p)
  <2>1. pc'[p] \in {"volumeCreate", "inspect", "ready", "remove"}
    BY <1>4, VolumeRemoveDoes, VolumeCreateDoes, InspectDoes DEF Onward
  <2> QED BY <2>1
<1>5. CASE RemoveContainer(p)
  <2>1. pc[p] = "remove" /\ pc'[p] = IF Up THEN "failed" ELSE "run"
    BY <1>5, RemoveContainerDoes DEF Onward
  <2>2. ~Up
    BY <1>2, <2>1 DEF Undisturbed, Running, Resting
  <2> QED BY <2>1, <2>2
<1>6. CASE RunContainer(p)
  <2>1. pc[p] = "run" /\ pc'[p] = IF container.state # "none" THEN "failed" ELSE "ready"
    BY <1>6, RunContainerDoes DEF Onward
  <2>2. container.state = "none"
    BY <1>2, <2>1 DEF Undisturbed, Running, Resting
  <2> QED BY <2>1, <2>2
<1>7. CASE WaitForReady(p)
  <2>1. /\ pc[p] = "ready"
        /\ pc'[p] = "failed" =>
             LET modes == ModesIn(Cfg(p), FirstDb(Cfg(p))) IN
             ~(modes # {} /\ Accepts(volume, getAuthUserFromConfig(Cfg(p)), "postgres", FALSE \notin modes))
    BY <1>7, WaitForReadyDoes DEF Onward
  <2>2. Up
    BY <1>2, <2>1 DEF Undisturbed, Running, Resting
  <2> QED BY <1>1, <2>1, <2>2, ReadyWhenLetIn
<1>8. CASE AlterPostgres(p)
  <2>1. pc[p] = "alter" /\ pc'[p] = IF p \in connected THEN "readConf" ELSE "failed"
    BY <1>8, AlterPostgresDoes DEF Onward
  <2> QED BY <1>3, <2>1 DEF Connected
<1>9. CASE ReadConf(p) \/ WriteConf(p) \/ SyncHba(p) \/ WriteHba(p) \/ ReadSsl(p)
           \/ WriteSslConf(p) \/ WriteSslHba(p)
  <2>1. /\ pc'[p] = "failed" <=> ~Up
        /\ pc[p] \in {"readConf", "writeConf", "syncHba", "writeHba", "readSsl", "writeSslConf",
                      "writeSslHba"}
    BY <1>9, ReadConfDoes, WriteConfDoes, SyncHbaDoes, WriteHbaDoes, ReadSslDoes,
       WriteSslConfDoes, WriteSslHbaDoes DEF Onward
  <2> QED BY <1>3, <2>1 DEF Connected
<1>10. CASE Restart(p)
  <2>1. pc[p] = "restart" /\ pc'[p] = IF container.state = "none" THEN "failed" ELSE "readySsl"
    BY <1>10, RestartDoes DEF Onward
  <2>2. container.state # "none"
    BY <1>3, <2>1 DEF Connected, Up
  <2> QED BY <2>1, <2>2
<1>11. CASE WaitForReadySsl(p)
  <2>1. /\ pc[p] = "readySsl"
        /\ pc'[p] = IF Accepts(volume, getAuthUserFromConfig(Cfg(p)), FirstDb(Cfg(p)), TRUE)
                    THEN "done" ELSE "failed"
    BY <1>11, WaitForReadySslDoes DEF Onward
  <2>2. Up /\ live.ssl
    BY <1>2, <2>1 DEF Undisturbed, Running, Resting
  <2>3. Accepts(volume, getAuthUserFromConfig(Cfg(p)), FirstDb(Cfg(p)), TRUE)
    BY <1>1, <2>2, AdminAccepted
  <2> QED BY <2>1, <2>3
<1>12. CASE Reload(p)
  <2>1. /\ pc[p] \in {"reload", "reloadSsl", "reloadTrust", "reloadUsers"}
        /\ pc'[p] = IF p \in connected THEN AfterReload(p) ELSE "failed"
    BY <1>12, ReloadDoes DEF Onward
  <2>2. p \in connected /\ AfterReload(p) # "failed"
    BY <1>3, <2>1, AfterReloadIs DEF Connected, UserSteps
  <2> QED BY <2>1, <2>2
<1> QED BY <1>4, <1>5, <1>6, <1>7, <1>8, <1>9, <1>10, <1>11, <1>12 DEF Start

\* A step is one of a running command, and moves no other.
LEMMA StartMoves ==
  ASSUME Typed, Accounted, NEW p \in Proc, Start(p) \/ Reload(p)
  PROVE  Stepped(p) /\ Running(p)
<1> USE DEF Onward, Running, Resting
<1>1. CASE VolumeRemove(p)
  BY <1>1, VolumeRemoveDoes
<1>2. CASE VolumeCreate(p)
  BY <1>2, VolumeCreateDoes
<1>3. CASE Inspect(p)
  BY <1>3, InspectDoes
<1>4. CASE RemoveContainer(p)
  BY <1>4, RemoveContainerDoes
<1>5. CASE RunContainer(p)
  BY <1>5, RunContainerDoes
<1>6. CASE WaitForReady(p)
  BY <1>6, WaitForReadyDoes
<1>7. CASE AlterPostgres(p)
  BY <1>7, AlterPostgresDoes
<1>8. CASE ReadConf(p)
  BY <1>8, ReadConfDoes
<1>9. CASE WriteConf(p)
  BY <1>9, WriteConfDoes
<1>10. CASE SyncHba(p)
  BY <1>10, SyncHbaDoes
<1>11. CASE WriteHba(p)
  BY <1>11, WriteHbaDoes
<1>12. CASE ReadSsl(p)
  BY <1>12, ReadSslDoes
<1>13. CASE WriteSslConf(p)
  BY <1>13, WriteSslConfDoes
<1>14. CASE WriteSslHba(p)
  BY <1>14, WriteSslHbaDoes
<1>15. CASE Restart(p)
  BY <1>15, RestartDoes
<1>16. CASE WaitForReadySsl(p)
  BY <1>16, WaitForReadySslDoes
<1>17. CASE Reload(p)
  BY <1>17, ReloadDoes
<1> QED BY <1>1, <1>2, <1>3, <1>4, <1>5, <1>6, <1>7, <1>8, <1>9, <1>10, <1>11, <1>12,
         <1>13, <1>14, <1>15, <1>16, <1>17 DEF Start

LEMMA OtherMoves ==
  ASSUME Typed, Accounted, NEW p \in Proc, SetupUsers(p) \/ SetupDbs(p) \/ Stop(p)
  PROVE  Stepped(p) /\ Running(p) /\ pc[p] \notin StartSteps
<1> USE DEF Onward, Running, Resting, StartSteps
<1>1. CASE ConnectForUsers(p)
  BY <1>1, ConnectForUsersDoes
<1>2. CASE ReadSnapshot(p)
  BY <1>2, ReadSnapshotDoes
<1>3. CASE WriteUsersHba(p)
  BY <1>3, WriteUsersHbaDoes
<1>4. CASE WriteUsersConf(p)
  BY <1>4, WriteUsersConfDoes
<1>5. CASE SyncUser(p)
  BY <1>5, SyncUserDoes
<1>6. CASE UsersSynced(p)
  BY <1>6, UsersSyncedDoes
<1>7. CASE RandomisePostgres(p)
  BY <1>7, RandomisePostgresDoes
<1>8. CASE ConnectForDbs(p)
  BY <1>8, ConnectForDbsDoes
<1>9. CASE CreateDatabase(p)
  BY <1>9, CreateDatabaseDoes
<1>10. CASE FindContainer(p)
  BY <1>10, FindContainerDoes
<1>11. CASE StopContainer(p)
  BY <1>11, StopContainerDoes
<1>12. CASE RemoveStopped(p)
  BY <1>12, RemoveStoppedDoes
<1>13. CASE RemoveVolume(p)
  BY <1>13, RemoveVolumeDoes
<1> QED BY <1>1, <1>2, <1>3, <1>4, <1>5, <1>6, <1>7, <1>8, <1>9, <1>10, <1>11, <1>12, <1>13 DEF SetupUsers, SetupDbs, Stop

\* Without a fault only its own steps make a start fail.
LEMMA WhoFails ==
  ASSUME Typed, Accounted, [Next]_vars, NEW p \in Proc,
         pc[p] # "failed", pc'[p] = "failed", cmd[p].kind = "start", faults' = faults
  PROVE  Start(p) \/ Reload(p)
<1>1. faults \in Nat
  BY BoundAssumption DEF Typed, TypeOK
<1>2. ~\E q \in Proc : Launch(q)
  BY LaunchDoes
<1>3. ~(Edit \/ Crash \/ UNCHANGED vars)
  BY DEF Edit, Crash, vars
<1>4. ~\E q \in Proc : Kill(q)
  BY <1>1 DEF Kill, Fault
<1>5. PICK q \in Proc : Start(q) \/ Reload(q) \/ SetupUsers(q) \/ SetupDbs(q) \/ Stop(q)
  BY <1>2, <1>3, <1>4 DEF Next
<1>6. Stepped(q) /\ Running(q)
  BY <1>5, StartMoves, OtherMoves
<1>7. q = p
  BY <1>6 DEF Stepped
<1>8. pc[p] \in StartSteps
  <2>1. KindOf(p) /\ pc[p] \in Steps
    BY <1>6, <1>7, CommandHere DEF Running
  <2> QED BY <2>1 DEF KindOf, Steps, StartSteps, UserSteps, DbSteps, StopSteps
<1> QED BY <1>5, <1>7, <1>8, OtherMoves

\* Postgres!StartRepeats, of startPostgres(): a start that runs alone fails only if
\* an earlier command has worked with another file, or if it was interrupted before
\* the server had loaded SSL; so after any interruption a start can be repeated.
THEOREM StartCanRepeat == Spec => StartRepeats
<1> DEFINE Repeats ==
      \A p \in Proc :
        /\ pc[p] # "failed" /\ pc'[p] = "failed" /\ cmd[p].kind = "start"
        /\ solo[p] /\ faults' = faults /\ Administers(Cfg(p))
        => \/ volume.used # {Cfg(p)}
           \/ Cfg(p).ssl /\ ~live.ssl
<1>1. Init => Typed /\ Accounted /\ OneFile /\ Alone
  BY InitTyped, InitOneFile, InitAlone
<1>2. Typed /\ Accounted /\ OneFile /\ Alone /\ [Next]_vars
        => (Typed /\ Accounted /\ OneFile /\ Alone)'
  BY NextTyped, NextOneFile, NextAlone
<1>3. Typed /\ Accounted /\ OneFile /\ Alone /\ [Next]_vars => [Repeats]_vars
  <2> SUFFICES ASSUME Typed, Accounted, OneFile, Alone, [Next]_vars, NEW p \in Proc,
                      pc[p] # "failed", pc'[p] = "failed", cmd[p].kind = "start",
                      solo[p], faults' = faults, Administers(Cfg(p)),
                      volume.used = {Cfg(p)}, Cfg(p).ssl => live.ssl
               PROVE  FALSE
    OBVIOUS
  <2>1. Start(p) \/ Reload(p)
    BY WhoFails
  <2> QED BY <2>1, StartGoesThrough
<1> HIDE DEF Repeats
<1>4. Spec => [][Repeats]_vars
  BY <1>1, <1>2, <1>3, PTL DEF Spec
<1> QED BY <1>4 DEF StartRepeats, Repeats

=============================================================================
