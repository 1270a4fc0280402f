------------------------------- MODULE Certs -------------------------------
(***************************************************************************)
(* The certificates of the servers: the commands `mongo generate-certs`    *)
(* and `postgres generate-certs`, and the part of `mongo start` and        *)
(* `postgres start` that sees to it that certificates exist.               *)
(*                                                                         *)
(* A run writes the configuration files of the generators, then lets them  *)
(* make a CA and with it a certificate per server.  A generator keeps what *)
(* it finds when key and certificate are both there, and otherwise makes   *)
(* both.  Nothing locks the files, and runs may be killed between any two  *)
(* steps.  The CA is generated like the certificates and is number 0 of    *)
(* them.                                                                   *)
(*                                                                         *)
(* A step is one command of openssl, chmod or docker, or file operations   *)
(* of the run between two of them.  Keys and passphrases are drawn at      *)
(* random, which here means that nobody has them yet.  An openssl that     *)
(* fails is taken to leave its output file as it was.  ca-chain.pem, which *)
(* forerunner never writes, is not there.                                  *)
(***************************************************************************)
EXTENDS Naturals, FiniteSets, FiniteSetsExt

CONSTANTS
  Proc,          \* where runs take place
  Servers,       \* how many servers each kind of database has
  Flags,         \* what runs may be asked to overwrite
  Nothing,       \* no such file
  Blank,         \* a file that has been created or truncated, not written
  MaxId,         \* bound: keys and passphrases that are told apart
  MaxLaunches,   \* bound: runs
  MaxTogether,   \* bound: runs in a history in which two overlap
  MaxKills       \* bound: killed runs; none in such a history

Kind == {"mongo", "postgres"}
Flag == [config : BOOLEAN, ca : BOOLEAN, certs : BOOLEAN]
NoFlags == [config |-> FALSE, ca |-> FALSE, certs |-> FALSE]
Id == 1..MaxId

\* A key, a certificate, a full chain and a combined PEM by the keys they hold.
KeyFile == [id : Id, pass : Id \union {Nothing}, guarded : BOOLEAN]
CertFile == [key : Id, ca : Id, guarded : BOOLEAN]
ChainFile == [key : Id, ca : Id, top : Id]
BundleFile == [key : Id, ca : Id, private : Id]

ASSUME ServersAssumption == Servers \in [Kind -> Nat \ {0}]
ASSUME FlagsAssumption == Flags \subseteq Flag
ASSUME FileAssumption ==
  /\ Nothing # Blank /\ {Nothing, Blank} \cap Id = {}
  /\ \A type \in {KeyFile, CertFile, ChainFile, BundleFile} : Nothing \notin type
ASSUME BoundAssumption ==
  /\ {MaxId, MaxLaunches, MaxTogether, MaxKills} \subseteq Nat
  /\ MaxTogether <= MaxLaunches
  /\ \A k \in Kind : Servers[k] < MaxId

VARIABLES
  kind, root,    \* which database; may the user write any file
  given,         \* the passphrase in the run configuration, or Nothing
  config,        \* passphrase in the configuration of the CA and of each certificate
  key, cert,     \* key and certificate of the CA and of each server
  csr,           \* key in the signing request of each server
  chain, bundle, \* full chain and combined PEM of each server
  pc, asked,     \* of each run: where it is, its flags
  round,         \* which of the two passes over the configurations
  at,            \* which certificate it is at
  pass,          \* passphrase it has read or drawn
  todo,          \* files it has still to unlink
  solo,          \* history: no other run since it began
  stuck,         \* history: a file it can neither write nor unlink when it began
  ended,         \* history: how the last run ended
  cut,           \* history: what has gone wrong since the last run that made all anew
  launches, kills \* how much of the bounds is used

pemFiles == <<key, cert, csr, chain, bundle>>
fixed == <<kind, root, given>>
locals == <<round, at, pass, todo>>
runVars == <<asked, solo, stuck>>
vars == <<fixed, config, pemFiles, pc, locals, runVars, ended, cut, launches, kills>>

Number == 0..Max({Servers[k] : k \in Kind})
CA == 0
All == 0..Servers[kind]
Mine == 1..Servers[kind]

Steps == {"caConfig", "writeCaConfig", "certConfig", "writeCertConfig", "check",
          "unlink", "genrsa", "chmod", "request", "sign", "chain", "bundle",
          "permissions"}
Resting == {"idle", "done", "failed", "killed"}

FilesTypeOK ==
  /\ kind \in Kind /\ root \in BOOLEAN /\ given \in Id \union {Nothing}
  /\ config \in [Number -> Id \union {Nothing, Blank}]
  /\ key \in [Number -> KeyFile \union {Nothing}]
  /\ cert \in [Number -> CertFile \union {Nothing}]
  /\ csr \in [Number -> Id \union {Nothing}]
  /\ chain \in [Number -> ChainFile \union {Nothing}]
  /\ bundle \in [Number -> BundleFile \union {Nothing}]

RunsTypeOK ==
  /\ pc \in [Proc -> Steps \union Resting]
  /\ asked \in [Proc -> Flag]
  /\ round \in [Proc -> 1..2]
  /\ at \in [Proc -> Number]
  /\ pass \in [Proc -> Id \union {Nothing}]
  /\ todo \in [Proc -> SUBSET {"key", "cert"}]
  /\ solo \in [Proc -> BOOLEAN] /\ stuck \in [Proc -> BOOLEAN]

HistoryTypeOK ==
  /\ ended \in Resting
  /\ cut \subseteq {"overlap", "race", "ca", "certs", "config", "failure", "again"}
  /\ launches \in 0..MaxLaunches /\ kills \in 0..MaxKills

\* The types of all variables.
TypeOK == FilesTypeOK /\ RunsTypeOK /\ HistoryTypeOK

-----------------------------------------------------------------------------
(* The files                                                               *)

Exists(file) == file # Nothing

\* The parts of the files that are there.
FieldsOf(files, fields) ==
  UNION {{files[i][f] : f \in fields} : i \in {j \in All : Exists(files[j])}}

KeysInUse ==
  FieldsOf(key, {"id"}) \union FieldsOf(cert, {"key", "ca"})
    \union FieldsOf(chain, {"key", "ca", "top"})
    \union FieldsOf(bundle, {"key", "ca", "private"})
    \union {csr[i] : i \in All}

PassphrasesInUse ==
  {given} \union {config[i] : i \in All} \union {pass[p] : p \in Proc}
    \union FieldsOf(key, {"pass"})

\* Bound: there is one left to draw.
AnyLeft(used) == Id \ used # {}
Fresh(used) == CHOOSE k \in Id \ used : TRUE

\* A file that belongs to the user of the container, or that has mode 400,
\* can be unlinked and not written.
Writable(file) == Exists(file) => (root \/ ~file.guarded)

\* Mutant: only the key is looked for.
CompleteByKey(i) == Exists(key[i])

Complete(i) == Exists(key[i]) /\ Exists(cert[i])

\* What can be undone only by removing a file by hand.
Locked(i) ==
  /\ ~Complete(i)
  /\ ~(Writable(key[i]) /\ Writable(cert[i]))

\* The key of the CA stays with the user, that of a server need not.
Readable(i) == Exists(key[i]) /\ (i = CA \/ Writable(key[i]))

-----------------------------------------------------------------------------
(* The steps of a run                                                      *)

Active(p) == pc[p] \notin Resting

Goto(p, step) == pc' = [pc EXCEPT ![p] = step]

Untouched == UNCHANGED <<fixed, runVars, launches, kills>>

\* The end of a run, and what the history remembers of it.
Ends(p, how) ==
  /\ Goto(p, how)
  /\ round' = [round EXCEPT ![p] = 1]
  /\ at' = [at EXCEPT ![p] = CA]
  /\ pass' = [pass EXCEPT ![p] = Nothing]
  /\ todo' = [todo EXCEPT ![p] = {}]
  /\ ended' = how
  /\ LET renewed == how = "done" /\ asked[p].ca IN
     cut' = IF renewed /\ solo[p] THEN {}
            ELSE cut \union
                 (CASE how = "failed" -> {"failure"}
                    [] how = "killed" -> {IF asked[p].ca THEN "ca" ELSE "certs"}
                    [] how = "done"   -> {}) \union
                 (IF how # "done" /\ cut \cap {"failure", "ca", "certs"} # {}
                  THEN {"again"} ELSE {}) \union
                 (IF asked[p].config /\ ~renewed THEN {"config"} ELSE {})

Moves(p, step) == Goto(p, step) /\ UNCHANGED <<ended, cut>>

Fails(p) ==
  /\ Ends(p, "failed")
  /\ UNCHANGED <<config, pemFiles>> /\ Untouched

\* A new run begins, of either command with flags or of a start, without.  A start
\* of postgres passes over the configurations once.  What ended before is forgotten
\* but for the history.
Launch(p) ==
  LET others == {q \in Proc \ {p} : Active(q)}
      alone == others = {} /\ "overlap" \notin cut
      Keep(f, default) == [q \in Proc |-> IF q \in others THEN f[q] ELSE default] IN
  /\ ~Active(p)
  /\ launches < IF alone THEN MaxLaunches ELSE MaxTogether
  /\ alone \/ kills = 0
  /\ \E f \in Flags :
       LET makesCA == ~Complete(CA) \/ f.ca \/ \E q \in others : asked[q].ca IN
       /\ asked' = [Keep(asked, NoFlags) EXCEPT ![p] = f]
       /\ \E passes \in 1..2 :
            /\ passes = 1 => kind = "postgres" /\ f = NoFlags
            /\ round' = [round EXCEPT ![p] = 3 - passes]
       /\ cut' = cut \union (IF others = {} THEN {}
                             ELSE IF makesCA THEN {"overlap", "race"} ELSE {"overlap"})
  /\ solo' = [q \in Proc |-> others = {}]
  /\ stuck' = [Keep(stuck, FALSE) EXCEPT ![p] = \E i \in All : Locked(i)]
  /\ pc' = [Keep(pc, "idle") EXCEPT ![p] = "caConfig"]
  /\ launches' = launches + 1
  /\ UNCHANGED <<fixed, config, pemFiles, at, pass, todo, ended, kills>>

\* ---- configurations

\* A configuration that is there is kept, and must be readable, unless it is to
\* be overwritten.
Kept(p, i) == Exists(config[i]) /\ ~asked[p].config

\* After the configuration of certificate i: the next one, the second pass, or
\* the generator of the CA.
NextConfig(p, i) ==
  IF i < Servers[kind]
  THEN at' = [at EXCEPT ![p] = i + 1] /\ Moves(p, "certConfig") /\ UNCHANGED round
  ELSE /\ at' = [at EXCEPT ![p] = CA]
       /\ round' = [round EXCEPT ![p] = 2]
       /\ Moves(p, IF round[p] = 1 THEN "caConfig" ELSE "check")

KeepConfig(p) ==
  /\ pc[p] \in {"caConfig", "certConfig"}
  /\ Kept(p, at[p]) /\ config[at[p]] # Blank
  /\ pass' = [pass EXCEPT ![p] = IF at[p] = CA THEN config[CA] ELSE @]
  /\ NextConfig(p, at[p])
  /\ UNCHANGED <<config, pemFiles, todo>> /\ Untouched

\* JSON.parse refuses an empty file.
BlankConfig(p) ==
  /\ pc[p] \in {"caConfig", "certConfig"}
  /\ Kept(p, at[p]) /\ config[at[p]] = Blank
  /\ Fails(p)

\* The passphrase of a new CA configuration is that of the run configuration or
\* a random one.  ensureFile creates the file, writeFile truncates it.
OpenConfig(p) ==
  /\ pc[p] \in {"caConfig", "certConfig"} /\ ~Kept(p, at[p])
  /\ AnyLeft(PassphrasesInUse)
  /\ pass' = [pass EXCEPT ![p] =
       IF at[p] # CA THEN @
       ELSE IF given # Nothing THEN given ELSE Fresh(PassphrasesInUse)]
  /\ config' = [config EXCEPT ![at[p]] = Blank]
  /\ Moves(p, IF at[p] = CA THEN "writeCaConfig" ELSE "writeCertConfig")
  /\ UNCHANGED <<pemFiles, round, at, todo>> /\ Untouched

\* Mutant: each configuration is written with a passphrase of its own.
WriteConfigRedrawn(p) ==
  /\ pc[p] \in {"writeCaConfig", "writeCertConfig"}
  /\ config' = [config EXCEPT ![at[p]] =
                  IF given # Nothing THEN given ELSE Fresh(PassphrasesInUse)]
  /\ NextConfig(p, at[p])
  /\ UNCHANGED <<pemFiles, pass, todo>> /\ Untouched

WriteConfig(p) ==
  /\ pc[p] \in {"writeCaConfig", "writeCertConfig"}
  /\ config' = [config EXCEPT ![at[p]] = pass[p]]
  /\ NextConfig(p, at[p])
  /\ UNCHANGED <<pemFiles, pass, todo>> /\ Untouched

-----------------------------------------------------------------------------
(* The generator of certificate at[p]                                      *)

\* Mutant: --overwriteCA leaves the CA alone.
ForcedCertsOnly(p) == at[p] # CA /\ (asked[p].ca \/ asked[p].certs)

Forced(p) == asked[p].ca \/ (at[p] # CA /\ asked[p].certs)

\* Mutant: one certificate too many.
NextCertPastEnd(p, i) ==
  IF i <= Servers[kind]
  THEN at' = [at EXCEPT ![p] = i + 1] /\ Moves(p, "check")
  ELSE Moves(p, "permissions") /\ UNCHANGED at

\* After certificate i: the next one, or the permissions of the files.
NextCert(p, i) ==
  IF i < Servers[kind]
  THEN at' = [at EXCEPT ![p] = i + 1] /\ Moves(p, "check")
  ELSE Moves(p, "permissions") /\ UNCHANGED at

\* The configuration is read, and key and certificate are looked for: both there
\* are kept or unlinked, one of them is written over.
Check(p) ==
  /\ pc[p] = "check" /\ config[at[p]] \notin {Nothing, Blank}
  /\ pass' = [pass EXCEPT ![p] = config[at[p]]]
  /\ LET both == Complete(at[p]) IN
     /\ todo' = [todo EXCEPT ![p] = IF both /\ Forced(p) THEN {"key", "cert"} ELSE {}]
     /\ IF both /\ ~Forced(p) THEN NextCert(p, at[p])
        ELSE Moves(p, IF both THEN "unlink" ELSE "genrsa") /\ UNCHANGED at
  /\ UNCHANGED <<config, pemFiles, round>> /\ Untouched

CheckFails(p) ==
  /\ pc[p] = "check" /\ config[at[p]] \in {Nothing, Blank}
  /\ Fails(p)

\* Both are unlinked side by side; it does not matter if one is gone already.
Unlink(p) ==
  /\ pc[p] = "unlink"
  /\ \E f \in todo[p] :
       /\ key' = IF f = "key" THEN [key EXCEPT ![at[p]] = Nothing] ELSE key
       /\ cert' = IF f = "cert" THEN [cert EXCEPT ![at[p]] = Nothing] ELSE cert
       /\ todo' = [todo EXCEPT ![p] = @ \ {f}]
       /\ Moves(p, IF todo[p] = {f} THEN "genrsa" ELSE "unlink")
  /\ UNCHANGED <<config, csr, chain, bundle, round, at, pass>> /\ Untouched

\* Only the key of the CA has a passphrase, that of its configuration.
Genrsa(p) ==
  /\ pc[p] = "genrsa" /\ Writable(key[at[p]])
  /\ AnyLeft(KeysInUse)
  /\ key' = [key EXCEPT ![at[p]] =
               [id |-> Fresh(KeysInUse),
                pass |-> IF at[p] = CA THEN pass[p] ELSE Nothing,
                guarded |-> IF Exists(@) THEN @.guarded ELSE FALSE]]
  /\ Moves(p, IF at[p] = CA THEN "chmod" ELSE "request")
  /\ UNCHANGED <<config, cert, csr, chain, bundle, round, at, pass, todo>>
  /\ Untouched

\* Mode 400, of the key of the CA.
Chmod(p) ==
  /\ pc[p] = "chmod" /\ Exists(key[CA])
  /\ key' = [key EXCEPT ![CA].guarded = TRUE]
  /\ Moves(p, "sign")
  /\ UNCHANGED <<config, cert, csr, chain, bundle, round, at, pass, todo>>
  /\ Untouched

\* Mutant: a signing request that is there is used again.
RequestOnce(p) ==
  /\ pc[p] = "request" /\ Readable(at[p])
  /\ csr' = [csr EXCEPT ![at[p]] = IF @ = Nothing THEN key[at[p]].id ELSE @]
  /\ Moves(p, "sign")
  /\ UNCHANGED <<config, key, cert, chain, bundle, round, at, pass, todo>>
  /\ Untouched

Request(p) ==
  /\ pc[p] = "request" /\ Readable(at[p])
  /\ csr' = [csr EXCEPT ![at[p]] = key[at[p]].id]
  /\ Moves(p, "sign")
  /\ UNCHANGED <<config, key, cert, chain, bundle, round, at, pass, todo>>
  /\ Untouched

\* The files of the CA must be there, its passphrase fit its key, its key fit
\* its certificate; the CA signs itself, before it has a certificate.
CanSign(p) ==
  /\ Exists(key[CA])
  /\ key[CA].pass = pass[p]
  /\ at[p] # CA => Exists(cert[CA]) /\ cert[CA].key = key[CA].id
  /\ Writable(cert[at[p]])

Sign(p) ==
  /\ pc[p] = "sign" /\ CanSign(p)
  /\ cert' = [cert EXCEPT ![at[p]] =
                [key |-> IF at[p] = CA THEN key[CA].id ELSE csr[at[p]],
                 ca |-> key[CA].id,
                 guarded |-> IF Exists(@) THEN @.guarded ELSE FALSE]]
  /\ IF at[p] = CA THEN NextCert(p, CA) ELSE Moves(p, "chain") /\ UNCHANGED at
  /\ UNCHANGED <<config, key, csr, chain, bundle, round, pass, todo>> /\ Untouched

\* The full chain: the certificate and that of the CA.
WriteChain(p) ==
  /\ pc[p] = "chain" /\ Exists(cert[at[p]]) /\ Exists(cert[CA])
  /\ chain' = [chain EXCEPT ![at[p]] =
       [key |-> cert[at[p]].key, ca |-> cert[at[p]].ca, top |-> cert[CA].key]]
  /\ IF kind = "mongo" THEN Moves(p, "bundle") /\ UNCHANGED at ELSE NextCert(p, at[p])
  /\ UNCHANGED <<config, key, cert, csr, bundle, round, pass, todo>> /\ Untouched

\* What mongod reads: the certificate and its key.
WriteBundle(p) ==
  /\ pc[p] = "bundle" /\ Exists(cert[at[p]]) /\ Readable(at[p])
  /\ bundle' = [bundle EXCEPT ![at[p]] =
       [key |-> cert[at[p]].key, ca |-> cert[at[p]].ca, private |-> key[at[p]].id]]
  /\ NextCert(p, at[p])
  /\ UNCHANGED <<config, key, cert, csr, chain, round, pass, todo>> /\ Untouched

\* A command or a read that finds its files missing, not matching or forbidden.
GenerateFails(p) ==
  /\ \/ pc[p] = "genrsa" /\ ~Writable(key[at[p]])
     \/ pc[p] = "chmod" /\ ~Exists(key[CA])
     \/ pc[p] = "request" /\ ~Readable(at[p])
     \/ pc[p] = "sign" /\ ~CanSign(p)
     \/ pc[p] = "chain" /\ ~(Exists(cert[at[p]]) /\ Exists(cert[CA]))
     \/ pc[p] = "bundle" /\ ~(Exists(cert[at[p]]) /\ Readable(at[p]))
  /\ Fails(p)

\* mongo: every file that is named like a key gets mode 600, that of the CA too.
MongoPermissions(p) ==
  /\ pc[p] = "permissions" /\ kind = "mongo"
  /\ key' = [i \in Number |-> IF Exists(key[i]) THEN [key[i] EXCEPT !.guarded = FALSE]
                              ELSE key[i]]
  /\ UNCHANGED cert

\* postgres: a one-off container gives key and certificate of the server and the
\* certificate of the CA to the user of the container; without a key it does not run.
PostgresPermissions(p) ==
  LET Guard(file) == IF Exists(file) THEN [file EXCEPT !.guarded = TRUE] ELSE file IN
  /\ pc[p] = "permissions" /\ kind = "postgres"
  /\ IF Exists(key[1])
     THEN /\ key' = [key EXCEPT ![1] = Guard(@)]
          /\ cert' = [cert EXCEPT ![CA] = Guard(@), ![1] = Guard(@)]
     ELSE UNCHANGED <<key, cert>>

Permissions(p) ==
  /\ MongoPermissions(p) \/ PostgresPermissions(p)
  /\ Ends(p, "done")
  /\ UNCHANGED <<config, csr, chain, bundle>> /\ Untouched

\* The run is killed between two steps.
Kill(p) ==
  /\ Active(p) /\ kills < MaxKills /\ "overlap" \notin cut
  /\ Ends(p, "killed")
  /\ kills' = kills + 1
  /\ UNCHANGED <<fixed, config, pemFiles, runVars, launches>>

-----------------------------------------------------------------------------

\* What a start of a new set leaves: keys 1 and up, passphrase 1.
Made(servers, k) ==
  /\ config = [i \in Number |-> IF i \in {CA} \union servers THEN 1 ELSE Nothing]
  /\ key = [i \in Number |->
              IF i \in {CA} \union servers
              THEN [id |-> i + 1, pass |-> IF i = CA THEN 1 ELSE Nothing,
                    guarded |-> k = "postgres"]
              ELSE Nothing]
  /\ cert = [i \in Number |->
               IF i \in {CA} \union servers
               THEN [key |-> i + 1, ca |-> 1, guarded |-> k = "postgres"]
               ELSE Nothing]
  /\ csr = [i \in Number |-> IF i \in servers THEN i + 1 ELSE Nothing]
  /\ chain = [i \in Number |->
                IF i \in servers THEN [key |-> i + 1, ca |-> 1, top |-> 1] ELSE Nothing]
  /\ bundle = [i \in Number |->
                 IF i \in servers /\ k = "mongo"
                 THEN [key |-> i + 1, ca |-> 1, private |-> i + 1] ELSE Nothing]

NotMade ==
  /\ config = [i \in Number |-> Nothing]
  /\ key = [i \in Number |-> Nothing]
  /\ cert = [i \in Number |-> Nothing]
  /\ csr = [i \in Number |-> Nothing]
  /\ chain = [i \in Number |-> Nothing]
  /\ bundle = [i \in Number |-> Nothing]

\* Nothing is there, or what a start has left.
Init ==
  /\ kind \in Kind /\ root \in BOOLEAN /\ given \in {Nothing, 1}
  /\ NotMade \/ Made(Mine, kind)
  /\ pc = [p \in Proc |-> "idle"]
  /\ asked = [p \in Proc |-> NoFlags]
  /\ round = [p \in Proc |-> 1]
  /\ at = [p \in Proc |-> CA]
  /\ pass = [p \in Proc |-> Nothing]
  /\ todo = [p \in Proc |-> {}]
  /\ solo = [p \in Proc |-> TRUE] /\ stuck = [p \in Proc |-> FALSE]
  /\ ended = "idle" /\ cut = {} /\ launches = 0 /\ kills = 0

Step(p) ==
  \/ KeepConfig(p) \/ BlankConfig(p) \/ OpenConfig(p) \/ WriteConfig(p)
  \/ Check(p) \/ CheckFails(p) \/ Unlink(p) \/ Genrsa(p) \/ Chmod(p)
  \/ Request(p) \/ Sign(p) \/ WriteChain(p) \/ WriteBundle(p)
  \/ GenerateFails(p) \/ Permissions(p)

Next == \E p \in Proc : Launch(p) \/ Step(p) \/ Kill(p)

Spec == Init /\ [][Next]_vars

-----------------------------------------------------------------------------
(* Properties                                                              *)

Still == \A p \in Proc : ~Active(p)

\* Key and certificate belong together.
Paired(i) == Exists(key[i]) /\ Exists(cert[i]) /\ cert[i].key = key[i].id

\* The members of the set and the clients have the CA that signed it.
Trusted(i) == Exists(cert[i]) /\ Exists(cert[CA]) /\ cert[i].ca = cert[CA].key

\* Chain and combined PEM are made of the files that are there.
Assembled(i) ==
  /\ Exists(chain[i]) /\ Exists(cert[i])
  /\ chain[i] = [key |-> cert[i].key, ca |-> cert[i].ca, top |-> cert[i].ca]
  /\ kind = "mongo" =>
       /\ Exists(bundle[i])
       /\ bundle[i] = [key |-> cert[i].key, ca |-> cert[i].ca, private |-> key[i].id]

\* When a run has ended well and no two have overlapped since all was made anew:
\* key and certificate of every server belong together, though a run was killed or
\* failed between them, unless a second one was; the CA that is there has signed
\* them unless a run that overwrites the CA was killed or any failed; and chain and
\* PEM are of the same certificates unless any run was killed or failed
\* (certGenerator.ts:38 looks at key and certificate only, not at these).
EndsMatched ==
  Still /\ ended = "done" /\ "overlap" \notin cut =>
    \A i \in Mine :
      /\ "again" \notin cut => Paired(i)
      /\ cut \cap {"again", "ca", "failure"} = {} => Trusted(i)
      /\ cut \cap {"ca", "certs", "failure"} = {} => Assembled(i)

\* A run that overwrites everything and that nobody disturbs repairs whatever was
\* left behind: it does not fail, unless there was a file it could neither write nor
\* would unlink when it began.
RepairWorks ==
  \A p \in Proc :
    pc[p] = "failed" /\ solo[p] /\ ~stuck[p] =>
      ~(asked[p].config /\ asked[p].ca)

\* After a run that ended well the passphrase on file opens the key of the CA, for
\* the next certificate to be signed, unless configurations were written anew
\* without a new CA, or such a run was killed.
SignsAgain ==
  Still /\ ended = "done" /\ cut \cap {"overlap", "ca", "config"} = {} =>
    \A i \in All : config[i] = key[CA].pass

\* Of runs that overlap and end well each server has a key and the certificate of
\* that key, whoever wrote them; and the CA that is there has signed it, unless
\* one of the runs had to make or was to overwrite the CA.
OverlapsMatch ==
  Still /\ ended = "done" /\ cut \ {"config"} \in {{"overlap"}, {"overlap", "race"}} =>
    \A i \in Mine : Paired(i) /\ ("race" \notin cut => Trusted(i))

=============================================================================
