---------------------------- MODULE CertsProofs ----------------------------
(***************************************************************************)
(* Theorems about Certs, for any number of runs in any number of places,   *)
(* any number of servers and any flags.                                    *)
(***************************************************************************)
EXTENDS Certs, TLAPS

-----------------------------------------------------------------------------
(***************************************************************************)
(* Numbers, and what a run has in hand at each place.                      *)
(***************************************************************************)

Making == {"unlink", "genrsa", "chmod", "request", "sign"}
Assembling == {"chain", "bundle"}
Generating == {"check", "permissions"} \union Making \union Assembling
Configuring == {"caConfig", "writeCaConfig", "certConfig", "writeCertConfig"}

\* What is so of a run by where it is.
PlaceOf(p) ==
  /\ at[p] \in All
  /\ pc[p] \in {"caConfig", "writeCaConfig", "chmod"} \union Resting => at[p] = CA
  /\ pc[p] \in {"certConfig", "writeCertConfig", "request", "chain", "bundle"} => at[p] # CA
  /\ pc[p] = "permissions" => at[p] = Servers[kind]
  /\ pc[p] = "bundle" => kind = "mongo"
  /\ pc[p] = "unlink" <=> todo[p] # {}
  /\ pc[p] = "sign" /\ at[p] # CA => csr[at[p]] \in Id
  /\ pc[p] \notin {"caConfig", "check", "permissions"} \union Resting => pass[p] \in Id

Placed == \A p \in Proc : PlaceOf(p)
Typed == TypeOK /\ Placed

\* The servers of either kind have numbers, after that of the CA.
LEMMA Numbers ==
  ASSUME kind \in Kind
  PROVE  /\ Servers[kind] \in Nat \ {0}
         /\ CA \in All /\ All \subseteq Number /\ Mine = All \ {CA}
         /\ All = 0..Servers[kind] /\ \A i \in All : i \in Nat
         /\ 1 \in All /\ 1 \in Number /\ CA \in Number
<1> DEFINE S == {Servers[k] : k \in Kind}
<1>1. Servers["mongo"] \in Nat \ {0} /\ Servers["postgres"] \in Nat \ {0}
  BY ServersAssumption DEF Kind
<1>2. S = {Servers["mongo"], Servers["postgres"]}
  BY DEF Kind
<1>3. PICK m \in S : \A y \in S : m >= y
  <2>1. CASE Servers["mongo"] >= Servers["postgres"]
    BY <1>1, <1>2, <2>1
  <2>2. CASE ~(Servers["mongo"] >= Servers["postgres"])
    BY <1>1, <1>2, <2>2
  <2> QED BY <2>1, <2>2
<1>4. Max(S) \in S /\ \A y \in S : Max(S) >= y
  BY <1>3 DEF Max
<1>5. Max(S) \in Nat /\ Servers[kind] \in Nat \ {0} /\ Max(S) >= Servers[kind]
  BY <1>1, <1>2, <1>4, ServersAssumption
<1>6. Number = 0..Max(S)
  BY DEF Number
<1>7. All \subseteq Number
  <2> SUFFICES ASSUME NEW i \in 0..Servers[kind] PROVE i \in 0..Max(S)
    BY <1>6 DEF All
  <2> QED BY <1>5
<1> QED BY <1>5, <1>7 DEF All, Mine, CA

LEMMA InitTyped == Init => Typed
<1> SUFFICES ASSUME Init PROVE Typed
  OBVIOUS
<1>1. /\ kind \in Kind /\ Servers[kind] \in Nat \ {0} /\ CA \in All
      /\ CA \in Number /\ Number \subseteq Nat /\ All \subseteq Number
  BY Numbers DEF Init, Number
<1>2. MaxId \in Nat /\ MaxLaunches \in Nat /\ MaxKills \in Nat
  BY BoundAssumption
<1>3. FilesTypeOK
  <2>1. kind \in Kind /\ root \in BOOLEAN /\ given \in Id \union {Nothing}
    BY <1>1, <1>2, BoundAssumption DEF Init, Id
  <2>2. CASE NotMade
    BY <2>1, <2>2 DEF NotMade, FilesTypeOK
  <2>3. CASE Made(Mine, kind)
    <3>1. \A i \in {CA} \union Mine : i + 1 \in Id /\ 1 \in Id
      BY <1>1, <1>2, BoundAssumption DEF Mine, CA, Id
    <3> HIDE DEF Id
    <3> QED BY <1>1, <2>1, <2>3, <3>1 DEF Made, FilesTypeOK, KeyFile, CertFile, ChainFile, BundleFile, CA
  <2> QED BY <2>2, <2>3 DEF Init
<1>4. RunsTypeOK
  BY <1>1 DEF Init, RunsTypeOK, Resting, Flag, NoFlags
<1>5. HistoryTypeOK
  BY <1>2 DEF Init, HistoryTypeOK, Resting
<1>6. Placed
  BY <1>1 DEF Init, Placed, PlaceOf, Resting
<1> QED BY <1>3, <1>4, <1>5, <1>6 DEF Typed, TypeOK

-----------------------------------------------------------------------------
(***************************************************************************)
(* What each step does.  Everything below is proved from these lemmas.     *)
(***************************************************************************)

OthersStay(p) ==
  \A q \in Proc \ {p} :
    /\ pc'[q] = pc[q] /\ at'[q] = at[q] /\ round'[q] = round[q]
    /\ pass'[q] = pass[q] /\ todo'[q] = todo[q]

\* A step of p that does not end it: from, to, and what it leaves as it is.
Onward(p, from, to) ==
  /\ pc[p] \in from /\ pc'[p] \in to
  /\ OthersStay(p)
  /\ UNCHANGED <<fixed, runVars, launches, kills, ended, cut>>
  /\ pc' \in [Proc -> Steps \union Resting]

\* Only file i of the family may be another one.
OnlyAt(files, new, i) == \A j \in Number \ {i} : new[j] = files[j]

LEMMA EndsDoes ==
  ASSUME Typed, NEW p \in Proc, NEW how \in {"done", "failed", "killed"}, Ends(p, how)
  PROVE  /\ OthersStay(p) /\ ended' = how
         /\ pc'[p] = how /\ at'[p] = CA /\ todo'[p] = {}
         /\ pc' \in [Proc -> Steps \union Resting] /\ round' \in [Proc -> 1..2]
         /\ at' \in [Proc -> Number] /\ pass' \in [Proc -> Id \union {Nothing}]
         /\ todo' \in [Proc -> SUBSET {"key", "cert"}]
         /\ cut' \subseteq {"overlap", "race", "ca", "certs", "config", "failure", "again"}
<1>1. CA \in Number
  BY Numbers DEF Typed, TypeOK, FilesTypeOK
<1>2. /\ pc' = [pc EXCEPT ![p] = how] /\ round' = [round EXCEPT ![p] = 1]
      /\ at' = [at EXCEPT ![p] = CA] /\ pass' = [pass EXCEPT ![p] = Nothing]
      /\ todo' = [todo EXCEPT ![p] = {}] /\ ended' = how
  BY DEF Ends, Goto
<1>3. OthersStay(p) /\ pc'[p] = how /\ at'[p] = CA /\ todo'[p] = {}
  BY <1>2 DEF Typed, TypeOK, RunsTypeOK, OthersStay
<1>4. /\ pc' \in [Proc -> Steps \union Resting] /\ round' \in [Proc -> 1..2]
      /\ at' \in [Proc -> Number] /\ pass' \in [Proc -> Id \union {Nothing}]
      /\ todo' \in [Proc -> SUBSET {"key", "cert"}]
  BY <1>1, <1>2 DEF Typed, TypeOK, RunsTypeOK, Resting
<1>5. cut' \subseteq {"overlap", "race", "ca", "certs", "config", "failure", "again"}
  BY DEF Ends, Typed, TypeOK, HistoryTypeOK
<1> QED BY <1>2, <1>3, <1>4, <1>5

\* After the configuration of certificate i.
NextConfigTo(p) ==
  \/ /\ at[p] < Servers[kind] /\ at'[p] = at[p] + 1
     /\ pc'[p] = "certConfig" /\ round'[p] = round[p]
  \/ /\ at[p] = Servers[kind] /\ at'[p] = CA /\ round'[p] = 2
     /\ pc'[p] = IF round[p] = 1 THEN "caConfig" ELSE "check"

LEMMA NextConfigDoes ==
  ASSUME Typed, NEW p \in Proc, NextConfig(p, at[p])
  PROVE  /\ pc' \in [Proc -> Steps \union Resting] /\ round' \in [Proc -> 1..2]
         /\ at' \in [Proc -> Number]
         /\ \A q \in Proc \ {p} : pc'[q] = pc[q] /\ at'[q] = at[q] /\ round'[q] = round[q]
         /\ UNCHANGED <<ended, cut>>
         /\ NextConfigTo(p)
<1>1. /\ Servers[kind] \in Nat \ {0} /\ at[p] \in 0..Servers[kind]
      /\ 0..Servers[kind] \subseteq Number /\ CA \in Number
  BY Numbers DEF Typed, TypeOK, FilesTypeOK, Placed, PlaceOf
<1>2. CASE at[p] < Servers[kind]
  <2>1. at[p] + 1 \in Number
    BY <1>1, <1>2
  <2>2. /\ at' = [at EXCEPT ![p] = at[p] + 1] /\ pc' = [pc EXCEPT ![p] = "certConfig"]
        /\ UNCHANGED <<round, ended, cut>>
    BY <1>2 DEF NextConfig, Moves, Goto
  <2> QED BY <1>2, <2>1, <2>2 DEF Typed, TypeOK, RunsTypeOK, Steps, NextConfigTo
<1>3. CASE ~(at[p] < Servers[kind])
  <2>1. at[p] = Servers[kind]
    BY <1>1, <1>3
  <2>2. /\ at' = [at EXCEPT ![p] = CA] /\ round' = [round EXCEPT ![p] = 2]
        /\ pc' = [pc EXCEPT ![p] = IF round[p] = 1 THEN "caConfig" ELSE "check"]
        /\ UNCHANGED <<ended, cut>>
    BY <1>3 DEF NextConfig, Moves, Goto
  <2> QED BY <1>1, <2>1, <2>2 DEF Typed, TypeOK, RunsTypeOK, Steps, NextConfigTo
<1> QED BY <1>2, <1>3

\* After certificate i.
NextCertTo(p) ==
  \/ at[p] < Servers[kind] /\ at'[p] = at[p] + 1 /\ pc'[p] = "check"
  \/ at[p] = Servers[kind] /\ at'[p] = at[p] /\ pc'[p] = "permissions"

LEMMA NextCertDoes ==
  ASSUME Typed, NEW p \in Proc, NextCert(p, at[p])
  PROVE  /\ pc' \in [Proc -> Steps \union Resting] /\ at' \in [Proc -> Number]
         /\ \A q \in Proc \ {p} : pc'[q] = pc[q] /\ at'[q] = at[q]
         /\ UNCHANGED <<ended, cut>> /\ NextCertTo(p)
<1>1. /\ Servers[kind] \in Nat \ {0} /\ at[p] \in 0..Servers[kind]
      /\ 0..Servers[kind] \subseteq Number
  BY Numbers DEF Typed, TypeOK, FilesTypeOK, Placed, PlaceOf
<1>2. CASE at[p] < Servers[kind]
  <2>1. at[p] + 1 \in Number
    BY <1>1, <1>2
  <2>2. /\ at' = [at EXCEPT ![p] = at[p] + 1] /\ pc' = [pc EXCEPT ![p] = "check"]
        /\ UNCHANGED <<ended, cut>>
    BY <1>2 DEF NextCert, Moves, Goto
  <2> QED BY <1>2, <2>1, <2>2 DEF Typed, TypeOK, RunsTypeOK, Steps, NextCertTo
<1>3. CASE ~(at[p] < Servers[kind])
  <2>1. at[p] = Servers[kind]
    BY <1>1, <1>3
  <2>2. /\ pc' = [pc EXCEPT ![p] = "permissions"] /\ UNCHANGED <<at, ended, cut>>
    BY <1>3 DEF NextCert, Moves, Goto
  <2> QED BY <2>1, <2>2 DEF Typed, TypeOK, RunsTypeOK, Steps, NextCertTo
<1> QED BY <1>2, <1>3

LEMMA MovesDoes ==
  ASSUME Typed, NEW p \in Proc, NEW to \in Steps, Moves(p, to)
  PROVE  /\ pc' \in [Proc -> Steps \union Resting] /\ pc'[p] = to
         /\ \A q \in Proc \ {p} : pc'[q] = pc[q]
         /\ UNCHANGED <<ended, cut>>
BY DEF Moves, Goto, Typed, TypeOK, RunsTypeOK

\* The other runs keep their places; a signing request is only ever replaced.
LEMMA OthersPlaced ==
  ASSUME Typed, NEW p \in Proc, OthersStay(p), UNCHANGED fixed,
         \A i \in Number : csr[i] \in Id => csr'[i] \in Id, PlaceOf(p)'
  PROVE  Placed'
<1> SUFFICES ASSUME NEW q \in Proc \ {p} PROVE PlaceOf(q)'
  BY DEF Placed
<1>1. PlaceOf(q) /\ at[q] \in Number
  BY DEF Typed, Placed, TypeOK, RunsTypeOK
<1> QED BY <1>1 DEF PlaceOf, OthersStay, fixed, All, CA

LEMMA KeepConfigDoes ==
  ASSUME Typed, NEW p \in Proc, KeepConfig(p)
  PROVE  /\ Typed' /\ Onward(p, {"caConfig", "certConfig"}, {"certConfig", "caConfig", "check"})
         /\ NextConfigTo(p) /\ config[at[p]] \in Id /\ ~asked[p].config
         /\ UNCHANGED <<config, pemFiles>>
         /\ pass'[p] = IF at[p] = CA THEN config[CA] ELSE pass[p]
<1>1. /\ pc[p] \in {"caConfig", "certConfig"} /\ ~asked[p].config /\ config[at[p]] \in Id
      /\ pass' = [pass EXCEPT ![p] = IF at[p] = CA THEN config[CA] ELSE pass[p]]
      /\ NextConfig(p, at[p]) /\ UNCHANGED <<config, pemFiles, todo>>
      /\ UNCHANGED <<fixed, runVars, launches, kills>>
  BY DEF KeepConfig, Kept, Exists, Untouched, Typed, TypeOK, FilesTypeOK, RunsTypeOK
<1>2. /\ pc' \in [Proc -> Steps \union Resting] /\ round' \in [Proc -> 1..2]
      /\ at' \in [Proc -> Number] /\ NextConfigTo(p) /\ UNCHANGED <<ended, cut>>
      /\ \A q \in Proc \ {p} : pc'[q] = pc[q] /\ at'[q] = at[q] /\ round'[q] = round[q]
  BY <1>1, NextConfigDoes
<1>3. /\ pass' \in [Proc -> Id \union {Nothing}]
      /\ pass'[p] = IF at[p] = CA THEN config[CA] ELSE pass[p]
      /\ OthersStay(p)
  BY <1>1, <1>2 DEF Typed, TypeOK, FilesTypeOK, RunsTypeOK, OthersStay
<1>4. TypeOK'
  BY <1>1, <1>2, <1>3
  DEF Typed, TypeOK, FilesTypeOK, RunsTypeOK, HistoryTypeOK, fixed, runVars, pemFiles
<1>5. PlaceOf(p) /\ kind \in Kind
  BY DEF Typed, Placed, TypeOK, FilesTypeOK
<1>6. PlaceOf(p)'
  BY <1>1, <1>2, <1>3, <1>5, Numbers
  DEF PlaceOf, NextConfigTo, fixed, Resting, Steps, All, CA
<1>7. Typed'
  BY <1>1, <1>3, <1>4, <1>6, OthersPlaced DEF Typed, pemFiles
<1>8. pc'[p] \in {"certConfig", "caConfig", "check"}
  BY <1>2 DEF NextConfigTo
<1> QED BY <1>1, <1>2, <1>3, <1>7, <1>8 DEF Onward

LEMMA OpenConfigDoes ==
  ASSUME Typed, NEW p \in Proc, OpenConfig(p)
  PROVE  /\ Typed' /\ Onward(p, {"caConfig", "certConfig"}, {"writeCaConfig", "writeCertConfig"})
         /\ pc'[p] = IF at[p] = CA THEN "writeCaConfig" ELSE "writeCertConfig"
         /\ at' = at /\ round' = round /\ UNCHANGED pemFiles
         /\ config[at[p]] = Nothing \/ asked[p].config
         /\ OnlyAt(config, config', at[p]) /\ config'[at[p]] = Blank
         /\ pass'[p] \in Id /\ (at[p] # CA => pass'[p] = pass[p])
<1>1. /\ pc[p] \in {"caConfig", "certConfig"} /\ (config[at[p]] = Nothing \/ asked[p].config)
      /\ config' = [config EXCEPT ![at[p]] = Blank]
      /\ Moves(p, IF at[p] = CA THEN "writeCaConfig" ELSE "writeCertConfig")
      /\ UNCHANGED <<pemFiles, round, at, todo>>
      /\ UNCHANGED <<fixed, runVars, launches, kills>>
  BY DEF OpenConfig, Kept, Exists, Untouched
<1>2. PlaceOf(p) /\ at[p] \in Number /\ pass[p] \in Id \union {Nothing}
  BY DEF Typed, Placed, TypeOK, RunsTypeOK
<1>3. PICK w \in Id \union {Nothing} :
        /\ pass' = [pass EXCEPT ![p] = w]
        /\ at[p] = CA => w \in Id
        /\ at[p] # CA => w = pass[p]
  <2>1. CASE at[p] # CA
    BY <1>2, <2>1 DEF OpenConfig
  <2>2. CASE at[p] = CA /\ given # Nothing
    BY <2>2 DEF OpenConfig, Typed, TypeOK, FilesTypeOK
  <2>3. CASE at[p] = CA /\ given = Nothing
    <3>1. Fresh(PassphrasesInUse) \in Id
      BY DEF OpenConfig, AnyLeft, Fresh
    <3> QED BY <2>3, <3>1 DEF OpenConfig
  <2> QED BY <2>1, <2>2, <2>3
<1>4. /\ pc' \in [Proc -> Steps \union Resting] /\ UNCHANGED <<ended, cut>>
      /\ \A q \in Proc \ {p} : pc'[q] = pc[q]
      /\ pc'[p] = IF at[p] = CA THEN "writeCaConfig" ELSE "writeCertConfig"
  BY <1>1, MovesDoes DEF Steps
<1>5. /\ pass' \in [Proc -> Id \union {Nothing}] /\ pass'[p] = w /\ OthersStay(p)
      /\ OnlyAt(config, config', at[p]) /\ config'[at[p]] = Blank
      /\ config' \in [Number -> Id \union {Nothing, Blank}]
  BY <1>1, <1>2, <1>3, <1>4 DEF Typed, TypeOK, FilesTypeOK, RunsTypeOK, OthersStay, OnlyAt
<1>6. pass'[p] \in Id
  BY <1>1, <1>2, <1>3, <1>5 DEF PlaceOf, Resting
<1>7. TypeOK'
  BY <1>1, <1>4, <1>5
  DEF Typed, TypeOK, FilesTypeOK, RunsTypeOK, HistoryTypeOK, fixed, runVars, pemFiles
<1>8. PlaceOf(p)'
  BY <1>1, <1>2, <1>4, <1>5, <1>6 DEF PlaceOf, fixed, Resting, Steps, All, CA
<1>9. Typed'
  BY <1>1, <1>5, <1>7, <1>8, OthersPlaced DEF Typed, pemFiles
<1> QED BY <1>1, <1>3, <1>4, <1>5, <1>6, <1>9 DEF Onward

LEMMA WriteConfigDoes ==
  ASSUME Typed, NEW p \in Proc, WriteConfig(p)
  PROVE  /\ Typed' /\ Onward(p, {"writeCaConfig", "writeCertConfig"}, {"certConfig", "caConfig", "check"})
         /\ NextConfigTo(p) /\ UNCHANGED <<pemFiles, pass>> /\ pass[p] \in Id
         /\ OnlyAt(config, config', at[p]) /\ config'[at[p]] = pass[p]
<1>1. /\ pc[p] \in {"writeCaConfig", "writeCertConfig"}
      /\ config' = [config EXCEPT ![at[p]] = pass[p]]
      /\ NextConfig(p, at[p]) /\ UNCHANGED <<pemFiles, pass, todo>>
      /\ UNCHANGED <<fixed, runVars, launches, kills>>
  BY DEF WriteConfig, Untouched
<1>2. /\ pc' \in [Proc -> Steps \union Resting] /\ round' \in [Proc -> 1..2]
      /\ at' \in [Proc -> Number] /\ NextConfigTo(p) /\ UNCHANGED <<ended, cut>>
      /\ \A q \in Proc \ {p} : pc'[q] = pc[q] /\ at'[q] = at[q] /\ round'[q] = round[q]
  BY <1>1, NextConfigDoes
<1>3. PlaceOf(p) /\ kind \in Kind /\ at[p] \in Number /\ pass[p] \in Id
  BY <1>1 DEF Typed, Placed, TypeOK, FilesTypeOK, RunsTypeOK, PlaceOf, Resting
<1>4. /\ OnlyAt(config, config', at[p]) /\ config'[at[p]] = pass[p]
      /\ config' \in [Number -> Id \union {Nothing, Blank}]
  BY <1>1, <1>3 DEF Typed, TypeOK, FilesTypeOK, OnlyAt
<1>5. TypeOK'
  BY <1>1, <1>2, <1>4
  DEF Typed, TypeOK, FilesTypeOK, RunsTypeOK, HistoryTypeOK, fixed, runVars, pemFiles
<1>6. PlaceOf(p)'
  BY <1>1, <1>2, <1>3, Numbers
  DEF PlaceOf, NextConfigTo, fixed, Resting, Steps, All, CA
<1>7. OthersStay(p) /\ pc'[p] \in {"certConfig", "caConfig", "check"}
  BY <1>1, <1>2 DEF OthersStay, NextConfigTo
<1>8. Typed'
  BY <1>1, <1>5, <1>6, <1>7, OthersPlaced DEF Typed, pemFiles
<1> QED BY <1>1, <1>2, <1>3, <1>4, <1>7, <1>8 DEF Onward

LEMMA CheckDoes ==
  ASSUME Typed, NEW p \in Proc, Check(p)
  PROVE  /\ Typed' /\ Onward(p, {"check"}, {"check", "permissions", "unlink", "genrsa"})
         /\ UNCHANGED <<config, pemFiles, round>>
         /\ config[at[p]] \in Id /\ pass'[p] = config[at[p]]
         /\ \/ /\ Complete(at[p]) /\ Forced(p) /\ pc'[p] = "unlink" /\ at' = at
               /\ todo'[p] = {"key", "cert"}
            \/ Complete(at[p]) /\ ~Forced(p) /\ NextCertTo(p)
            \/ ~Complete(at[p]) /\ pc'[p] = "genrsa" /\ at' = at
<1>1. /\ pc[p] = "check" /\ UNCHANGED <<config, pemFiles, round>>
      /\ UNCHANGED <<fixed, runVars, launches, kills>>
      /\ pass' = [pass EXCEPT ![p] = config[at[p]]]
  BY DEF Check, Untouched
<1>2. PlaceOf(p) /\ kind \in Kind /\ at[p] \in Number
  BY DEF Typed, Placed, TypeOK, FilesTypeOK, RunsTypeOK
<1>3. config[at[p]] \in Id
  BY <1>2 DEF Check, Typed, TypeOK, FilesTypeOK
<1>4. /\ pass' \in [Proc -> Id \union {Nothing}] /\ pass'[p] = config[at[p]]
      /\ \A q \in Proc \ {p} : pass'[q] = pass[q]
  BY <1>1, <1>3 DEF Typed, TypeOK, RunsTypeOK
<1> DEFINE t == IF Complete(at[p]) /\ Forced(p) THEN {"key", "cert"} ELSE {}
<1>5. /\ todo' \in [Proc -> SUBSET {"key", "cert"}] /\ todo'[p] = t
      /\ \A q \in Proc \ {p} : todo'[q] = todo[q]
  BY DEF Check, Typed, TypeOK, RunsTypeOK
<1>6. /\ pc' \in [Proc -> Steps \union Resting] /\ at' \in [Proc -> Number]
      /\ \A q \in Proc \ {p} : pc'[q] = pc[q] /\ at'[q] = at[q]
      /\ UNCHANGED <<ended, cut>>
      /\ \/ Complete(at[p]) /\ Forced(p) /\ pc'[p] = "unlink" /\ at' = at
         \/ Complete(at[p]) /\ ~Forced(p) /\ NextCertTo(p)
         \/ ~Complete(at[p]) /\ pc'[p] = "genrsa" /\ at' = at
  <2>1. CASE Complete(at[p]) /\ ~Forced(p)
    <3>1. NextCert(p, at[p])
      BY <2>1 DEF Check
    <3> QED BY <2>1, <3>1, NextCertDoes
  <2>2. CASE ~(Complete(at[p]) /\ ~Forced(p))
    <3>1. /\ Moves(p, IF Complete(at[p]) THEN "unlink" ELSE "genrsa") /\ at' = at
      BY <2>2 DEF Check
    <3>2. /\ pc' \in [Proc -> Steps \union Resting] /\ UNCHANGED <<ended, cut>>
          /\ pc'[p] = IF Complete(at[p]) THEN "unlink" ELSE "genrsa"
          /\ \A q \in Proc \ {p} : pc'[q] = pc[q]
      BY <3>1, MovesDoes DEF Steps
    <3> QED BY <2>2, <3>1, <3>2 DEF Typed, TypeOK, RunsTypeOK
  <2> QED BY <2>1, <2>2
<1>7. TypeOK'
  BY <1>1, <1>4, <1>5, <1>6
  DEF Typed, TypeOK, FilesTypeOK, RunsTypeOK, HistoryTypeOK, fixed, runVars, pemFiles
<1>8. PlaceOf(p)'
  BY <1>1, <1>2, <1>3, <1>4, <1>5, <1>6, Numbers
  DEF PlaceOf, NextCertTo, fixed, Resting, Steps, All, CA
<1>9. OthersStay(p) /\ pc'[p] \in {"check", "permissions", "unlink", "genrsa"}
  BY <1>1, <1>4, <1>5, <1>6 DEF OthersStay, NextCertTo
<1>10. Typed'
  BY <1>1, <1>7, <1>8, <1>9, OthersPlaced DEF Typed, pemFiles
<1> QED BY <1>1, <1>3, <1>4, <1>5, <1>6, <1>9, <1>10 DEF Onward

\* The types of key, certificate, request, chain and combined PEM.
PemTypeOK ==
  /\ key \in [Number -> KeyFile \union {Nothing}]
  /\ cert \in [Number -> CertFile \union {Nothing}]
  /\ csr \in [Number -> Id \union {Nothing}]
  /\ chain \in [Number -> ChainFile \union {Nothing}]
  /\ bundle \in [Number -> BundleFile \union {Nothing}]

\* A step of the generator that stays at the certificate.
LEMMA StaysDoes ==
  ASSUME Typed, NEW p \in Proc, pc[p] \in {"genrsa", "chmod", "request", "sign", "chain"},
         NEW to \in {"chmod", "request", "sign", "chain", "bundle"}, Moves(p, to),
         UNCHANGED <<config, round, at, pass, todo>>,
         UNCHANGED <<fixed, runVars, launches, kills>>, PemTypeOK',
         \A i \in Number : csr[i] \in Id => csr'[i] \in Id,
         to = "chmod" => at[p] = CA,
         to \in {"request", "chain", "bundle"} => at[p] # CA,
         to = "bundle" => kind = "mongo",
         to = "sign" /\ at[p] # CA => csr'[at[p]] \in Id
  PROVE  Typed' /\ Onward(p, {pc[p]}, {to})
<1>1. /\ pc' \in [Proc -> Steps \union Resting] /\ UNCHANGED <<ended, cut>>
      /\ \A q \in Proc \ {p} : pc'[q] = pc[q]
      /\ pc'[p] = to
  BY MovesDoes DEF Steps
<1>2. PlaceOf(p)
  BY DEF Typed, Placed
<1>3. TypeOK'
  BY <1>1
  DEF Typed, TypeOK, FilesTypeOK, RunsTypeOK, HistoryTypeOK, fixed, runVars, PemTypeOK
<1>4. PlaceOf(p)'
  BY <1>1, <1>2 DEF PlaceOf, fixed, Resting, All, CA
<1>5. OthersStay(p)
  BY <1>1 DEF OthersStay
<1>6. Typed'
  BY <1>3, <1>4, <1>5, OthersPlaced DEF Typed
<1> QED BY <1>1, <1>5, <1>6 DEF Onward

\* A step of the generator that is done with the certificate.
LEMMA LeavesDoes ==
  ASSUME Typed, NEW p \in Proc, pc[p] \in {"sign", "chain", "bundle"},
         NextCert(p, at[p]), UNCHANGED <<config, round, pass, todo>>,
         UNCHANGED <<fixed, runVars, launches, kills>>, PemTypeOK',
         \A i \in Number : csr[i] \in Id => csr'[i] \in Id
  PROVE  Typed' /\ Onward(p, {pc[p]}, {"check", "permissions"}) /\ NextCertTo(p)
<1>1. /\ pc' \in [Proc -> Steps \union Resting] /\ at' \in [Proc -> Number]
      /\ \A q \in Proc \ {p} : pc'[q] = pc[q] /\ at'[q] = at[q]
      /\ UNCHANGED <<ended, cut>> /\ NextCertTo(p)
  BY NextCertDoes
<1>2. PlaceOf(p) /\ kind \in Kind
  BY DEF Typed, Placed, TypeOK, FilesTypeOK
<1>3. TypeOK'
  BY <1>1
  DEF Typed, TypeOK, FilesTypeOK, RunsTypeOK, HistoryTypeOK, fixed, runVars, PemTypeOK
<1>4. PlaceOf(p)'
  BY <1>1, <1>2, Numbers DEF PlaceOf, NextCertTo, fixed, Resting, All, CA
<1>5. OthersStay(p) /\ pc'[p] \in {"check", "permissions"}
  BY <1>1 DEF OthersStay, NextCertTo
<1>6. Typed'
  BY <1>3, <1>4, <1>5, OthersPlaced DEF Typed
<1> QED BY <1>1, <1>5, <1>6 DEF Onward

LEMMA UnlinkDoes ==
  ASSUME Typed, NEW p \in Proc, Unlink(p)
  PROVE  /\ Typed' /\ Onward(p, {"unlink"}, {"unlink", "genrsa"})
         /\ UNCHANGED <<config, csr, chain, bundle, round, at, pass>>
         /\ OnlyAt(key, key', at[p]) /\ OnlyAt(cert, cert', at[p])
         /\ pc'[p] = IF todo'[p] = {} THEN "genrsa" ELSE "unlink"
         /\ \/ /\ todo'[p] = todo[p] \ {"key"} /\ "key" \in todo[p]
               /\ key'[at[p]] = Nothing /\ cert' = cert
            \/ /\ todo'[p] = todo[p] \ {"cert"} /\ "cert" \in todo[p]
               /\ cert'[at[p]] = Nothing /\ key' = key
<1>1. PICK f \in todo[p] :
        /\ key' = IF f = "key" THEN [key EXCEPT ![at[p]] = Nothing] ELSE key
        /\ cert' = IF f = "cert" THEN [cert EXCEPT ![at[p]] = Nothing] ELSE cert
        /\ todo' = [todo EXCEPT ![p] = @ \ {f}]
        /\ Moves(p, IF todo[p] = {f} THEN "genrsa" ELSE "unlink")
  BY DEF Unlink
<1>2. /\ pc[p] = "unlink" /\ UNCHANGED <<config, csr, chain, bundle, round, at, pass>>
      /\ UNCHANGED <<fixed, runVars, launches, kills>>
  BY DEF Unlink, Untouched
<1>3. /\ PlaceOf(p) /\ at[p] \in Number /\ todo[p] \in SUBSET {"key", "cert"}
      /\ f \in {"key", "cert"}
  BY DEF Typed, Placed, TypeOK, RunsTypeOK
<1>4. /\ todo' \in [Proc -> SUBSET {"key", "cert"}] /\ todo'[p] = todo[p] \ {f}
      /\ \A q \in Proc \ {p} : todo'[q] = todo[q]
  BY <1>1, <1>3 DEF Typed, TypeOK, RunsTypeOK
<1>5. /\ pc' \in [Proc -> Steps \union Resting] /\ UNCHANGED <<ended, cut>>
      /\ \A q \in Proc \ {p} : pc'[q] = pc[q]
      /\ pc'[p] = IF todo[p] = {f} THEN "genrsa" ELSE "unlink"
  BY <1>1, MovesDoes DEF Steps
<1>6. todo[p] = {f} <=> todo'[p] = {}
  BY <1>3, <1>4
<1>7. PemTypeOK' /\ OnlyAt(key, key', at[p]) /\ OnlyAt(cert, cert', at[p])
  BY <1>1, <1>2, <1>3 DEF Typed, TypeOK, FilesTypeOK, PemTypeOK, OnlyAt
<1>8. TypeOK'
  BY <1>2, <1>4, <1>5, <1>7
  DEF Typed, TypeOK, FilesTypeOK, RunsTypeOK, HistoryTypeOK, fixed, runVars, PemTypeOK
<1>9. PlaceOf(p)'
  BY <1>2, <1>3, <1>4, <1>5, <1>6 DEF PlaceOf, fixed, Resting, All, CA
<1>10. OthersStay(p)
  BY <1>2, <1>4, <1>5 DEF OthersStay
<1>11. Typed'
  BY <1>2, <1>8, <1>9, <1>10, OthersPlaced DEF Typed
<1>12. \/ /\ todo'[p] = todo[p] \ {"key"} /\ "key" \in todo[p]
          /\ key'[at[p]] = Nothing /\ cert' = cert
       \/ /\ todo'[p] = todo[p] \ {"cert"} /\ "cert" \in todo[p]
          /\ cert'[at[p]] = Nothing /\ key' = key
  BY <1>1, <1>3, <1>4 DEF Typed, TypeOK, FilesTypeOK
<1> QED BY <1>2, <1>5, <1>6, <1>7, <1>10, <1>11, <1>12 DEF Onward

LEMMA GenrsaDoes ==
  ASSUME Typed, NEW p \in Proc, Genrsa(p)
  PROVE  /\ Typed'
         /\ Onward(p, {"genrsa"}, {IF at[p] = CA THEN "chmod" ELSE "request"})
         /\ UNCHANGED <<config, cert, csr, chain, bundle, round, at, pass, todo>>
         /\ Writable(key[at[p]]) /\ OnlyAt(key, key', at[p])
         /\ Exists(key'[at[p]]) /\ Writable(key[at[p]])'
         /\ at[p] = CA => key'[CA].pass = pass[p]
<1> DEFINE new == [id |-> Fresh(KeysInUse),
                   pass |-> IF at[p] = CA THEN pass[p] ELSE Nothing,
                   guarded |-> IF Exists(key[at[p]]) THEN key[at[p]].guarded ELSE FALSE]
<1>1. /\ pc[p] = "genrsa" /\ Writable(key[at[p]]) /\ key' = [key EXCEPT ![at[p]] = new]
      /\ Moves(p, IF at[p] = CA THEN "chmod" ELSE "request")
      /\ UNCHANGED <<config, cert, csr, chain, bundle, round, at, pass, todo>>
      /\ UNCHANGED <<fixed, runVars, launches, kills>>
  BY DEF Genrsa, Untouched
<1>2. /\ PlaceOf(p) /\ at[p] \in Number /\ key[at[p]] \in KeyFile \union {Nothing}
      /\ pass[p] \in Id
  BY <1>1 DEF Typed, Placed, TypeOK, FilesTypeOK, RunsTypeOK, PlaceOf, Resting
<1>3. Fresh(KeysInUse) \in Id
  BY DEF Genrsa, AnyLeft, Fresh
<1>4. new \in KeyFile
  BY <1>2, <1>3 DEF KeyFile, Exists
<1>5. /\ PemTypeOK' /\ OnlyAt(key, key', at[p]) /\ key'[at[p]] = new
  BY <1>1, <1>2, <1>4 DEF Typed, TypeOK, FilesTypeOK, PemTypeOK, OnlyAt
<1>6. Typed' /\ Onward(p, {"genrsa"}, {IF at[p] = CA THEN "chmod" ELSE "request"})
  BY <1>1, <1>5, StaysDoes
<1>7. new # Nothing
  BY <1>4, FileAssumption
<1>8. root \/ ~new.guarded
  BY <1>1 DEF Writable, Exists
<1>9. Exists(key'[at[p]]) /\ Writable(key[at[p]])'
  <2> HIDE DEF new
  <2> QED BY <1>1, <1>5, <1>7, <1>8 DEF Exists, Writable, fixed
<1>10. at[p] = CA => key'[CA].pass = pass[p]
  BY <1>5
<1> HIDE DEF new
<1> QED BY <1>1, <1>5, <1>6, <1>9, <1>10

LEMMA ChmodDoes ==
  ASSUME Typed, NEW p \in Proc, Chmod(p)
  PROVE  /\ Typed' /\ Onward(p, {"chmod"}, {"sign"}) /\ at[p] = CA
         /\ UNCHANGED <<config, cert, csr, chain, bundle, round, at, pass, todo>>
         /\ OnlyAt(key, key', CA) /\ Exists(key[CA]) /\ Exists(key'[CA])
         /\ key'[CA].id = key[CA].id /\ key'[CA].pass = key[CA].pass
<1>1. /\ pc[p] = "chmod" /\ Exists(key[CA]) /\ Moves(p, "sign")
      /\ key' = [key EXCEPT ![CA] = [key[CA] EXCEPT !.guarded = TRUE]]
      /\ UNCHANGED <<config, cert, csr, chain, bundle, round, at, pass, todo>>
      /\ UNCHANGED <<fixed, runVars, launches, kills>>
  BY DEF Chmod, Untouched
<1>2. at[p] = CA /\ CA \in Number /\ key[CA] \in KeyFile
  BY <1>1, Numbers DEF Typed, Placed, TypeOK, FilesTypeOK, PlaceOf, Exists
<1> DEFINE new == [key[CA] EXCEPT !.guarded = TRUE]
<1>3. new \in KeyFile /\ new.id = key[CA].id /\ new.pass = key[CA].pass /\ new # Nothing
  BY <1>2, FileAssumption DEF KeyFile
<1>4. PemTypeOK' /\ OnlyAt(key, key', CA) /\ key'[CA] = new
  BY <1>1, <1>2, <1>3 DEF Typed, TypeOK, FilesTypeOK, PemTypeOK, OnlyAt
<1>5. Typed' /\ Onward(p, {"chmod"}, {"sign"})
  BY <1>1, <1>2, <1>4, StaysDoes
<1> HIDE DEF new
<1> QED BY <1>1, <1>2, <1>3, <1>4, <1>5 DEF Exists

LEMMA RequestDoes ==
  ASSUME Typed, NEW p \in Proc, Request(p)
  PROVE  /\ Typed' /\ Onward(p, {"request"}, {"sign"}) /\ at[p] # CA
         /\ UNCHANGED <<config, key, cert, chain, bundle, round, at, pass, todo>>
         /\ OnlyAt(csr, csr', at[p])
         /\ Exists(key[at[p]]) /\ csr'[at[p]] = key[at[p]].id
<1>1. /\ pc[p] = "request" /\ Exists(key[at[p]]) /\ Moves(p, "sign")
      /\ csr' = [csr EXCEPT ![at[p]] = key[at[p]].id]
      /\ UNCHANGED <<config, key, cert, chain, bundle, round, at, pass, todo>>
      /\ UNCHANGED <<fixed, runVars, launches, kills>>
  BY DEF Request, Readable, Untouched
<1>2. at[p] # CA /\ at[p] \in Number /\ key[at[p]] \in KeyFile
  BY <1>1 DEF Typed, Placed, TypeOK, FilesTypeOK, RunsTypeOK, PlaceOf, Exists
<1>3. key[at[p]].id \in Id
  BY <1>2 DEF KeyFile
<1>4. /\ PemTypeOK' /\ OnlyAt(csr, csr', at[p]) /\ csr'[at[p]] = key[at[p]].id
      /\ \A i \in Number : csr[i] \in Id => csr'[i] \in Id
  BY <1>1, <1>2, <1>3 DEF Typed, TypeOK, FilesTypeOK, PemTypeOK, OnlyAt
<1>5. Typed' /\ Onward(p, {"request"}, {"sign"})
  BY <1>1, <1>2, <1>3, <1>4, StaysDoes
<1> QED BY <1>1, <1>2, <1>4, <1>5

LEMMA SignDoes ==
  ASSUME Typed, NEW p \in Proc, Sign(p)
  PROVE  /\ Typed' /\ Onward(p, {"sign"}, {"check", "permissions", "chain"}) /\ CanSign(p)
         /\ UNCHANGED <<config, key, csr, chain, bundle, round, pass, todo>>
         /\ OnlyAt(cert, cert', at[p]) /\ Exists(cert'[at[p]])
         /\ cert'[at[p]].key = IF at[p] = CA THEN key[CA].id ELSE csr[at[p]]
         /\ cert'[at[p]].ca = key[CA].id
         /\ \/ at[p] = CA /\ NextCertTo(p)
            \/ at[p] # CA /\ at' = at /\ pc'[p] = "chain"
<1> DEFINE i == at[p]
           new == [key |-> IF i = CA THEN key[CA].id ELSE csr[i],
                   ca |-> key[CA].id,
                   guarded |-> IF Exists(cert[i]) THEN cert[i].guarded ELSE FALSE]
<1>1. /\ pc[p] = "sign" /\ CanSign(p) /\ cert' = [cert EXCEPT ![i] = new]
      /\ UNCHANGED <<config, key, csr, chain, bundle, round, pass, todo>>
      /\ UNCHANGED <<fixed, runVars, launches, kills>>
  BY DEF Sign, Untouched
<1>2. /\ i \in Number /\ CA \in Number /\ key[CA] \in KeyFile
      /\ cert[i] \in CertFile \union {Nothing} /\ (i # CA => csr[i] \in Id)
  BY <1>1, Numbers
  DEF Typed, Placed, TypeOK, FilesTypeOK, RunsTypeOK, PlaceOf, Exists, CanSign
<1>3. new \in CertFile
  BY <1>2 DEF KeyFile, CertFile, Exists
<1>4. PemTypeOK' /\ OnlyAt(cert, cert', i) /\ cert'[i] = new
  BY <1>1, <1>2, <1>3 DEF Typed, TypeOK, FilesTypeOK, PemTypeOK, OnlyAt
<1>5. /\ new # Nothing /\ new.ca = key[CA].id
      /\ new.key = IF i = CA THEN key[CA].id ELSE csr[i]
  <2>1. new # Nothing
    BY <1>3, FileAssumption
  <2> QED BY <2>1
<1> HIDE DEF new
<1>6. /\ Exists(cert'[i]) /\ cert'[i].ca = key[CA].id
      /\ cert'[i].key = IF i = CA THEN key[CA].id ELSE csr[i]
  BY <1>4, <1>5 DEF Exists
<1>7. CASE i = CA
  <2>1. NextCert(p, at[p])
    BY <1>7 DEF Sign
  <2> QED BY <1>1, <1>4, <1>6, <1>7, <2>1, LeavesDoes DEF Onward
<1>8. CASE i # CA
  <2>1. Moves(p, "chain") /\ at' = at
    BY <1>8 DEF Sign
  <2> QED BY <1>1, <1>4, <1>6, <1>8, <2>1, StaysDoes DEF Onward
<1> QED BY <1>7, <1>8

LEMMA WriteChainDoes ==
  ASSUME Typed, NEW p \in Proc, WriteChain(p)
  PROVE  /\ Typed' /\ Onward(p, {"chain"}, {"check", "permissions", "bundle"}) /\ at[p] # CA
         /\ UNCHANGED <<config, key, cert, csr, bundle, round, pass, todo>>
         /\ Exists(cert[at[p]]) /\ Exists(cert[CA]) /\ OnlyAt(chain, chain', at[p])
         /\ chain'[at[p]] =
              [key |-> cert[at[p]].key, ca |-> cert[at[p]].ca, top |-> cert[CA].key]
         /\ Exists(chain'[at[p]])
         /\ \/ kind = "postgres" /\ NextCertTo(p)
            \/ kind = "mongo" /\ at' = at /\ pc'[p] = "bundle"
<1> DEFINE i == at[p]
           new == [key |-> cert[i].key, ca |-> cert[i].ca, top |-> cert[CA].key]
<1>1. /\ pc[p] = "chain" /\ Exists(cert[i]) /\ Exists(cert[CA])
      /\ chain' = [chain EXCEPT ![i] = new]
      /\ UNCHANGED <<config, key, cert, csr, bundle, round, pass, todo>>
      /\ UNCHANGED <<fixed, runVars, launches, kills>>
  BY DEF WriteChain, Untouched
<1>2. /\ i \in Number /\ i # CA /\ cert[i] \in CertFile /\ cert[CA] \in CertFile
      /\ kind \in {"mongo", "postgres"}
  BY <1>1, Numbers
  DEF Typed, Placed, TypeOK, FilesTypeOK, RunsTypeOK, PlaceOf, Exists, Kind
<1>3. new \in ChainFile
  BY <1>2 DEF CertFile, ChainFile
<1>4. PemTypeOK' /\ OnlyAt(chain, chain', i) /\ chain'[i] = new
  BY <1>1, <1>2, <1>3 DEF Typed, TypeOK, FilesTypeOK, PemTypeOK, OnlyAt
<1>5. Exists(chain'[i])
  BY <1>3, <1>4, FileAssumption DEF Exists
<1>6. CASE kind = "mongo"
  <2>1. Moves(p, "bundle") /\ at' = at
    BY <1>6 DEF WriteChain
  <2> QED BY <1>1, <1>2, <1>4, <1>5, <1>6, <2>1, StaysDoes DEF Onward
<1>7. CASE kind = "postgres"
  <2>1. NextCert(p, at[p])
    BY <1>7 DEF WriteChain
  <2> QED BY <1>1, <1>2, <1>4, <1>5, <1>7, <2>1, LeavesDoes DEF Onward
<1> QED BY <1>2, <1>6, <1>7

LEMMA WriteBundleDoes ==
  ASSUME Typed, NEW p \in Proc, WriteBundle(p)
  PROVE  /\ Typed' /\ Onward(p, {"bundle"}, {"check", "permissions"}) /\ at[p] # CA
         /\ UNCHANGED <<config, key, cert, csr, chain, round, pass, todo>>
         /\ OnlyAt(bundle, bundle', at[p]) /\ Exists(bundle'[at[p]])
         /\ bundle'[at[p]] =
              [key |-> cert[at[p]].key, ca |-> cert[at[p]].ca, private |-> key[at[p]].id]
         /\ NextCertTo(p)
<1> DEFINE i == at[p]
           new == [key |-> cert[i].key, ca |-> cert[i].ca, private |-> key[i].id]
<1>1. /\ pc[p] = "bundle" /\ Exists(cert[i]) /\ Exists(key[i]) /\ NextCert(p, at[p])
      /\ bundle' = [bundle EXCEPT ![i] = new]
      /\ UNCHANGED <<config, key, cert, csr, chain, round, pass, todo>>
      /\ UNCHANGED <<fixed, runVars, launches, kills>>
  BY DEF WriteBundle, Readable, Untouched
<1>2. i \in Number /\ i # CA /\ cert[i] \in CertFile /\ key[i] \in KeyFile
  BY <1>1 DEF Typed, Placed, TypeOK, FilesTypeOK, RunsTypeOK, PlaceOf, Exists
<1>3. new \in BundleFile
  BY <1>2 DEF CertFile, KeyFile, BundleFile
<1>4. PemTypeOK' /\ OnlyAt(bundle, bundle', i) /\ bundle'[i] = new
  BY <1>1, <1>2, <1>3 DEF Typed, TypeOK, FilesTypeOK, PemTypeOK, OnlyAt
<1>5. Exists(bundle'[i])
  BY <1>3, <1>4, FileAssumption DEF Exists
<1>6. Typed' /\ Onward(p, {"bundle"}, {"check", "permissions"}) /\ NextCertTo(p)
  BY <1>1, <1>4, LeavesDoes
<1> QED BY <1>1, <1>2, <1>4, <1>5, <1>6

-----------------------------------------------------------------------------
\* The end of a run, on whatever files it leaves.
LEMMA EndsTyped ==
  ASSUME Typed, NEW p \in Proc, NEW how \in {"done", "failed", "killed"}, Ends(p, how),
         UNCHANGED <<fixed, config, csr, runVars, launches>>, PemTypeOK',
         kills' \in 0..MaxKills
  PROVE  Typed'
<1>1. TypeOK'
  BY EndsDoes
  DEF Typed, TypeOK, FilesTypeOK, RunsTypeOK, HistoryTypeOK, fixed, runVars, PemTypeOK, Resting
<1>2. PlaceOf(p)'
  BY EndsDoes, Numbers
  DEF PlaceOf, Resting, Typed, TypeOK, FilesTypeOK, fixed, All, CA
<1> QED BY <1>1, <1>2, EndsDoes, OthersPlaced DEF Typed

LEMMA FailsDoes ==
  ASSUME Typed, NEW p \in Proc, Fails(p)
  PROVE  /\ Typed' /\ Ends(p, "failed")
         /\ UNCHANGED <<fixed, config, pemFiles, runVars, launches, kills>>
<1>1. /\ Ends(p, "failed")
      /\ UNCHANGED <<fixed, config, pemFiles, runVars, launches, kills>>
  BY DEF Fails, Untouched
<1>2. PemTypeOK' /\ kills' \in 0..MaxKills
  BY <1>1 DEF Typed, TypeOK, FilesTypeOK, HistoryTypeOK, PemTypeOK, pemFiles
<1> QED BY <1>1, <1>2, EndsTyped DEF pemFiles

LEMMA KillDoes ==
  ASSUME Typed, NEW p \in Proc, Kill(p)
  PROVE  /\ Typed' /\ Ends(p, "killed") /\ Active(p) /\ "overlap" \notin cut
         /\ UNCHANGED <<fixed, config, pemFiles, runVars, launches>>
<1>1. /\ Ends(p, "killed") /\ Active(p) /\ "overlap" \notin cut
      /\ UNCHANGED <<fixed, config, pemFiles, runVars, launches>>
  BY DEF Kill
<1>2. PemTypeOK' /\ kills' \in 0..MaxKills
  BY <1>1, BoundAssumption
  DEF Kill, Typed, TypeOK, FilesTypeOK, HistoryTypeOK, PemTypeOK, pemFiles
<1> QED BY <1>1, <1>2, EndsTyped DEF pemFiles

\* Nobody's file becomes another one by new permissions.
SameKeys ==
  /\ \A i \in Number : /\ Exists(key'[i]) <=> Exists(key[i])
                       /\ key'[i].id = key[i].id /\ key'[i].pass = key[i].pass
  /\ \A i \in Number : /\ Exists(cert'[i]) <=> Exists(cert[i])
                       /\ cert'[i].key = cert[i].key /\ cert'[i].ca = cert[i].ca

LEMMA PermissionsDoes ==
  ASSUME Typed, NEW p \in Proc, Permissions(p)
  PROVE  /\ Typed' /\ Ends(p, "done") /\ pc[p] = "permissions" /\ SameKeys
         /\ UNCHANGED <<fixed, config, csr, chain, bundle, runVars, launches, kills>>
<1>1. /\ Ends(p, "done") /\ pc[p] = "permissions"
      /\ UNCHANGED <<config, csr, chain, bundle>>
      /\ UNCHANGED <<fixed, runVars, launches, kills>>
  BY DEF Permissions, MongoPermissions, PostgresPermissions, Untouched
<1>2. /\ CA \in Number /\ 1 \in Number
      /\ \A i \in Number : key[i] \in KeyFile \union {Nothing}
      /\ \A i \in Number : cert[i] \in CertFile \union {Nothing}
      /\ key = [i \in Number |-> key[i]] /\ cert = [i \in Number |-> cert[i]]
  BY Numbers DEF Typed, TypeOK, FilesTypeOK
<1>3. \A k \in KeyFile, b \in BOOLEAN :
        LET n == [k EXCEPT !.guarded = b]
        IN  n \in KeyFile /\ n # Nothing /\ n.id = k.id /\ n.pass = k.pass
  BY FileAssumption DEF KeyFile
<1>4. \A c \in CertFile :
        LET n == [c EXCEPT !.guarded = TRUE]
        IN  n \in CertFile /\ n # Nothing /\ n.key = c.key /\ n.ca = c.ca
  BY FileAssumption DEF CertFile
<1>5. PemTypeOK' /\ SameKeys
  <2>1. CASE MongoPermissions(p)
    <3>1. /\ cert' = cert
          /\ key' = [i \in Number |-> IF Exists(key[i]) THEN [key[i] EXCEPT !.guarded = FALSE]
                                      ELSE key[i]]
      BY <2>1 DEF MongoPermissions
    <3>2. ASSUME NEW i \in Number
          PROVE  /\ key'[i] \in KeyFile \union {Nothing}
                 /\ Exists(key'[i]) <=> Exists(key[i])
                 /\ key'[i].id = key[i].id /\ key'[i].pass = key[i].pass
      BY <1>2, <1>3, <3>1 DEF Exists
    <3> QED BY <1>1, <3>1, <3>2 DEF PemTypeOK, SameKeys, Typed, TypeOK, FilesTypeOK
  <2>2. CASE PostgresPermissions(p)
    <3>1. CASE Exists(key[1])
      <4> DEFINE Guard(file) == IF Exists(file) THEN [file EXCEPT !.guarded = TRUE] ELSE file
      <4>1. /\ key' = [key EXCEPT ![1] = Guard(key[1])]
            /\ cert' = [cert EXCEPT ![CA] = Guard(cert[CA]), ![1] = Guard(cert[1])]
        BY <2>2, <3>1, <1>2 DEF PostgresPermissions, CA
      <4>2. ASSUME NEW i \in Number
            PROVE  /\ key'[i] \in KeyFile \union {Nothing}
                   /\ Exists(key'[i]) <=> Exists(key[i])
                   /\ key'[i].id = key[i].id /\ key'[i].pass = key[i].pass
        BY <1>2, <1>3, <4>1 DEF Exists
      <4>3. ASSUME NEW i \in Number
            PROVE  /\ cert'[i] \in CertFile \union {Nothing}
                   /\ Exists(cert'[i]) <=> Exists(cert[i])
                   /\ cert'[i].key = cert[i].key /\ cert'[i].ca = cert[i].ca
        BY <1>2, <1>4, <4>1 DEF Exists, CA
      <4> QED BY <1>1, <1>2, <4>1, <4>2, <4>3 DEF PemTypeOK, SameKeys, Typed, TypeOK, FilesTypeOK
    <3>2. CASE ~Exists(key[1])
      BY <1>1, <2>2, <3>2
      DEF PostgresPermissions, PemTypeOK, SameKeys, Typed, TypeOK, FilesTypeOK
    <3> QED BY <3>1, <3>2
  <2> QED BY <2>1, <2>2 DEF Permissions
<1>6. kills' \in 0..MaxKills
  BY <1>1 DEF Typed, TypeOK, HistoryTypeOK
<1> QED BY <1>1, <1>5, <1>6, EndsTyped

-----------------------------------------------------------------------------
\* The runs that go on next to p.
Others(p) == {q \in Proc \ {p} : Active(q)}

LEMMA LaunchDoes ==
  ASSUME Typed, NEW p \in Proc, Launch(p)
  PROVE  /\ Typed' /\ ~Active(p) /\ pc'[p] = "caConfig" /\ Active(p)'
         /\ UNCHANGED <<fixed, config, pemFiles, at, pass, todo, ended>>
         /\ \A q \in Others(p) :
              pc'[q] = pc[q] /\ round'[q] = round[q] /\ asked'[q] = asked[q] /\ stuck'[q] = stuck[q]
         /\ \A q \in Proc \ {p} : q \notin Others(p) => pc'[q] = "idle"
         /\ solo' = [q \in Proc |-> Others(p) = {}]
         /\ stuck'[p] = \E i \in All : Locked(i)
         /\ cut \subseteq cut' /\ cut' \subseteq cut \union {"overlap", "race"}
         /\ Others(p) = {} => cut' = cut
         /\ Others(p) # {} =>
              /\ "overlap" \in cut'
              /\ "race" \in cut' \/ (/\ cut' = cut \union {"overlap"} /\ Complete(CA)
                                     /\ \A q \in Others(p) \union {p} : ~asked'[q].ca)
<1>1. /\ ~Active(p) /\ launches' = launches + 1
      /\ UNCHANGED <<fixed, config, pemFiles, at, pass, todo, ended, kills>>
      /\ solo' = [q \in Proc |-> Others(p) = {}]
      /\ stuck' = [[q \in Proc |-> IF q \in Others(p) THEN stuck[q] ELSE FALSE]
                     EXCEPT ![p] = \E i \in All : Locked(i)]
      /\ pc' = [[q \in Proc |-> IF q \in Others(p) THEN pc[q] ELSE "idle"]
                  EXCEPT ![p] = "caConfig"]
  BY DEF Launch, Others
<1>2. launches < MaxLaunches
  BY BoundAssumption DEF Launch, Typed, TypeOK, HistoryTypeOK
<1>3. PICK f \in Flags :
        /\ asked' = [[q \in Proc |-> IF q \in Others(p) THEN asked[q] ELSE NoFlags]
                       EXCEPT ![p] = f]
        /\ \E passes \in 1..2 :
             round' = [[q \in Proc |-> round[q]] EXCEPT ![p] = 3 - passes]
        /\ cut' = cut \union
             (IF Others(p) = {} THEN {}
              ELSE IF ~Complete(CA) \/ f.ca \/ \E q \in Others(p) : asked[q].ca
              THEN {"overlap", "race"} ELSE {"overlap"})
  <2>1. round = [q \in Proc |-> round[q]]
    BY DEF Typed, TypeOK, RunsTypeOK
  <2> QED BY <2>1 DEF Launch, Others
<1>4. /\ asked' \in [Proc -> Flag] /\ asked'[p] = f
      /\ \A q \in Others(p) : asked'[q] = asked[q]
  BY <1>3, FlagsAssumption DEF Typed, TypeOK, RunsTypeOK, Flag, NoFlags, Others
<1>5. round' \in [Proc -> 1..2] /\ \A q \in Others(p) : round'[q] = round[q]
  BY <1>3 DEF Typed, TypeOK, RunsTypeOK, Others
<1>6. /\ pc' \in [Proc -> Steps \union Resting] /\ pc'[p] = "caConfig"
      /\ \A q \in Others(p) : pc'[q] = pc[q]
      /\ \A q \in Proc \ {p} : q \notin Others(p) => pc'[q] = "idle"
  BY <1>1 DEF Typed, TypeOK, RunsTypeOK, Steps, Resting, Others
<1>7. /\ solo' \in [Proc -> BOOLEAN] /\ stuck' \in [Proc -> BOOLEAN]
      /\ stuck'[p] = \E i \in All : Locked(i)
      /\ \A q \in Others(p) : stuck'[q] = stuck[q]
  BY <1>1 DEF Typed, TypeOK, RunsTypeOK, Others
<1>8. cut \subseteq cut' /\ cut' \subseteq cut \union {"overlap", "race"}
  BY <1>3
<1>9. TypeOK'
  <2>1. FilesTypeOK'
    BY <1>1 DEF Typed, TypeOK, FilesTypeOK, fixed, pemFiles
  <2>2. RunsTypeOK'
    BY <1>1, <1>4, <1>5, <1>6, <1>7 DEF Typed, TypeOK, RunsTypeOK
  <2>3. launches' \in 0..MaxLaunches
    BY <1>1, <1>2, BoundAssumption DEF Typed, TypeOK, HistoryTypeOK
  <2>4. HistoryTypeOK'
    BY <1>1, <1>8, <2>3 DEF Typed, TypeOK, HistoryTypeOK
  <2> QED BY <2>1, <2>2, <2>4 DEF TypeOK
<1>10. ASSUME NEW q \in Proc PROVE PlaceOf(q)'
  <2>1. PlaceOf(q)
    BY DEF Typed, Placed
  <2>2. CASE q = p
    BY <1>1, <1>6, <2>1, <2>2 DEF PlaceOf, Active, fixed, pemFiles, Resting, All, CA
  <2>3. CASE q \in Others(p)
    BY <1>1, <1>6, <2>1, <2>3 DEF PlaceOf, fixed, pemFiles, All, CA
  <2>4. CASE q # p /\ q \notin Others(p)
    <3>1. pc[q] \in Resting /\ pc'[q] = "idle"
      BY <1>6, <2>4 DEF Others, Active
    <3> QED BY <1>1, <2>1, <3>1 DEF PlaceOf, fixed, pemFiles, Resting, All, CA
  <2> QED BY <2>2, <2>3, <2>4
<1>11. Typed'
  BY <1>9, <1>10 DEF Typed, Placed
<1>12. /\ Others(p) = {} => cut' = cut
       /\ Others(p) # {} =>
            /\ "overlap" \in cut'
            /\ "race" \in cut' \/ (/\ cut' = cut \union {"overlap"} /\ Complete(CA)
                                   /\ \A q \in Others(p) \union {p} : ~asked'[q].ca)
  BY <1>3, <1>4
<1>13. Active(p)'
  BY <1>6 DEF Active, Resting
<1> QED BY <1>1, <1>4, <1>5, <1>6, <1>7, <1>8, <1>11, <1>12, <1>13

-----------------------------------------------------------------------------
(***************************************************************************)
(* Types.                                                                  *)
(***************************************************************************)

\* A run fails where it cannot go on.
FailsAt(p) ==
  \/ pc[p] \in {"caConfig", "certConfig"} /\ Kept(p, at[p]) /\ config[at[p]] = Blank
  \/ pc[p] = "check" /\ config[at[p]] \in {Nothing, Blank}
  \/ pc[p] = "genrsa" /\ ~Writable(key[at[p]])
  \/ pc[p] = "chmod" /\ ~Exists(key[CA])
  \/ pc[p] = "request" /\ ~Readable(at[p])
  \/ pc[p] = "sign" /\ ~CanSign(p)
  \/ pc[p] = "chain" /\ ~(Exists(cert[at[p]]) /\ Exists(cert[CA]))
  \/ pc[p] = "bundle" /\ ~(Exists(cert[at[p]]) /\ Readable(at[p]))

LEMMA FailingSteps ==
  ASSUME NEW p \in Proc, BlankConfig(p) \/ CheckFails(p) \/ GenerateFails(p)
  PROVE  Fails(p) /\ FailsAt(p) /\ Active(p)
BY DEF BlankConfig, CheckFails, GenerateFails, FailsAt, Active, Resting

LEMMA NextTyped ==
  ASSUME Typed, [Next]_vars
  PROVE  Typed'
<1>1. CASE UNCHANGED vars
  BY <1>1
  DEF vars, fixed, pemFiles, locals, runVars, Typed, TypeOK, FilesTypeOK, RunsTypeOK,
      HistoryTypeOK, Placed, PlaceOf, All
<1>2. ASSUME NEW p \in Proc, Launch(p) \/ Step(p) \/ Kill(p) PROVE Typed'
  <2>1. CASE BlankConfig(p) \/ CheckFails(p) \/ GenerateFails(p)
    BY <2>1, FailingSteps, FailsDoes
  <2>2. CASE Launch(p) \/ Kill(p) \/ Permissions(p)
    BY <2>2, LaunchDoes, KillDoes, PermissionsDoes
  <2>3. CASE KeepConfig(p) \/ OpenConfig(p) \/ WriteConfig(p) \/ Check(p) \/ Unlink(p)
    BY <2>3, KeepConfigDoes, OpenConfigDoes, WriteConfigDoes, CheckDoes, UnlinkDoes
  <2>4. CASE \/ Genrsa(p) \/ Chmod(p) \/ Request(p) \/ Sign(p)
             \/ WriteChain(p) \/ WriteBundle(p)
    BY <2>4, GenrsaDoes, ChmodDoes, RequestDoes, SignDoes, WriteChainDoes, WriteBundleDoes
  <2> QED BY <1>2, <2>1, <2>2, <2>3, <2>4 DEF Step
<1> QED BY <1>1, <1>2 DEF Next

\* All variables keep their types, whatever the runs do and however they overlap,
\* fail and are killed; and a run is only ever at certificates that are there.
THEOREM TypeCorrect == Spec => []TypeOK
<1>1. Typed => TypeOK
  BY DEF Typed
<1> QED BY InitTyped, NextTyped, <1>1, PTL DEF Spec

-----------------------------------------------------------------------------
(***************************************************************************)
(* The inductive invariant: of the history, of a run that has been alone   *)
(* since it began, and of the files, under what must not have happened for *)
(* them to be so.                                                          *)
(***************************************************************************)

Busy(p, i, steps) == at[p] = i /\ pc[p] \in steps
Passed(p, i) == pc[p] \in Generating /\ (i < at[p] \/ pc[p] = "permissions")
Absent(i) == key[i] = Nothing /\ cert[i] = Nothing
Unbroken == cut \cap {"ca", "certs", "failure"} = {}

\* Who runs next to another one is not alone, and the history knows of it.
HistoryInv ==
  /\ \A p \in Proc : Active(p) =>
       IF solo[p] THEN Others(p) = {}
       ELSE "overlap" \in cut /\ (asked[p].ca => "race" \in cut)
  /\ "again" \in cut => ~Unbroken
  /\ "race" \in cut => "overlap" \in cut

\* A run that overwrites configurations leaves one passphrase in all of them.
ConfigsOfRun(p) == asked[p].config =>
  /\ round[p] = 2 /\ pc[p] \in {"certConfig", "writeCertConfig"} =>
       \A j \in All : j < at[p] => config[j] = pass[p]
  /\ pc[p] \in Generating => config[CA] \in Id /\ \A j \in All : config[j] = config[CA]

\* What a run has left at certificate i; all is new if the CA is.
LeftByRun(p, i) ==
  /\ config[i] \in Id
  /\ asked[p].ca \/ {"overlap", "again"} \cap cut = {} => Paired(i)
  /\ asked[p].ca => /\ Trusted(i) /\ config[i] = key[CA].pass
                    /\ i # CA => Assembled(i)

PassedByRun(p) ==
  /\ pc[p] \in Generating /\ at[p] # CA => Complete(CA)
  /\ \A i \in All : Passed(p, i) => LeftByRun(p, i)

\* What a run has made so far of the certificate that it is at.
MadeByRun(p) ==
  /\ pc[p] \in Making \union Assembling => pass[p] = config[at[p]]
  /\ pc[p] = "unlink" => /\ "key" \notin todo[p] => key[at[p]] = Nothing
                         /\ "cert" \notin todo[p] => cert[at[p]] = Nothing
  /\ pc[p] \in {"chmod", "request", "sign"} => Exists(key[at[p]])
  /\ pc[p] \in {"chmod", "sign"} /\ at[p] = CA => key[CA].pass = pass[p]
  /\ pc[p] = "sign" /\ at[p] # CA => csr[at[p]] = key[at[p]].id
  /\ pc[p] \in Assembling => /\ Paired(at[p]) /\ Trusted(at[p])
                             /\ config[at[p]] = key[CA].pass
  /\ pc[p] = "bundle" =>
       chain[at[p]] = [key |-> cert[at[p]].key, ca |-> cert[at[p]].ca, top |-> cert[at[p]].ca]

\* A run that overwrites all finds nothing that it can neither write nor unlink.
RepairOfRun(p) == asked[p].config /\ asked[p].ca /\ ~stuck[p] =>
  /\ \A i \in All :
       pc[p] \notin Generating \/ at[p] < i \/ Busy(p, i, {"check"}) => ~Locked(i)
  /\ pc[p] = "genrsa" => Writable(key[at[p]])
  /\ pc[p] \in {"genrsa", "chmod", "request", "sign"} => Writable(cert[at[p]])
  /\ pc[p] \in {"request", "sign", "chain", "bundle"} => Readable(at[p])

OfRun(p) == ConfigsOfRun(p) /\ PassedByRun(p) /\ MadeByRun(p) /\ RepairOfRun(p)

SoloInv == \A p \in Proc : Active(p) /\ solo[p] => OfRun(p)

\* Of one run after another key and certificate belong together but while a run
\* makes them, if at most one was killed or failed.
WholeInv == {"overlap", "again"} \cap cut = {} =>
  \A i \in All : Complete(i) =>
    Paired(i) \/ \E p \in Proc : Busy(p, i, {"genrsa", "chmod", "request", "sign"})

\* If none was, either both are there, with what is made of them, or neither.
FreshAt(i) ==
  /\ Complete(i) => Paired(i)
  /\ Complete(i) \/ Absent(i) \/ \E p \in Proc : Busy(p, i, Making)
  /\ \A p \in Proc : Busy(p, i, {"genrsa"}) => Absent(i)
  /\ \A p \in Proc : Busy(p, i, {"chmod", "request", "sign"}) => cert[i] = Nothing
  /\ Complete(i) /\ i # CA =>
       Assembled(i) \/ \E p \in Proc : Busy(p, i, Making \union Assembling)

FreshInv == "overlap" \notin cut /\ Unbroken => \A i \in All : FreshAt(i)

\* However runs overlap, the last one that makes a key of a server requests and
\* signs a certificate of the key that is there.
Settling(i) ==
  \/ \E p \in Proc : Busy(p, i, {"unlink", "genrsa", "request"})
  \/ /\ Exists(key[i])
     /\ IF \E p \in Proc : Busy(p, i, {"sign"}) THEN csr[i] = key[i].id ELSE Paired(i)

SettlingAt(i) ==
  /\ Absent(i) \/ Settling(i)
  /\ ended = "done" => Settling(i)
  /\ \A p \in Proc : Passed(p, i) \/ Busy(p, i, Making \union Assembling) => Settling(i)

SettlingInv == Unbroken => \A i \in Mine : SettlingAt(i)

\* Without a run that overwrites or has to make the CA next to another one, what is
\* signed is signed by the CA that is there.
TrustPremise ==
  /\ cut \cap {"again", "ca", "failure", "race"} = {}
  /\ \A p \in Proc : Active(p) => ~asked[p].ca

TrustHolds ==
  /\ \A i \in All : Exists(cert[i]) => Trusted(i)
  /\ Exists(cert[CA]) => Paired(CA)
  /\ \A p \in Proc : Busy(p, CA, Making) => cert[CA] = Nothing
  /\ "overlap" \in cut => Exists(cert[CA])

TrustInv == TrustPremise => TrustHolds

\* While configurations are kept, all have the passphrase of the key of the CA.
SignPremise ==
  /\ cut \cap {"overlap", "ca", "config"} = {}
  /\ \A p \in Proc : Active(p) => ~asked[p].config

SignHolds ==
  /\ \A i \in All : config[i] \in Id => config[i] = config[CA]
  /\ Exists(key[CA]) => config[CA] \in Id /\ key[CA].pass = config[CA]
  /\ config[CA] \notin Id => \A i \in Mine : config[i] = Nothing
  /\ \A p \in Proc : pc[p] = "writeCaConfig" => config[CA] = Blank
  /\ \A p \in Proc : pc[p] \in {"certConfig", "writeCertConfig"} =>
       config[CA] \in Id /\ pass[p] = config[CA]

SignInv == SignPremise => SignHolds

FilesInv == WholeInv /\ FreshInv /\ SettlingInv /\ TrustInv /\ SignInv
Properties == RepairWorks /\ EndsMatched /\ SignsAgain /\ OverlapsMatch

Inv == Typed /\ HistoryInv /\ SoloInv /\ FilesInv

-----------------------------------------------------------------------------
(***************************************************************************)
(* Frames.                                                                 *)
(***************************************************************************)

ConfigStep(p) == KeepConfig(p) \/ OpenConfig(p) \/ WriteConfig(p)
GenStep(p) ==
  \/ Check(p) \/ Unlink(p) \/ Genrsa(p) \/ Chmod(p) \/ Request(p) \/ Sign(p)
  \/ WriteChain(p) \/ WriteBundle(p)

SameAt(i) ==
  /\ key'[i] = key[i] /\ cert'[i] = cert[i] /\ csr'[i] = csr[i]
  /\ chain'[i] = chain[i] /\ bundle'[i] = bundle[i]

LEMMA ConfigStepDoes ==
  ASSUME Typed, NEW p \in Proc, ConfigStep(p)
  PROVE  /\ Typed' /\ Onward(p, Configuring, Configuring \union {"check"})
         /\ UNCHANGED pemFiles /\ (pc'[p] = "check" => at'[p] = CA)
<1>1. CASE KeepConfig(p)
  BY <1>1, KeepConfigDoes DEF Onward, Configuring, NextConfigTo
<1>2. CASE OpenConfig(p)
  BY <1>2, OpenConfigDoes DEF Onward, Configuring
<1>3. CASE WriteConfig(p)
  BY <1>3, WriteConfigDoes DEF Onward, Configuring, NextConfigTo
<1> QED BY <1>1, <1>2, <1>3 DEF ConfigStep

\* A step of a generator touches the files of the certificate it is at; it goes on
\* to the next one, or stays.
LEMMA GenStepDoes ==
  ASSUME Typed, NEW p \in Proc, GenStep(p)
  PROVE  /\ Typed'
         /\ Onward(p, {"check"} \union Making \union Assembling, Generating)
         /\ UNCHANGED <<config, round>>
         /\ \A i \in Number \ {at[p]} : SameAt(i)
         /\ NextCertTo(p) \/ (at'[p] = at[p] /\ pc'[p] \in Making \union Assembling)
<1>1. at[p] \in Number
  BY DEF Typed, TypeOK, RunsTypeOK
<1>2. CASE Check(p)
  BY <1>2, CheckDoes DEF Onward, Generating, Making, Assembling, SameAt, pemFiles
<1>3. CASE Unlink(p)
  BY <1>3, UnlinkDoes DEF Onward, Generating, Making, Assembling, SameAt, OnlyAt
<1>4. CASE Genrsa(p)
  BY <1>4, GenrsaDoes DEF Onward, Generating, Making, Assembling, SameAt, OnlyAt
<1>5. CASE Chmod(p)
  BY <1>5, ChmodDoes DEF Onward, Generating, Making, Assembling, SameAt, OnlyAt
<1>6. CASE Request(p)
  BY <1>6, RequestDoes DEF Onward, Generating, Making, Assembling, SameAt, OnlyAt
<1>7. CASE Sign(p)
  BY <1>7, SignDoes DEF Onward, Generating, Making, Assembling, SameAt, OnlyAt
<1>8. CASE WriteChain(p)
  BY <1>8, WriteChainDoes DEF Onward, Generating, Making, Assembling, SameAt, OnlyAt
<1>9. CASE WriteBundle(p)
  BY <1>9, WriteBundleDoes DEF Onward, Generating, Making, Assembling, SameAt, OnlyAt
<1> QED BY <1>2, <1>3, <1>4, <1>5, <1>6, <1>7, <1>8, <1>9 DEF GenStep

\* The four ways a run goes on, and how it may end.
LEMMA StepIsOne ==
  ASSUME NEW p \in Proc, Step(p)
  PROVE  ConfigStep(p) \/ GenStep(p) \/ (Fails(p) /\ FailsAt(p) /\ Active(p)) \/ Permissions(p)
BY FailingSteps DEF Step, ConfigStep, GenStep

\* What the history remembers of the end of a run.
Renewed(p, how) == how = "done" /\ solo[p] /\ asked[p].ca

LEMMA EndsCut ==
  ASSUME Typed, NEW p \in Proc, NEW how \in {"done", "failed", "killed"}, Ends(p, how)
  PROVE  /\ Renewed(p, how) => cut' = {}
         /\ ~Renewed(p, how) =>
              /\ cut \subseteq cut'
              /\ "overlap" \in cut' <=> "overlap" \in cut
              /\ "race" \in cut' <=> "race" \in cut
              /\ how = "done" => cut' \subseteq cut \union {"config"}
              /\ how = "failed" => "failure" \in cut'
              /\ how = "killed" => IF asked[p].ca THEN "ca" \in cut' ELSE "certs" \in cut'
              /\ how # "done" /\ ~Unbroken => "again" \in cut'
              /\ asked[p].config /\ ~(how = "done" /\ asked[p].ca) => "config" \in cut'
<1> USE DEF Unbroken
<1>1. CASE Renewed(p, how)
  BY <1>1 DEF Ends, Renewed
<1>2. CASE ~Renewed(p, how)
  <2> DEFINE a == CASE how = "failed" -> {"failure"}
                    [] how = "killed" -> {IF asked[p].ca THEN "ca" ELSE "certs"}
                    [] how = "done"   -> {}
             b == IF how # "done" /\ cut \cap {"failure", "ca", "certs"} # {}
                  THEN {"again"} ELSE {}
             c == IF asked[p].config /\ ~(how = "done" /\ asked[p].ca) THEN {"config"} ELSE {}
  <2>1. cut' = cut \union a \union b \union c
    BY <1>2 DEF Ends, Renewed
  <2>2. a = IF how = "failed" THEN {"failure"}
            ELSE IF how = "killed" THEN {IF asked[p].ca THEN "ca" ELSE "certs"} ELSE {}
    OBVIOUS
  <2> HIDE DEF a
  <2> QED BY <1>2, <2>1, <2>2
<1> QED BY <1>1, <1>2

LEMMA EndsHistory ==
  ASSUME Typed, HistoryInv, NEW p \in Proc, NEW how \in {"done", "failed", "killed"},
         Ends(p, how), Active(p), UNCHANGED runVars
  PROVE  HistoryInv'
<1>1. /\ OthersStay(p) /\ ~Active(p)'
  BY EndsDoes DEF Active, Resting
<1>2. CASE Renewed(p, how)
  <2>1. cut' = {}
    BY <1>2, EndsCut
  <2>2. \A q \in Proc : ~Active(q)'
    <3>1. Others(p) = {}
      BY <1>2 DEF HistoryInv, Renewed
    <3> QED BY <1>1, <3>1 DEF Others, Active, OthersStay
  <2> QED BY <2>1, <2>2 DEF HistoryInv
<1>3. CASE ~Renewed(p, how)
  <2>1. /\ cut \subseteq cut' /\ ("race" \in cut' => "overlap" \in cut')
    BY <1>3, EndsCut DEF HistoryInv
  <2>2. "again" \in cut' => ~Unbroken'
    <3>1. CASE how = "done"
      BY <1>3, <2>1, <3>1, EndsCut DEF HistoryInv, Unbroken
    <3>2. CASE how # "done"
      BY <1>3, <3>2, EndsCut DEF Unbroken
    <3> QED BY <3>1, <3>2
  <2>3. ASSUME NEW q \in Proc, Active(q)'
        PROVE  IF solo'[q] THEN Others(q)' = {}
               ELSE "overlap" \in cut' /\ (asked'[q].ca => "race" \in cut')
    <3>1. q # p /\ Active(q)
      BY <1>1, <2>3 DEF Active, OthersStay
    <3>2. Others(q)' \subseteq Others(q)
      BY <1>1, <3>1 DEF Others, Active, OthersStay
    <3> QED BY <2>1, <3>1, <3>2 DEF HistoryInv, runVars
  <2> QED BY <2>1, <2>2, <2>3 DEF HistoryInv
<1> QED BY <1>2, <1>3

LEMMA NextHistory ==
  ASSUME Typed, HistoryInv, [Next]_vars
  PROVE  HistoryInv'
<1>1. CASE UNCHANGED vars
  BY <1>1 DEF vars, runVars, HistoryInv, Others, Active, Unbroken
<1>2. ASSUME NEW p \in Proc, ConfigStep(p) \/ GenStep(p)
      PROVE  HistoryInv'
  <2>1. /\ OthersStay(p) /\ Active(p) /\ Active(p)' /\ UNCHANGED <<runVars, cut>>
    BY <1>2, ConfigStepDoes, GenStepDoes
    DEF Onward, Active, Resting, Configuring, Generating, Making, Assembling
  <2>2. \A q \in Proc : Active(q)' <=> Active(q)
    BY <2>1 DEF OthersStay, Active
  <2>3. \A q \in Proc : Others(q)' = Others(q)
    BY <2>2 DEF Others
  <2> QED BY <2>1, <2>2, <2>3 DEF HistoryInv, Unbroken, runVars
<1>3. ASSUME NEW p \in Proc, Fails(p), Active(p) PROVE HistoryInv'
  BY <1>3, FailsDoes, EndsHistory
<1>4. ASSUME NEW p \in Proc, Permissions(p) PROVE HistoryInv'
  BY <1>4, PermissionsDoes, EndsHistory DEF Active, Resting
<1>5. ASSUME NEW p \in Proc, Kill(p) PROVE HistoryInv'
  BY <1>5, KillDoes, EndsHistory
<1>6. ASSUME NEW p \in Proc, Launch(p) PROVE HistoryInv'
  <2>1. \A q \in Proc : Active(q)' <=> q \in Others(p) \union {p}
    BY <1>6, LaunchDoes DEF Others, Active, Resting
  <2>2. CASE Others(p) = {}
    <3>1. cut' = cut
      BY <1>6, <2>2, LaunchDoes
    <3>2. \A q \in Proc : Active(q)' => q = p /\ solo'[q] /\ Others(q)' = {}
      BY <1>6, <2>1, <2>2, LaunchDoes DEF Others
    <3> QED BY <3>1, <3>2 DEF HistoryInv, Unbroken
  <2>3. CASE Others(p) # {}
    <3>1. /\ "overlap" \in cut' /\ cut \subseteq cut' /\ \A q \in Proc : ~solo'[q]
          /\ cut' \subseteq cut \union {"overlap", "race"}
      BY <1>6, <2>3, LaunchDoes
    <3>2. \A q \in Proc : Active(q)' /\ asked'[q].ca => "race" \in cut'
      BY <1>6, <2>1, <2>3, LaunchDoes
    <3>3. "again" \in cut' => ~Unbroken'
      BY <3>1 DEF HistoryInv, Unbroken
    <3> QED BY <3>1, <3>2, <3>3 DEF HistoryInv
  <2> QED BY <2>2, <2>3
<1>7. ASSUME NEW p \in Proc, Step(p) PROVE HistoryInv'
  BY <1>2, <1>3, <1>4, <1>7, StepIsOne
<1> QED BY <1>1, <1>5, <1>6, <1>7 DEF Next


-----------------------------------------------------------------------------
(***************************************************************************)
(* A run that has been alone since it began.                               *)
(***************************************************************************)

LEMMA SoloConfig ==
  ASSUME Typed, NEW p \in Proc, ConfigStep(p), OfRun(p)
  PROVE  OfRun(p)'
<1>1. /\ Typed' /\ pc[p] \in Configuring /\ pc'[p] \in Configuring \union {"check"}
      /\ (pc'[p] = "check" => at'[p] = CA) /\ UNCHANGED <<pemFiles, fixed, runVars>>
  BY ConfigStepDoes DEF Onward
<1>2. /\ Servers[kind] \in Nat \ {0} /\ CA \in All /\ \A i \in All : i \in Nat /\ ~(i < CA)
      /\ All = 0..Servers[kind] /\ at[p] \in All /\ All \subseteq Number
      /\ (pc[p] \in {"caConfig", "writeCaConfig"} <=> at[p] = CA)
  BY <1>1, Numbers DEF Typed, TypeOK, FilesTypeOK, Placed, PlaceOf, CA, Configuring
<1>3. All' = All
  BY <1>1 DEF All, fixed
<1>4. ConfigsOfRun(p)'
  <2>1. SUFFICES ASSUME asked[p].config PROVE ConfigsOfRun(p)'
    BY <1>1 DEF ConfigsOfRun, runVars
  <2>2. CASE OpenConfig(p)
    <3>1. /\ round' = round /\ at' = at /\ OnlyAt(config, config', at[p])
          /\ pc'[p] = IF at[p] = CA THEN "writeCaConfig" ELSE "writeCertConfig"
          /\ (at[p] # CA => pass'[p] = pass[p])
          /\ pc[p] \in {"caConfig", "certConfig"}
      BY <2>2, OpenConfigDoes DEF Onward
    <3>2. ASSUME round[p] = 2, at[p] # CA, NEW j \in All, j < at[p]
          PROVE  config'[j] = pass'[p]
      <4>1. config[j] = pass[p] /\ j # at[p] /\ j \in Number
        BY <1>2, <2>1, <3>1, <3>2 DEF OfRun, ConfigsOfRun
      <4> QED BY <3>1, <3>2, <4>1 DEF OnlyAt
    <3> QED BY <1>3, <3>1, <3>2 DEF ConfigsOfRun, Generating, Making, Assembling
  <2>3. CASE KeepConfig(p)
    BY <2>1, <2>3, KeepConfigDoes
  <2>4. CASE WriteConfig(p)
    <3>1. /\ NextConfigTo(p) /\ pass' = pass /\ pass[p] \in Id
          /\ OnlyAt(config, config', at[p]) /\ config'[at[p]] = pass[p]
          /\ pc[p] \in {"writeCaConfig", "writeCertConfig"}
      BY <2>4, WriteConfigDoes DEF Onward
    <3>2. ASSUME round[p] = 2, NEW j \in All, j < at[p] \/ j = at[p]
          PROVE  config'[j] = pass[p]
      <4>1. CASE j = at[p]
        BY <3>1, <4>1
      <4>2. CASE j < at[p]
        <5>1. at[p] # CA /\ j # at[p] /\ j \in Number
          BY <1>2, <4>2
        <5>2. config[j] = pass[p]
          BY <1>2, <2>1, <3>1, <3>2, <4>2, <5>1 DEF OfRun, ConfigsOfRun
        <5> QED BY <3>1, <5>1, <5>2 DEF OnlyAt
      <4> QED BY <3>2, <4>1, <4>2
    <3>3. CASE at[p] < Servers[kind]
      <4>1. pc'[p] = "certConfig" /\ at'[p] = at[p] + 1 /\ round'[p] = round[p]
        BY <1>2, <3>1, <3>3 DEF NextConfigTo
      <4>2. \A j \in All : j < at[p] + 1 => j < at[p] \/ j = at[p]
        BY <1>2
      <4> QED BY <1>3, <3>1, <3>2, <4>1, <4>2
              DEF ConfigsOfRun, Generating, Making, Assembling
    <3>4. CASE ~(at[p] < Servers[kind])
      <4>1. /\ at[p] = Servers[kind]
            /\ pc'[p] = IF round[p] = 1 THEN "caConfig" ELSE "check"
        BY <1>2, <3>1, <3>4 DEF NextConfigTo
      <4>2. CASE round[p] = 1
        BY <4>1, <4>2 DEF ConfigsOfRun, Generating, Making, Assembling
      <4>3. CASE round[p] # 1
        <5>1. round[p] = 2
          BY <4>3 DEF Typed, TypeOK, RunsTypeOK
        <5>2. \A j \in All : j < at[p] \/ j = at[p]
          BY <1>2, <4>1
        <5>3. \A j \in All : config'[j] = pass[p]
          BY <3>2, <5>1, <5>2
        <5> QED BY <1>2, <1>3, <3>1, <4>1, <4>3, <5>3 DEF ConfigsOfRun, CA
      <4> QED BY <4>2, <4>3
    <3> QED BY <3>3, <3>4
  <2> QED BY <2>2, <2>3, <2>4 DEF ConfigStep
<1>5. PassedByRun(p)' /\ MadeByRun(p)'
  BY <1>1, <1>2, <1>3
  DEF PassedByRun, MadeByRun, Passed, Configuring, Generating, Making, Assembling
<1>6. RepairOfRun(p)'
  <2>1. asked[p].config /\ asked[p].ca /\ ~stuck[p] => \A i \in All : ~Locked(i)
    BY <1>1 DEF OfRun, RepairOfRun, Configuring, Generating, Making, Assembling
  <2>2. \A i \in All : Locked(i)' <=> Locked(i)
    BY <1>1 DEF Locked, Complete, Writable, pemFiles, fixed
  <2> QED BY <1>1, <1>3, <2>1, <2>2
          DEF RepairOfRun, Configuring, Making, Assembling, runVars
<1> QED BY <1>4, <1>5, <1>6 DEF OfRun

\* What a run has left behind stays, while it makes the others.
LEMMA LeftStays ==
  ASSUME Typed, NEW p \in Proc, GenStep(p), PassedByRun(p),
         NEW i \in All \ {at[p]}, Passed(p, i)'
  PROVE  LeftByRun(p, i)' /\ Passed(p, i)
<1>1. /\ Typed' /\ UNCHANGED <<config, fixed, runVars, cut>>
      /\ pc[p] \in {"check"} \union Making \union Assembling
      /\ \A j \in Number \ {at[p]} : SameAt(j)
      /\ NextCertTo(p) \/ (at'[p] = at[p] /\ pc'[p] \in Making \union Assembling)
  BY GenStepDoes DEF Onward
<1>2. /\ i \in Nat /\ at[p] \in Nat /\ i <= Servers[kind] /\ Servers[kind] \in Nat
      /\ i \in Number /\ CA \in Number /\ at[p] \in All /\ ~(i < CA)
  BY Numbers DEF Typed, TypeOK, FilesTypeOK, Placed, PlaceOf, CA, All
<1>3. i < at[p]
  BY <1>1, <1>2 DEF Passed, NextCertTo, Making, Assembling
<1>4. LeftByRun(p, i) /\ Passed(p, i)
  BY <1>1, <1>2, <1>3 DEF PassedByRun, Passed, Generating
<1>5. SameAt(i) /\ SameAt(CA)
  BY <1>1, <1>2, <1>3
<1> QED BY <1>1, <1>4, <1>5
        DEF LeftByRun, Paired, Trusted, Assembled, SameAt, runVars, fixed

LEMMA SoloConfigs ==
  ASSUME Typed, NEW p \in Proc, GenStep(p), OfRun(p)
  PROVE  ConfigsOfRun(p)'
<1>1. /\ UNCHANGED <<config, fixed, runVars, round>> /\ pc'[p] \in Generating
      /\ pc[p] \in Generating
  BY GenStepDoes DEF Onward, Generating
<1> QED BY <1>1
        DEF OfRun, ConfigsOfRun, Generating, Making, Assembling, All, runVars, fixed


\* What is complete when a run looks belongs together.
LEMMA KeptIsPaired ==
  ASSUME Typed, HistoryInv, WholeInv, NEW p \in Proc, solo[p], pc[p] = "check",
         NEW i \in All, Complete(i), {"overlap", "again"} \cap cut = {}
  PROVE  Paired(i)
<1>1. \A q \in Proc : ~Busy(q, i, {"genrsa", "chmod", "request", "sign"})
  BY DEF HistoryInv, Others, Active, Resting, Busy
<1> QED BY <1>1 DEF WholeInv

\* The last file made of a certificate completes what is made of it.
LEMMA MakesAssembled ==
  ASSUME Typed, NEW p \in Proc, OfRun(p), WriteChain(p) \/ WriteBundle(p), NextCertTo(p),
         NEW i, i = at[p]
  PROVE  Assembled(i)'
<1>1. i \in Number /\ kind \in {"mongo", "postgres"}
  BY DEF Typed, TypeOK, FilesTypeOK, RunsTypeOK, Kind
<1>2. CASE WriteChain(p)
  <2>1. /\ pc[p] = "chain" /\ UNCHANGED <<fixed, key, cert, bundle>>
        /\ chain'[i] = [key |-> cert[i].key, ca |-> cert[i].ca, top |-> cert[CA].key]
        /\ Exists(chain'[i]) /\ kind = "postgres"
    BY <1>2, WriteChainDoes DEF Onward, NextCertTo
  <2>2. Paired(i) /\ Trusted(i)
    BY <2>1 DEF OfRun, MadeByRun, Assembling
  <2>3. kind' # "mongo"
    BY <2>1 DEF fixed
  <2> QED BY <2>1, <2>2, <2>3 DEF Assembled, Trusted, Paired
<1>3. CASE WriteBundle(p)
  <2>1. /\ pc[p] = "bundle" /\ UNCHANGED <<fixed, key, cert, chain>>
        /\ bundle'[i] = [key |-> cert[i].key, ca |-> cert[i].ca, private |-> key[i].id]
        /\ Exists(bundle'[i])
    BY <1>3, WriteBundleDoes DEF Onward
  <2>2. /\ chain[i] = [key |-> cert[i].key, ca |-> cert[i].ca, top |-> cert[i].ca]
        /\ Exists(cert[i])
    BY <2>1 DEF OfRun, MadeByRun, Assembling, Paired
  <2>3. chain[i] \in ChainFile
    BY <1>1, <2>2 DEF Typed, TypeOK, FilesTypeOK, CertFile, ChainFile, Exists
  <2>4. Exists(chain[i])
    BY <2>3, FileAssumption DEF Exists
  <2> QED BY <2>1, <2>2, <2>4 DEF Assembled
<1> QED BY <1>2, <1>3

\* Where a run leaves a certificate, it leaves it as it should be.
LEMMA LeavesWell ==
  ASSUME Typed, HistoryInv, WholeInv, NEW p \in Proc, solo[p], GenStep(p), OfRun(p),
         NextCertTo(p), NEW i, i = at[p]
  PROVE  LeftByRun(p, i)' /\ Complete(i)'
<1>1. /\ i \in All /\ i \in Number /\ CA \in Number
      /\ kind \in {"mongo", "postgres"}
      /\ pc[p] \in {"chmod"} => i = CA
  BY Numbers DEF Typed, TypeOK, FilesTypeOK, Placed, PlaceOf, Kind
<1>2. /\ UNCHANGED <<config, fixed, runVars, cut>>
      /\ \A j \in Number \ {i} : SameAt(j)
  BY GenStepDoes DEF Onward
<1>3. CASE Check(p)
  <2>1. /\ pc[p] = "check" /\ UNCHANGED pemFiles /\ config[i] \in Id
        /\ Complete(i) /\ ~Forced(p)
    BY <1>3, CheckDoes DEF Onward, NextCertTo
  <2>2. ~asked[p].ca
    BY <2>1 DEF Forced
  <2>3. {"overlap", "again"} \cap cut = {} => Paired(i)
    BY <1>1, <2>1, KeptIsPaired
  <2> QED BY <1>2, <2>1, <2>2, <2>3 DEF LeftByRun, Paired, Complete, pemFiles, runVars
<1>4. CASE Sign(p)
  <2>1. /\ i = CA /\ pc[p] = "sign" /\ UNCHANGED <<config, key, csr, chain, bundle>>
        /\ Exists(cert'[i]) /\ cert'[i].key = key[CA].id /\ cert'[i].ca = key[CA].id
        /\ pass[p] \in Id
    BY <1>4, SignDoes DEF Onward, NextCertTo, Typed, Placed, PlaceOf, Resting
  <2>2. Exists(key[CA]) /\ pass[p] = config[CA] /\ key[CA].pass = pass[p]
    BY <2>1 DEF OfRun, MadeByRun, Making
  <2> QED BY <1>2, <2>1, <2>2 DEF LeftByRun, Paired, Trusted, Complete
<1>5. ASSUME pc[p] \in Assembling
      PROVE  /\ Paired(i) /\ Trusted(i) /\ config[i] = key[CA].pass /\ config[i] \in Id
             /\ i # CA
  BY <1>5 DEF OfRun, MadeByRun, Typed, Placed, PlaceOf, Resting, Assembling
<1>6. CASE WriteChain(p) \/ WriteBundle(p)
  <2>1. pc[p] \in Assembling /\ UNCHANGED <<config, key, cert>>
    BY <1>6, WriteChainDoes, WriteBundleDoes DEF Onward, Assembling
  <2>2. Assembled(i)'
    BY <1>6, MakesAssembled
  <2> QED BY <1>2, <1>5, <2>1, <2>2 DEF LeftByRun, Paired, Trusted, Complete
<1>7. ~(Unlink(p) \/ Genrsa(p) \/ Chmod(p) \/ Request(p))
  BY UnlinkDoes, GenrsaDoes, ChmodDoes, RequestDoes DEF Onward, NextCertTo
<1> QED BY <1>3, <1>4, <1>6, <1>7 DEF GenStep

LEMMA SoloPassed ==
  ASSUME Typed, HistoryInv, WholeInv, NEW p \in Proc, solo[p], GenStep(p), OfRun(p)
  PROVE  PassedByRun(p)'
<1>1. /\ Typed' /\ UNCHANGED <<config, fixed>>
      /\ pc[p] \in Generating
      /\ \A i \in Number \ {at[p]} : SameAt(i)
      /\ NextCertTo(p) \/ (at'[p] = at[p] /\ pc'[p] \in Making \union Assembling)
      /\ All' = All
  BY GenStepDoes DEF Onward, Generating, All, fixed
<1>2. at[p] \in All /\ at[p] \in Nat /\ CA \in Number
  BY Numbers DEF Typed, TypeOK, FilesTypeOK, Placed, PlaceOf
<1>3. ASSUME at'[p] # CA PROVE Complete(CA)'
  <2>1. CASE at[p] = CA
    <3>1. NextCertTo(p)
      BY <1>1, <1>3, <2>1
    <3> QED BY <2>1, <3>1, LeavesWell
  <2>2. CASE at[p] # CA
    BY <1>1, <1>2, <2>2 DEF OfRun, PassedByRun, Complete, SameAt
  <2> QED BY <2>1, <2>2
<1>4. ASSUME NEW i \in All, Passed(p, i)' PROVE LeftByRun(p, i)'
  <2>1. CASE i # at[p]
    BY <1>4, <2>1, LeftStays DEF OfRun
  <2>2. CASE i = at[p]
    <3>1. NextCertTo(p)
      BY <1>1, <1>2, <1>4, <2>2 DEF Passed, Making, Assembling
    <3> QED BY <2>2, <3>1, LeavesWell
  <2> QED BY <2>1, <2>2
<1> QED BY <1>1, <1>3, <1>4 DEF PassedByRun


LEMMA SoloMade ==
  ASSUME Typed, NEW p \in Proc, GenStep(p), OfRun(p)
  PROVE  MadeByRun(p)'
<1>1. /\ at[p] \in Number /\ CA \in Number
      /\ pc[p] = "chmod" => at[p] = CA
      /\ pc[p] = "unlink" <=> todo[p] # {}
      /\ at[p] # CA => CA \in Number \ {at[p]}
  BY Numbers DEF Typed, TypeOK, FilesTypeOK, RunsTypeOK, Placed, PlaceOf
<1>2. /\ UNCHANGED <<config, fixed, runVars, cut>>
      /\ \A j \in Number \ {at[p]} : SameAt(j)
  BY GenStepDoes DEF Onward
<1>3. CASE NextCertTo(p)
  BY <1>3 DEF NextCertTo, MadeByRun, Making, Assembling
<1>4. CASE Check(p) /\ ~NextCertTo(p)
  <2>1. /\ UNCHANGED <<config, pemFiles>> /\ pass'[p] = config[at[p]] /\ at' = at
        /\ \/ pc'[p] = "unlink" /\ todo'[p] = {"key", "cert"}
           \/ pc'[p] = "genrsa"
    BY <1>4, CheckDoes
  <2> QED BY <2>1 DEF MadeByRun, Making, Assembling
<1>5. CASE Unlink(p)
  <2>1. /\ UNCHANGED <<config, at, pass>> /\ pc[p] = "unlink"
        /\ pc'[p] = IF todo'[p] = {} THEN "genrsa" ELSE "unlink"
        /\ \/ /\ todo'[p] = todo[p] \ {"key"} /\ "key" \in todo[p]
              /\ key'[at[p]] = Nothing /\ cert' = cert
           \/ /\ todo'[p] = todo[p] \ {"cert"} /\ "cert" \in todo[p]
              /\ cert'[at[p]] = Nothing /\ key' = key
    BY <1>5, UnlinkDoes DEF Onward
  <2>2. pass[p] = config[at[p]]
    BY <2>1 DEF OfRun, MadeByRun, Making
  <2>3. /\ "key" \notin todo'[p] => key'[at[p]] = Nothing
        /\ "cert" \notin todo'[p] => cert'[at[p]] = Nothing
    BY <2>1 DEF OfRun, MadeByRun
  <2> QED BY <2>1, <2>2, <2>3 DEF MadeByRun, Making, Assembling
<1>6. CASE Genrsa(p)
  <2>1. /\ UNCHANGED <<config, at, pass>> /\ pc[p] = "genrsa"
        /\ pc'[p] = IF at[p] = CA THEN "chmod" ELSE "request"
        /\ Exists(key'[at[p]]) /\ (at[p] = CA => key'[CA].pass = pass[p])
    BY <1>6, GenrsaDoes DEF Onward
  <2>2. pass[p] = config[at[p]]
    BY <2>1 DEF OfRun, MadeByRun, Making
  <2> QED BY <2>1, <2>2 DEF MadeByRun, Making, Assembling
<1>7. CASE Chmod(p)
  <2>1. /\ UNCHANGED <<config, at, pass>> /\ pc[p] = "chmod" /\ pc'[p] = "sign"
        /\ at[p] = CA /\ Exists(key'[CA]) /\ key'[CA].pass = key[CA].pass
    BY <1>7, ChmodDoes DEF Onward
  <2>2. pass[p] = config[at[p]] /\ key[CA].pass = pass[p]
    BY <2>1 DEF OfRun, MadeByRun, Making
  <2> QED BY <2>1, <2>2 DEF MadeByRun, Making, Assembling
<1>8. CASE Request(p)
  <2>1. /\ UNCHANGED <<config, key, at, pass>> /\ pc[p] = "request" /\ pc'[p] = "sign"
        /\ at[p] # CA /\ Exists(key[at[p]]) /\ csr'[at[p]] = key[at[p]].id
    BY <1>8, RequestDoes DEF Onward
  <2>2. pass[p] = config[at[p]]
    BY <2>1 DEF OfRun, MadeByRun, Making
  <2> QED BY <2>1, <2>2 DEF MadeByRun, Making, Assembling
<1>9. CASE Sign(p) /\ ~NextCertTo(p)
  <2>1. /\ UNCHANGED <<config, key, csr, pass>> /\ pc[p] = "sign" /\ pc'[p] = "chain"
        /\ at[p] # CA /\ at' = at /\ CanSign(p) /\ Exists(cert'[at[p]])
        /\ cert'[at[p]].key = csr[at[p]] /\ cert'[at[p]].ca = key[CA].id
    BY <1>9, SignDoes DEF Onward
  <2>2. /\ pass[p] = config[at[p]] /\ Exists(key[at[p]]) /\ csr[at[p]] = key[at[p]].id
    BY <2>1 DEF OfRun, MadeByRun, Making
  <2>3. /\ key[CA].pass = pass[p] /\ Exists(cert[CA]) /\ cert[CA].key = key[CA].id
        /\ cert'[CA] = cert[CA]
    BY <1>1, <1>2, <2>1 DEF CanSign, SameAt
  <2> QED BY <2>1, <2>2, <2>3 DEF MadeByRun, Making, Assembling, Paired, Trusted
<1>10. CASE WriteChain(p) /\ ~NextCertTo(p)
  <2>1. /\ UNCHANGED <<config, key, cert, pass>> /\ pc[p] = "chain" /\ pc'[p] = "bundle"
        /\ at' = at
        /\ chain'[at[p]] = [key |-> cert[at[p]].key, ca |-> cert[at[p]].ca, top |-> cert[CA].key]
    BY <1>10, WriteChainDoes DEF Onward
  <2>2. /\ pass[p] = config[at[p]] /\ Paired(at[p]) /\ Trusted(at[p])
        /\ config[at[p]] = key[CA].pass
    BY <2>1 DEF OfRun, MadeByRun, Making, Assembling
  <2> QED BY <2>1, <2>2 DEF MadeByRun, Making, Assembling, Paired, Trusted
<1>11. WriteBundle(p) => NextCertTo(p)
  BY WriteBundleDoes
<1> QED BY <1>3, <1>4, <1>5, <1>6, <1>7, <1>8, <1>9, <1>10, <1>11 DEF GenStep

LEMMA SoloRepair ==
  ASSUME Typed, NEW p \in Proc, GenStep(p), OfRun(p), MadeByRun(p)'
  PROVE  RepairOfRun(p)'
<1>1. /\ at[p] \in All /\ All \subseteq Number /\ \A i \in All : i \in Nat
      /\ Servers[kind] \in Nat
  BY Numbers DEF Typed, TypeOK, FilesTypeOK, RunsTypeOK, Placed, PlaceOf
<1>2. /\ Typed' /\ UNCHANGED <<config, fixed, runVars, cut>> /\ pc[p] \in Generating
      /\ \A j \in Number \ {at[p]} : SameAt(j)
      /\ NextCertTo(p) \/ (at'[p] = at[p] /\ pc'[p] \in Making \union Assembling)
      /\ pc'[p] \in Generating /\ All' = All
  BY GenStepDoes DEF Onward, Generating, All, fixed
<1> SUFFICES ASSUME asked[p].config, asked[p].ca, ~stuck[p] PROVE RepairOfRun(p)'
  BY <1>2 DEF RepairOfRun, runVars
<1>3. /\ \A i \in All : at[p] < i \/ Busy(p, i, {"check"}) => ~Locked(i)
      /\ pc[p] = "genrsa" => Writable(key[at[p]])
      /\ pc[p] \in {"genrsa", "chmod", "request", "sign"} => Writable(cert[at[p]])
      /\ pc[p] \in {"request", "sign", "chain", "bundle"} => Readable(at[p])
  BY DEF OfRun, RepairOfRun
<1>4. ASSUME NEW i \in All, pc'[p] \notin Generating \/ at'[p] < i \/ Busy(p, i, {"check"})'
      PROVE  ~Locked(i)'
  <2>1. at[p] < i
    BY <1>1, <1>2, <1>4 DEF NextCertTo, Busy, Making, Assembling
  <2>2. i \in Number \ {at[p]}
    BY <1>1, <2>1
  <2> QED BY <1>2, <1>3, <2>1, <2>2 DEF Locked, Complete, Writable, SameAt, fixed
<1>5. CASE NextCertTo(p)
  BY <1>2, <1>4, <1>5 DEF NextCertTo, RepairOfRun
<1>6. CASE Check(p) /\ ~NextCertTo(p)
  <2>1. /\ UNCHANGED pemFiles /\ at' = at /\ pc[p] = "check"
        /\ pc'[p] = "unlink" \/ (pc'[p] = "genrsa" /\ ~Complete(at[p]))
    BY <1>6, CheckDoes DEF Onward
  <2>2. ~Locked(at[p])
    BY <1>1, <1>3, <2>1 DEF Busy
  <2>3. pc'[p] = "genrsa" => Writable(key[at[p]])' /\ Writable(cert[at[p]])'
    BY <1>2, <2>1, <2>2 DEF Locked, Writable, pemFiles, fixed
  <2> QED BY <1>2, <1>4, <2>1, <2>3 DEF RepairOfRun
<1>7. CASE Unlink(p)
  <2>1. /\ at' = at /\ pc'[p] \in {"unlink", "genrsa"}
        /\ pc'[p] = IF todo'[p] = {} THEN "genrsa" ELSE "unlink"
        /\ \/ /\ todo'[p] = todo[p] \ {"key"} /\ key'[at[p]] = Nothing /\ cert' = cert
           \/ /\ todo'[p] = todo[p] \ {"cert"} /\ cert'[at[p]] = Nothing /\ key' = key
        /\ pc[p] = "unlink"
    BY <1>7, UnlinkDoes DEF Onward
  <2>2. pc'[p] = "genrsa" => key'[at'[p]] = Nothing /\ cert'[at'[p]] = Nothing
    BY <2>1 DEF OfRun, MadeByRun
  <2> QED BY <1>2, <1>4, <2>1, <2>2 DEF RepairOfRun, Writable, Exists
<1>8. CASE Genrsa(p)
  <2>1. /\ UNCHANGED <<cert, at>> /\ pc[p] = "genrsa" /\ pc'[p] \in {"chmod", "request"}
        /\ Exists(key'[at[p]]) /\ Writable(key[at[p]])'
    BY <1>8, GenrsaDoes DEF Onward
  <2> QED BY <1>2, <1>3, <1>4, <2>1 DEF RepairOfRun, Writable, Readable, fixed
<1>9. CASE Chmod(p)
  <2>1. /\ UNCHANGED <<cert, at>> /\ pc[p] = "chmod" /\ pc'[p] = "sign"
        /\ at[p] = CA /\ Exists(key'[CA])
    BY <1>9, ChmodDoes DEF Onward
  <2> QED BY <1>2, <1>3, <1>4, <2>1 DEF RepairOfRun, Writable, Readable, fixed
<1>10. CASE Request(p)
  <2>1. UNCHANGED <<key, cert, at>> /\ pc[p] = "request" /\ pc'[p] = "sign"
    BY <1>10, RequestDoes DEF Onward
  <2> QED BY <1>2, <1>3, <1>4, <2>1 DEF RepairOfRun, Writable, Readable, fixed
<1>11. CASE Sign(p) /\ ~NextCertTo(p)
  <2>1. UNCHANGED <<key, at>> /\ pc[p] = "sign" /\ pc'[p] = "chain"
    BY <1>11, SignDoes DEF Onward
  <2> QED BY <1>2, <1>3, <1>4, <2>1 DEF RepairOfRun, Writable, Readable, fixed
<1>12. CASE WriteChain(p) /\ ~NextCertTo(p)
  <2>1. UNCHANGED <<key, at>> /\ pc[p] = "chain" /\ pc'[p] = "bundle"
    BY <1>12, WriteChainDoes DEF Onward
  <2> QED BY <1>2, <1>3, <1>4, <2>1 DEF RepairOfRun, Writable, Readable, fixed
<1>13. WriteBundle(p) => NextCertTo(p)
  BY WriteBundleDoes
<1> QED BY <1>5, <1>6, <1>7, <1>8, <1>9, <1>10, <1>11, <1>12, <1>13 DEF GenStep


LEMMA NextSolo ==
  ASSUME Typed, HistoryInv, SoloInv, WholeInv, [Next]_vars
  PROVE  SoloInv'
<1>1. CASE UNCHANGED vars
  BY <1>1
  DEF vars, fixed, pemFiles, locals, runVars, SoloInv, OfRun, Active, ConfigsOfRun,
      PassedByRun, MadeByRun, RepairOfRun, Passed, LeftByRun, Paired, Trusted, Assembled,
      Complete, Locked, Writable, Readable, Busy, All
<1>2. ASSUME NEW p \in Proc, Active(p), OthersStay(p), runVars' = runVars,
             Active(p)' /\ solo[p] => OfRun(p)'
      PROVE  SoloInv'
  <2> SUFFICES ASSUME NEW q \in Proc, Active(q)', solo'[q] PROVE OfRun(q)'
    BY DEF SoloInv
  <2>1. CASE q = p
    BY <1>2, <2>1 DEF runVars
  <2>2. CASE q # p
    <3>1. Active(q) /\ solo[q] /\ p \in Others(q)
      BY <1>2, <2>2 DEF runVars, Active, OthersStay, Others
    <3> QED BY <3>1 DEF HistoryInv
  <2> QED BY <2>1, <2>2
<1>3. ASSUME NEW p \in Proc, ConfigStep(p) PROVE SoloInv'
  <2>1. Active(p) /\ OthersStay(p) /\ runVars' = runVars
    BY <1>3, ConfigStepDoes DEF Onward, Active, Resting, Configuring
  <2>2. solo[p] => OfRun(p)'
    BY <1>3, <2>1, SoloConfig DEF SoloInv
  <2> QED BY <1>2, <2>1, <2>2
<1>4. ASSUME NEW p \in Proc, GenStep(p) PROVE SoloInv'
  <2>1. Active(p) /\ OthersStay(p) /\ runVars' = runVars
    BY <1>4, GenStepDoes DEF Onward, Active, Resting, Making, Assembling
  <2>2. solo[p] => OfRun(p)'
    <3> SUFFICES ASSUME solo[p] PROVE OfRun(p)'
      OBVIOUS
    <3>1. OfRun(p)
      BY <2>1 DEF SoloInv
    <3>2. MadeByRun(p)'
      BY <1>4, <3>1, SoloMade
    <3>3. ConfigsOfRun(p)' /\ PassedByRun(p)' /\ RepairOfRun(p)'
      BY <1>4, <3>1, <3>2, SoloConfigs, SoloPassed, SoloRepair
    <3> QED BY <3>2, <3>3 DEF OfRun
  <2> QED BY <1>2, <2>1, <2>2
<1>5. ASSUME NEW p \in Proc, NEW how \in {"done", "failed", "killed"}, Ends(p, how),
             Active(p), runVars' = runVars
      PROVE  SoloInv'
  <2>1. OthersStay(p) /\ ~Active(p)'
    BY <1>5, EndsDoes DEF Active, Resting
  <2> QED BY <1>2, <1>5, <2>1
<1>6. ASSUME NEW p \in Proc, Fails(p) \/ Kill(p) \/ Permissions(p), Active(p) PROVE SoloInv'
  BY <1>5, <1>6, FailsDoes, KillDoes, PermissionsDoes
<1>7. ASSUME NEW p \in Proc, Launch(p) PROVE SoloInv'
  <2> SUFFICES ASSUME NEW q \in Proc, Active(q)', solo'[q] PROVE OfRun(q)'
    BY DEF SoloInv
  <2>1. q = p /\ pc'[p] = "caConfig"
    BY <1>7, LaunchDoes DEF Others, Active, Resting
  <2>2. /\ UNCHANGED <<fixed, pemFiles>>
        /\ stuck'[p] = \E i \in All : Locked(i)
    BY <1>7, LaunchDoes
  <2>3. All' = All /\ \A i \in All : Locked(i)' <=> Locked(i)
    BY <2>2 DEF Locked, Complete, Writable, All, fixed, pemFiles
  <2>4. RepairOfRun(p)'
    BY <2>1, <2>2, <2>3 DEF RepairOfRun
  <2>5. ConfigsOfRun(p)' /\ PassedByRun(p)' /\ MadeByRun(p)'
    BY <2>1
    DEF ConfigsOfRun, PassedByRun, MadeByRun, Passed, Generating, Making, Assembling
  <2> QED BY <2>1, <2>4, <2>5 DEF OfRun
<1>8. ASSUME NEW p \in Proc, Step(p) PROVE SoloInv'
  <2>1. Permissions(p) => Active(p)
    BY PermissionsDoes DEF Active, Resting
  <2> QED BY <1>3, <1>4, <1>6, <1>8, <2>1, StepIsOne
<1>9. ASSUME NEW p \in Proc, Kill(p) PROVE SoloInv'
  BY <1>6, <1>9, KillDoes
<1> QED BY <1>1, <1>7, <1>8, <1>9 DEF Next

\* A run that overwrites all, that nobody disturbs and that found no file in its way,
\* can take every step it comes to.
LEMMA RepairGoesOn ==
  ASSUME Typed, NEW p \in Proc, OfRun(p), asked[p].config, asked[p].ca, ~stuck[p]
  PROVE  ~FailsAt(p)
<1>1. /\ at[p] \in All /\ CA \in All /\ at[p] \in Nat /\ (at[p] # CA => CA < at[p])
      /\ pc[p] = "chmod" => at[p] = CA
      /\ pc[p] \in {"request", "chain", "bundle"} => at[p] # CA
  BY Numbers DEF Typed, TypeOK, FilesTypeOK, Placed, PlaceOf, CA
<1>2. ~(pc[p] = "check" /\ config[at[p]] \in {Nothing, Blank})
  BY <1>1, FileAssumption DEF OfRun, ConfigsOfRun, Generating
<1>3. ~(pc[p] = "sign" /\ ~CanSign(p))
  <2> SUFFICES ASSUME pc[p] = "sign" PROVE CanSign(p)
    OBVIOUS
  <2>1. Writable(cert[at[p]])
    BY DEF OfRun, RepairOfRun
  <2>2. CASE at[p] = CA
    BY <2>1, <2>2 DEF CanSign, OfRun, MadeByRun
  <2>3. CASE at[p] # CA
    <3>1. Passed(p, CA)
      BY <1>1, <2>3 DEF Passed, Generating, Making
    <3>2. Paired(CA) /\ config[CA] = key[CA].pass
      BY <1>1, <3>1 DEF OfRun, PassedByRun, LeftByRun
    <3>3. pass[p] = config[at[p]] /\ config[at[p]] = config[CA]
      BY <1>1 DEF OfRun, MadeByRun, ConfigsOfRun, Generating, Making
    <3> QED BY <2>1, <3>2, <3>3 DEF CanSign, Paired
  <2> QED BY <2>2, <2>3
<1>4. pc[p] = "genrsa" => Writable(key[at[p]])
  BY DEF OfRun, RepairOfRun
<1>5. pc[p] = "chmod" => Exists(key[CA])
  BY <1>1 DEF OfRun, MadeByRun
<1>6. pc[p] \in {"request", "bundle"} => Readable(at[p])
  BY DEF OfRun, RepairOfRun
<1>7. pc[p] \in {"chain", "bundle"} => Exists(cert[at[p]]) /\ Exists(cert[CA])
  BY DEF OfRun, MadeByRun, Assembling, Trusted
<1> QED BY <1>2, <1>3, <1>4, <1>5, <1>6, <1>7 DEF FailsAt, Kept

LEMMA NextRepairs ==
  ASSUME Typed, SoloInv, RepairWorks, [Next]_vars
  PROVE  RepairWorks'
<1>1. CASE UNCHANGED vars
  BY <1>1 DEF vars, runVars, RepairWorks
<1>2. ASSUME NEW p \in Proc, OthersStay(p), runVars' = runVars, pc'[p] # "failed"
      PROVE  RepairWorks'
  BY <1>2 DEF OthersStay, runVars, RepairWorks
<1>3. ASSUME NEW p \in Proc, ConfigStep(p) \/ GenStep(p) PROVE RepairWorks'
  BY <1>2, <1>3, ConfigStepDoes, GenStepDoes
  DEF Onward, Configuring, Generating, Making, Assembling
<1>4. ASSUME NEW p \in Proc, Permissions(p) \/ Kill(p) PROVE RepairWorks'
  <2>1. PICK how \in {"done", "killed"} : Ends(p, how) /\ runVars' = runVars
    BY <1>4, PermissionsDoes, KillDoes
  <2> QED BY <1>2, <2>1, EndsDoes
<1>5. ASSUME NEW p \in Proc, Fails(p), FailsAt(p), Active(p) PROVE RepairWorks'
  <2>1. OthersStay(p) /\ runVars' = runVars
    BY <1>5, FailsDoes, EndsDoes
  <2>2. solo[p] /\ ~stuck[p] => ~(asked[p].config /\ asked[p].ca)
    BY <1>5, RepairGoesOn DEF SoloInv
  <2> QED BY <2>1, <2>2 DEF OthersStay, runVars, RepairWorks
<1>6. ASSUME NEW p \in Proc, Launch(p) PROVE RepairWorks'
  <2>1. \A q \in Proc : pc'[q] # "failed"
    BY <1>6, LaunchDoes DEF Others, Active, Resting
  <2> QED BY <2>1 DEF RepairWorks
<1>7. ASSUME NEW p \in Proc, Step(p) PROVE RepairWorks'
  BY <1>3, <1>4, <1>5, <1>7, StepIsOne
<1> QED BY <1>1, <1>4, <1>6, <1>7 DEF Next


-----------------------------------------------------------------------------
(***************************************************************************)
(* Who is where, before and after a step.                                  *)
(***************************************************************************)

Generated == Making \union Assembling

LEMMA AloneOrOverlap ==
  ASSUME HistoryInv, NEW p \in Proc, Active(p), "overlap" \notin cut
  PROVE  solo[p] /\ Others(p) = {}
BY DEF HistoryInv

LEMMA NobodyElse ==
  ASSUME NEW p \in Proc, Others(p) = {}
  PROVE  \A q \in Proc \ {p}, i \in All :
           ~Passed(q, i) /\ \A S \in SUBSET Generated : ~Busy(q, i, S)
BY DEF Others, Active, Resting, Passed, Busy, Generating, Generated, Making, Assembling

LEMMA OthersWhere ==
  ASSUME NEW p \in Proc, OthersStay(p)
  PROVE  \A q \in Proc \ {p}, i \in All :
           /\ Passed(q, i)' <=> Passed(q, i)
           /\ \A S \in SUBSET Generated : Busy(q, i, S)' <=> Busy(q, i, S)
BY DEF OthersStay, Passed, Busy

LEMMA ConfigWhere ==
  ASSUME Typed, NEW p \in Proc, ConfigStep(p)
  PROVE  \A q \in Proc, i \in All :
           /\ Passed(q, i)' <=> Passed(q, i)
           /\ \A S \in SUBSET Generated : Busy(q, i, S)' <=> Busy(q, i, S)
<1>1. /\ OthersStay(p) /\ pc[p] \in Configuring /\ pc'[p] \in Configuring \union {"check"}
      /\ (pc'[p] = "check" => at'[p] = CA)
  BY ConfigStepDoes DEF Onward
<1>2. \A i \in All : ~(i < CA)
  BY Numbers DEF Typed, TypeOK, FilesTypeOK, CA
<1>3. ASSUME NEW i \in All
      PROVE  /\ ~Passed(p, i) /\ ~Passed(p, i)'
             /\ \A S \in SUBSET Generated : ~Busy(p, i, S) /\ ~Busy(p, i, S)'
  BY <1>1, <1>2 DEF Passed, Busy, Configuring, Generating, Generated, Making, Assembling
<1> QED BY <1>1, <1>3, OthersWhere

LEMMA GenWhere ==
  ASSUME Typed, NEW p \in Proc, GenStep(p), NEW i \in All \ {at[p]}
  PROVE  /\ SameAt(i) /\ (Passed(p, i)' => Passed(p, i))
         /\ \A S \in SUBSET Generated : ~Busy(p, i, S) /\ ~Busy(p, i, S)'
<1>1. /\ pc[p] \in {"check"} \union Making \union Assembling
      /\ \A j \in Number \ {at[p]} : SameAt(j)
      /\ NextCertTo(p) \/ (at'[p] = at[p] /\ pc'[p] \in Making \union Assembling)
  BY GenStepDoes DEF Onward
<1>2. /\ i \in Nat /\ at[p] \in Nat /\ i <= Servers[kind] /\ Servers[kind] \in Nat
      /\ i \in Number
  BY Numbers DEF Typed, TypeOK, FilesTypeOK, Placed, PlaceOf, All
<1>3. Passed(p, i)' => Passed(p, i)
  <2> SUFFICES ASSUME Passed(p, i)' PROVE i < at[p]
    BY <1>1 DEF Passed, Generating
  <2> QED BY <1>1, <1>2 DEF Passed, NextCertTo, Making, Assembling
<1>4. \A S \in SUBSET Generated : ~Busy(p, i, S) /\ ~Busy(p, i, S)'
  BY <1>1, <1>2 DEF Busy, NextCertTo, Generated, Making, Assembling
<1> QED BY <1>1, <1>2, <1>3, <1>4

\* A run that ends is nowhere.
LEMMA EndsWhere ==
  ASSUME Typed, NEW p \in Proc, NEW how \in {"done", "failed", "killed"}, Ends(p, how)
  PROVE  \A i \in All : /\ ~Passed(p, i)'
                        /\ \A S \in SUBSET Generated : ~Busy(p, i, S)'
BY EndsDoes DEF Passed, Busy, Generating, Generated, Making, Assembling

LEMMA DoneWhere ==
  ASSUME Typed, NEW p \in Proc, pc[p] = "permissions", NEW i \in All
  PROVE  Passed(p, i) /\ \A S \in SUBSET Generated : ~Busy(p, i, S)
BY DEF Passed, Busy, Generating, Generated, Making, Assembling

\* A run that begins is nowhere yet, and whoever was still somewhere stays there.
LEMMA LaunchWhere ==
  ASSUME Typed, NEW p \in Proc, Launch(p)
  PROVE  \A q \in Proc, i \in All :
           /\ Passed(q, i)' <=> Passed(q, i)
           /\ \A S \in SUBSET Generated : Busy(q, i, S)' <=> Busy(q, i, S)
<1>1. /\ at' = at /\ pc[p] \in Resting /\ pc'[p] = "caConfig"
      /\ \A q \in Others(p) : pc'[q] = pc[q]
      /\ \A q \in Proc \ {p} : q \notin Others(p) => pc[q] \in Resting /\ pc'[q] = "idle"
  BY LaunchDoes DEF Others, Active
<1> QED BY <1>1 DEF Passed, Busy, Generating, Generated, Making, Assembling, Resting

LEMMA FixedAll == ASSUME UNCHANGED fixed PROVE All' = All /\ Mine' = Mine
BY DEF fixed, All, Mine


\* New permissions change none of what the properties say of a file.
LEMMA DoneKeeps ==
  ASSUME Typed, NEW p \in Proc, Permissions(p)
  PROVE  \A i \in All :
           /\ Complete(i)' <=> Complete(i)
           /\ Paired(i)' <=> Paired(i)
           /\ Trusted(i)' <=> Trusted(i)
           /\ Assembled(i)' <=> Assembled(i)
           /\ Absent(i)' <=> Absent(i)
           /\ Exists(key'[i]) <=> Exists(key[i])
           /\ Exists(cert'[i]) <=> Exists(cert[i])
           /\ key'[i].id = key[i].id /\ key'[i].pass = key[i].pass
           /\ csr'[i] = csr[i] /\ config'[i] = config[i]
<1>1. /\ SameKeys /\ UNCHANGED <<fixed, config, csr, chain, bundle>>
      /\ All \subseteq Number /\ CA \in Number
  BY PermissionsDoes, Numbers DEF Typed, TypeOK, FilesTypeOK
<1> QED BY <1>1 DEF SameKeys, Complete, Paired, Trusted, Assembled, Absent, Exists, fixed

\* After a run that has made all anew, alone, nothing is out of order.
LEMMA RenewalLeaves ==
  ASSUME Typed, HistoryInv, SoloInv, NEW p \in Proc, Permissions(p), Renewed(p, "done")
  PROVE  /\ cut' = {} /\ CA \in All
         /\ \A i \in All :
              /\ Complete(i)' /\ Paired(i)' /\ Trusted(i)' /\ (i # CA => Assembled(i)')
              /\ config'[i] \in Id /\ config'[i] = key'[CA].pass
              /\ \A q \in Proc : ~Passed(q, i)' /\ \A S \in SUBSET Generated : ~Busy(q, i, S)'
         /\ \A q \in Proc : ~Active(q)'
<1>1. /\ solo[p] /\ asked[p].ca /\ pc[p] = "permissions" /\ cut' = {} /\ Ends(p, "done")
  BY EndsCut, PermissionsDoes DEF Renewed
<1>2. Active(p) /\ Others(p) = {} /\ OfRun(p)
  BY <1>1 DEF HistoryInv, SoloInv, Active, Resting
<1>3. CA \in All
  BY Numbers DEF Typed, TypeOK, FilesTypeOK
<1>4. ASSUME NEW i \in All
      PROVE  /\ Complete(i)' /\ Paired(i)' /\ Trusted(i)' /\ (i # CA => Assembled(i)')
             /\ config'[i] \in Id /\ config'[i] = key'[CA].pass
  <2>1. LeftByRun(p, i)
    BY <1>1, <1>2, DoneWhere DEF OfRun, PassedByRun
  <2> QED BY <1>1, <1>3, <2>1, DoneKeeps DEF LeftByRun, Paired, Complete
<1>5. \A q \in Proc : ~Active(q)'
  BY <1>1, <1>2, EndsDoes DEF Others, OthersStay, Active, Resting
<1>6. \A i \in All, q \in Proc :
        ~Passed(q, i)' /\ \A S \in SUBSET Generated : ~Busy(q, i, S)'
  BY <1>5 DEF Passed, Busy, Active, Resting, Generating, Generated, Making, Assembling
<1> QED BY <1>1, <1>3, <1>4, <1>5, <1>6

-----------------------------------------------------------------------------
(***************************************************************************)
(* Of one run after another: key and certificate.                          *)
(***************************************************************************)

\* A certificate is signed for the key that its run has made.
LEMMA SignsPair ==
  ASSUME Typed, NEW p \in Proc, Sign(p), OfRun(p), NEW i, i = at[p]
  PROVE  Paired(i)' /\ Complete(i)'
<1>1. /\ UNCHANGED key /\ Exists(cert'[i]) /\ pc[p] = "sign"
      /\ cert'[i].key = IF i = CA THEN key[CA].id ELSE csr[i]
  BY SignDoes DEF Onward
<1>2. Exists(key[i]) /\ (i # CA => csr[i] = key[i].id)
  BY <1>1 DEF OfRun, MadeByRun
<1> QED BY <1>1, <1>2 DEF Paired, Complete

Keying == {"genrsa", "chmod", "request", "sign"}

LEMMA WholeGen ==
  ASSUME Typed, HistoryInv, SoloInv, WholeInv, NEW p \in Proc, GenStep(p)
  PROVE  WholeInv'
<1>1. /\ UNCHANGED <<fixed, cut>> /\ OthersStay(p) /\ Active(p) /\ All' = All
  BY GenStepDoes, FixedAll DEF Onward, Active, Resting, Making, Assembling
<1> SUFFICES ASSUME {"overlap", "again"} \cap cut = {}, NEW i \in All, Complete(i)'
             PROVE  Paired(i)' \/ \E q \in Proc : Busy(q, i, Keying)'
  BY <1>1 DEF WholeInv, Keying, Busy
<1>2. Others(p) = {} /\ OfRun(p)
  BY <1>1, AloneOrOverlap DEF SoloInv
<1>3. /\ Keying \in SUBSET Generated
      /\ Complete(i) => Paired(i) \/ Busy(p, i, Keying)
  <2>1. Keying \in SUBSET Generated
    BY DEF Keying, Generated, Making
  <2> QED BY <1>2, <2>1, NobodyElse DEF WholeInv, Keying
<1>4. CASE i # at[p]
  <2>1. SameAt(i) /\ ~Busy(p, i, Keying)
    BY <1>3, <1>4, GenWhere
  <2> QED BY <1>3, <2>1 DEF SameAt, Complete, Paired
<1>5. CASE i = at[p]
  <2>1. CASE Check(p) \/ WriteChain(p) \/ WriteBundle(p)
    <3>1. UNCHANGED <<key, cert>> /\ pc[p] \in {"check", "chain", "bundle"}
      BY <2>1, CheckDoes, WriteChainDoes, WriteBundleDoes DEF Onward, pemFiles
    <3> QED BY <1>3, <3>1 DEF Complete, Paired, Busy, Keying
  <2>2. CASE Unlink(p)
    BY <1>5, <2>2, UnlinkDoes DEF Complete, Exists
  <2>3. CASE Genrsa(p) \/ Chmod(p) \/ Request(p)
    <3>1. at' = at /\ pc'[p] \in Keying
      BY <2>3, GenrsaDoes, ChmodDoes, RequestDoes DEF Onward, Keying
    <3> QED BY <1>5, <3>1 DEF Busy, Keying
  <2>4. CASE Sign(p)
    BY <1>2, <1>5, <2>4, SignsPair
  <2> QED BY <2>1, <2>2, <2>3, <2>4 DEF GenStep
<1> QED BY <1>4, <1>5

\* A step that changes nothing.
LEMMA Stutter ==
  ASSUME UNCHANGED vars
  PROVE  /\ UNCHANGED <<kind, config, key, cert, csr, chain, bundle, ended, cut, pass, pc, asked>>
         /\ All' = All /\ Mine' = Mine /\ Unbroken' = Unbroken
         /\ \A i : /\ Complete(i)' <=> Complete(i)
                   /\ Paired(i)' <=> Paired(i)
                   /\ Trusted(i)' <=> Trusted(i)
                   /\ Assembled(i)' <=> Assembled(i)
                   /\ Absent(i)' <=> Absent(i)
                   /\ \A p \in Proc : /\ Passed(p, i)' <=> Passed(p, i)
                                      /\ \A S : Busy(p, i, S)' <=> Busy(p, i, S)
         /\ \A p \in Proc : Active(p)' <=> Active(p)
<1>1. /\ UNCHANGED <<kind, config, key, cert, csr, chain, bundle, ended, cut, pass, pc, asked, at>>
      /\ All' = All /\ Mine' = Mine
  BY DEF vars, fixed, pemFiles, locals, runVars, All, Mine
<1> QED BY <1>1
        DEF Complete, Paired, Trusted, Assembled, Absent, Passed, Busy, Active, Unbroken

LEMMA NextWhole ==
  ASSUME Typed, HistoryInv, SoloInv, FilesInv, [Next]_vars
  PROVE  WholeInv'
<1>1. CASE UNCHANGED vars
  BY <1>1, Stutter DEF FilesInv, WholeInv
<1>2. ASSUME NEW p \in Proc, ConfigStep(p) PROVE WholeInv'
  <2>1. UNCHANGED <<pemFiles, fixed, cut>> /\ All' = All
    BY <1>2, ConfigStepDoes, FixedAll DEF Onward
  <2>2. \A q \in Proc, i \in All :
          Busy(q, i, {"genrsa", "chmod", "request", "sign"})'
            <=> Busy(q, i, {"genrsa", "chmod", "request", "sign"})
    BY <1>2, ConfigWhere DEF Generated, Making
  <2> QED BY <2>1, <2>2 DEF FilesInv, WholeInv, Complete, Paired, pemFiles
<1>3. ASSUME NEW p \in Proc, GenStep(p) PROVE WholeInv'
  BY <1>3, WholeGen DEF FilesInv
<1>4. ASSUME NEW p \in Proc, Fails(p) \/ Kill(p) PROVE WholeInv'
  <2>1. PICK how \in {"failed", "killed"} : Ends(p, how) /\ UNCHANGED <<fixed, pemFiles>>
    BY <1>4, FailsDoes, KillDoes
  <2> SUFFICES ASSUME {"overlap", "again"} \cap cut' = {}, NEW i \in All, Complete(i)'
               PROVE  Paired(i)'
    BY <2>1, FixedAll DEF WholeInv
  <2>2. "overlap" \notin cut /\ Unbroken
    BY <2>1, EndsCut DEF Renewed
  <2> QED BY <2>1, <2>2 DEF FilesInv, FreshInv, FreshAt, Complete, Paired, pemFiles
<1>5. ASSUME NEW p \in Proc, Permissions(p) PROVE WholeInv'
  <2>1. /\ Ends(p, "done") /\ pc[p] = "permissions" /\ All' = All /\ Active(p)
    BY <1>5, PermissionsDoes, FixedAll DEF Active, Resting
  <2>2. CASE Renewed(p, "done")
    BY <1>5, <2>1, <2>2, RenewalLeaves DEF WholeInv
  <2>3. CASE ~Renewed(p, "done")
    <3> SUFFICES ASSUME {"overlap", "again"} \cap cut' = {}, NEW i \in All, Complete(i)'
                 PROVE  Paired(i)'
      BY <2>1 DEF WholeInv
    <3>1. {"overlap", "again"} \cap cut = {}
      BY <2>1, <2>3, EndsCut
    <3>2. Others(p) = {}
      BY <2>1, <3>1, AloneOrOverlap
    <3>3. \A q \in Proc : ~Busy(q, i, {"genrsa", "chmod", "request", "sign"})
      BY <2>1, <3>2, NobodyElse, DoneWhere DEF Generated, Making
    <3> QED BY <1>5, <3>1, <3>3, DoneKeeps DEF FilesInv, WholeInv
  <2> QED BY <2>2, <2>3
<1>6. ASSUME NEW p \in Proc, Launch(p) PROVE WholeInv'
  <2>1. UNCHANGED <<pemFiles, fixed>> /\ All' = All /\ cut \subseteq cut'
    BY <1>6, LaunchDoes, FixedAll
  <2>2. \A q \in Proc, i \in All :
          Busy(q, i, {"genrsa", "chmod", "request", "sign"})'
            <=> Busy(q, i, {"genrsa", "chmod", "request", "sign"})
    BY <1>6, LaunchWhere DEF Generated, Making
  <2> QED BY <2>1, <2>2 DEF FilesInv, WholeInv, Complete, Paired, pemFiles
<1>7. ASSUME NEW p \in Proc, Step(p) PROVE WholeInv'
  BY <1>2, <1>3, <1>4, <1>5, <1>7, StepIsOne
<1> QED BY <1>1, <1>4, <1>6, <1>7 DEF Next


\* What becomes of a certificate in the hands of the one run there is.
LEMMA FreshHere ==
  ASSUME Typed, NEW p \in Proc, GenStep(p), OfRun(p), Others(p) = {},
         NEW i \in All, i = at[p], FreshAt(i)
  PROVE  FreshAt(i)'
<1>1. /\ UNCHANGED <<fixed, cut>> /\ OthersStay(p) /\ MadeByRun(p)' /\ i \in Number
      /\ (pc[p] \in {"request", "chain", "bundle"} => i # CA)
  BY GenStepDoes, SoloMade, Numbers
  DEF Onward, Typed, TypeOK, FilesTypeOK, Placed, PlaceOf
<1>2. \A q \in Proc \ {p}, S \in SUBSET Generated : ~Busy(q, i, S) /\ ~Busy(q, i, S)'
  BY <1>1, NobodyElse, OthersWhere
<1> DEFINE D == SUBSET Generated
<1>3. /\ {"genrsa"} \in D /\ {"chmod", "request", "sign"} \in D
      /\ Making \in D /\ Making \union Assembling \in D
  BY DEF Generated, Making
<1>4. /\ Complete(i) => Paired(i)
      /\ Complete(i) \/ Absent(i) \/ pc[p] \in Making
      /\ pc[p] = "genrsa" => Absent(i)
      /\ pc[p] \in {"chmod", "request", "sign"} => cert[i] = Nothing
      /\ Complete(i) /\ i # CA => Assembled(i) \/ pc[p] \in Making \union Assembling
  BY <1>2, <1>3 DEF FreshAt, Busy
<1>5. SUFFICES
        /\ Complete(i)' => Paired(i)'
        /\ Complete(i)' \/ Absent(i)' \/ Busy(p, i, Making)'
        /\ Busy(p, i, {"genrsa"})' => Absent(i)'
        /\ Busy(p, i, {"chmod", "request", "sign"})' => cert'[i] = Nothing
        /\ Complete(i)' /\ i # CA => Assembled(i)' \/ Busy(p, i, Making \union Assembling)'
  BY <1>2, <1>3 DEF FreshAt
<1>6. CASE Check(p)
  <2>1. /\ UNCHANGED <<kind, pemFiles>> /\ pc[p] = "check"
        /\ \/ Complete(i) /\ pc'[p] = "unlink" /\ at' = at
           \/ Complete(i) /\ NextCertTo(p)
           \/ ~Complete(i) /\ pc'[p] = "genrsa" /\ at' = at
    BY <1>1, <1>6, CheckDoes DEF Onward, fixed
  <2>2. /\ Complete(i)' <=> Complete(i)
        /\ Paired(i)' <=> Paired(i)
        /\ Absent(i)' <=> Absent(i)
        /\ Assembled(i)' <=> Assembled(i)
        /\ cert'[i] = cert[i]
    BY <2>1 DEF Complete, Paired, Absent, Assembled, pemFiles
  <2>3. Complete(i) \/ Absent(i)
    BY <1>4, <2>1 DEF Making
  <2>4. Complete(i) /\ i # CA => Assembled(i)
    BY <1>4, <2>1 DEF Making, Assembling
  <2>5. CASE NextCertTo(p)
    <3>1. \A S \in D : ~Busy(p, i, S)'
      BY <2>5 DEF NextCertTo, Busy, Generated, Making, Assembling
    <3> QED BY <1>3, <1>4, <2>1, <2>2, <2>3, <2>4, <2>5, <3>1 DEF NextCertTo
  <2>6. CASE ~NextCertTo(p)
    <3>1. Busy(p, i, Making)' /\ (pc'[p] = "genrsa" => ~Complete(i))
      BY <2>1, <2>6 DEF Busy, Making
    <3> QED BY <1>4, <2>1, <2>2, <2>3, <2>4, <2>6, <3>1 DEF Busy, Making
  <2> QED BY <2>5, <2>6
<1>7. CASE Unlink(p)
  <2>1. /\ at' = at /\ pc'[p] = IF todo'[p] = {} THEN "genrsa" ELSE "unlink"
        /\ key'[i] = Nothing \/ cert'[i] = Nothing
    BY <1>7, UnlinkDoes
  <2>2. pc'[p] = "genrsa" => Absent(i)'
    <3>1. ASSUME pc'[p] = "genrsa" PROVE key'[at'[p]] = Nothing /\ cert'[at'[p]] = Nothing
      <4>1. /\ todo'[p] = {} /\ pc[p] = "unlink"
            /\ \/ /\ todo'[p] = todo[p] \ {"key"} /\ key'[at[p]] = Nothing /\ cert' = cert
               \/ /\ todo'[p] = todo[p] \ {"cert"} /\ cert'[at[p]] = Nothing /\ key' = key
        BY <1>7, <3>1, UnlinkDoes DEF Onward
      <4> QED BY <2>1, <4>1 DEF OfRun, MadeByRun
    <3> QED BY <2>1, <3>1 DEF Absent
  <2>3. Busy(p, i, Making)' /\ ~Complete(i)' /\ pc'[p] \in {"unlink", "genrsa"}
    BY <2>1 DEF Busy, Making, Complete, Exists
  <2> QED BY <2>2, <2>3 DEF Busy
<1>8. CASE Genrsa(p) \/ Chmod(p) \/ Request(p)
  <2>1. /\ at' = at /\ cert' = cert /\ pc[p] \in {"genrsa", "chmod", "request"}
        /\ pc'[p] \in {"chmod", "request", "sign"}
    BY <1>8, GenrsaDoes, ChmodDoes, RequestDoes DEF Onward
  <2>2. cert'[i] = Nothing /\ Busy(p, i, Making)' /\ ~Busy(p, i, {"genrsa"})'
    BY <1>4, <2>1 DEF Absent, Busy, Making
  <2> QED BY <2>2 DEF Complete, Exists
<1>9. CASE Sign(p)
  <2>1. /\ pc'[p] \in {"check", "permissions", "chain"}
        /\ i # CA => at' = at /\ pc'[p] = "chain"
    BY <1>9, SignDoes DEF Onward
  <2>2. Complete(i)' /\ Paired(i)'
    BY <1>9, SignsPair
  <2> QED BY <2>1, <2>2 DEF Busy, Making, Assembling
<1>10. CASE WriteChain(p) \/ WriteBundle(p)
  <2>1. /\ pc[p] \in Assembling /\ UNCHANGED <<key, cert>>
        /\ pc'[p] \in {"check", "permissions", "bundle"}
        /\ NextCertTo(p) \/ (at' = at /\ pc'[p] = "bundle")
    BY <1>10, WriteChainDoes, WriteBundleDoes DEF Onward, Assembling
  <2>2. Complete(i)' /\ Paired(i)'
    BY <2>1 DEF OfRun, MadeByRun, Complete, Paired
  <2>3. NextCertTo(p) => Assembled(i)'
    BY <1>10, MakesAssembled
  <2> QED BY <2>1, <2>2, <2>3 DEF Busy, Making, Assembling
<1> QED BY <1>6, <1>7, <1>8, <1>9, <1>10 DEF GenStep

LEMMA NextFresh ==
  ASSUME Typed, HistoryInv, SoloInv, FilesInv, [Next]_vars
  PROVE  FreshInv'
<1> DEFINE D == SUBSET Generated
<1>1. /\ {"genrsa"} \in D /\ {"chmod", "request", "sign"} \in D
      /\ Making \in D /\ Making \union Assembling \in D
  BY DEF Generated, Making
<1>2. CASE UNCHANGED vars
  BY <1>2, Stutter DEF FilesInv, FreshInv, FreshAt
<1>3. ASSUME UNCHANGED <<fixed, pemFiles>>, cut \subseteq cut',
             \A q \in Proc, i \in All, S \in D : Busy(q, i, S)' <=> Busy(q, i, S)
      PROVE  FreshInv'
  <2>1. All' = All /\ ("overlap" \notin cut' /\ Unbroken' => "overlap" \notin cut /\ Unbroken)
    BY <1>3, FixedAll DEF Unbroken
  <2>2. \A i \in All : FreshAt(i)' <=> FreshAt(i)
    BY <1>1, <1>3
    DEF FreshAt, Complete, Paired, Absent, Assembled, pemFiles, fixed
  <2> QED BY <2>1, <2>2 DEF FilesInv, FreshInv
<1>4. ASSUME NEW p \in Proc, ConfigStep(p) PROVE FreshInv'
  BY <1>3, <1>4, ConfigStepDoes, ConfigWhere DEF Onward
<1>5. ASSUME NEW p \in Proc, Launch(p) PROVE FreshInv'
  BY <1>3, <1>5, LaunchDoes, LaunchWhere
<1>6. ASSUME NEW p \in Proc, GenStep(p) PROVE FreshInv'
  <2>1. /\ UNCHANGED <<fixed, cut>> /\ OthersStay(p) /\ Active(p) /\ All' = All
    BY <1>6, GenStepDoes, FixedAll DEF Onward, Active, Resting, Making, Assembling
  <2> SUFFICES ASSUME "overlap" \notin cut, Unbroken, NEW i \in All PROVE FreshAt(i)'
    BY <2>1 DEF FreshInv, Unbroken
  <2>2. Others(p) = {} /\ OfRun(p) /\ FreshAt(i)
    BY <2>1, AloneOrOverlap DEF SoloInv, FilesInv, FreshInv
  <2>3. CASE i = at[p]
    BY <1>6, <2>2, <2>3, FreshHere
  <2>4. CASE i # at[p]
    <3>1. SameAt(i) /\ \A S \in D : ~Busy(p, i, S) /\ ~Busy(p, i, S)'
      BY <1>6, <2>4, GenWhere
    <3>2. \A q \in Proc, S \in D : Busy(q, i, S)' <=> Busy(q, i, S)
      BY <2>1, <3>1, OthersWhere
    <3>3. /\ Complete(i)' <=> Complete(i)
          /\ Paired(i)' <=> Paired(i)
          /\ Absent(i)' <=> Absent(i)
          /\ Assembled(i)' <=> Assembled(i)
          /\ cert'[i] = cert[i]
      BY <2>1, <3>1 DEF SameAt, Complete, Paired, Absent, Assembled, fixed
    <3> QED BY <1>1, <2>2, <3>2, <3>3 DEF FreshAt
  <2> QED BY <2>3, <2>4
<1>7. ASSUME NEW p \in Proc, Fails(p) \/ Kill(p) PROVE FreshInv'
  <2>1. PICK how \in {"failed", "killed"} : Ends(p, how)
    BY <1>7, FailsDoes, KillDoes
  <2>2. ~Unbroken'
    BY <2>1, EndsCut DEF Renewed, Unbroken
  <2> QED BY <2>2 DEF FreshInv
<1>8. ASSUME NEW p \in Proc, Permissions(p) PROVE FreshInv'
  <2>1. /\ Ends(p, "done") /\ pc[p] = "permissions" /\ All' = All /\ Active(p)
    BY <1>8, PermissionsDoes, FixedAll DEF Active, Resting
  <2>2. CASE Renewed(p, "done")
    <3>1. \A i \in All : FreshAt(i)'
      BY <1>1, <1>8, <2>2, RenewalLeaves DEF FreshAt
    <3> QED BY <2>1, <3>1 DEF FreshInv
  <2>3. CASE ~Renewed(p, "done")
    <3> SUFFICES ASSUME "overlap" \notin cut', Unbroken', NEW i \in All PROVE FreshAt(i)'
      BY <2>1 DEF FreshInv
    <3>1. "overlap" \notin cut /\ Unbroken
      BY <2>1, <2>3, EndsCut DEF Unbroken
    <3>2. Others(p) = {} /\ OthersStay(p)
      BY <2>1, <3>1, AloneOrOverlap, EndsDoes
    <3>3. \A q \in Proc, S \in D : ~Busy(q, i, S) /\ ~Busy(q, i, S)'
      BY <2>1, <3>2, NobodyElse, OthersWhere, DoneWhere, EndsWhere
    <3>4. FreshAt(i)
      BY <3>1 DEF FilesInv, FreshInv
    <3> QED BY <1>1, <1>8, <3>3, <3>4, DoneKeeps DEF FreshAt
  <2> QED BY <2>2, <2>3
<1>9. ASSUME NEW p \in Proc, Step(p) PROVE FreshInv'
  BY <1>4, <1>6, <1>7, <1>8, <1>9, StepIsOne
<1> QED BY <1>2, <1>5, <1>7, <1>9 DEF Next


-----------------------------------------------------------------------------
(***************************************************************************)
(* Of runs that overlap: the last key and its certificate.                 *)
(***************************************************************************)

Rekeying == {"unlink", "genrsa", "request"}

\* Settling speaks of the files of a certificate and of who is where.
LEMMA SameSettling ==
  ASSUME NEW i \in All,
         /\ Exists(key'[i]) <=> Exists(key[i])
         /\ Paired(i)' <=> Paired(i)
         /\ key'[i].id = key[i].id /\ csr'[i] = csr[i],
         \A q \in Proc : /\ Busy(q, i, Rekeying)' <=> Busy(q, i, Rekeying)
                         /\ Busy(q, i, {"sign"})' <=> Busy(q, i, {"sign"})
  PROVE  Settling(i)' <=> Settling(i)
<1>1. /\ (\E q \in Proc : Busy(q, i, Rekeying)') <=> \E q \in Proc : Busy(q, i, Rekeying)
      /\ (\E q \in Proc : Busy(q, i, {"sign"})') <=> \E q \in Proc : Busy(q, i, {"sign"})
  OBVIOUS
<1> QED BY <1>1 DEF Settling, Rekeying

LEMMA SettlingHere ==
  ASSUME Typed, NEW p \in Proc, GenStep(p), NEW i \in Mine, i = at[p], SettlingAt(i)
  PROVE  Settling(i)'
<1>1. /\ OthersStay(p) /\ i \in All /\ i \in Number /\ i # CA
  BY GenStepDoes, Numbers DEF Onward, Typed, TypeOK, FilesTypeOK
<1>2. /\ Rekeying \in SUBSET Generated /\ {"sign"} \in SUBSET Generated
      /\ Making \union Assembling \in SUBSET Generated
  BY DEF Rekeying, Generated, Making
<1>3. \A q \in Proc \ {p} : /\ Busy(q, i, Rekeying)' <=> Busy(q, i, Rekeying)
                            /\ Busy(q, i, {"sign"})' <=> Busy(q, i, {"sign"})
  BY <1>1, <1>2, OthersWhere
<1>4. CASE Check(p) /\ NextCertTo(p)
  <2>1. UNCHANGED pemFiles /\ Complete(i) /\ pc[p] = "check"
    BY <1>4, CheckDoes DEF Onward, NextCertTo
  <2>2. Settling(i)
    BY <2>1 DEF SettlingAt, Absent, Complete, Exists
  <2>3. \A S \in {Rekeying, {"sign"}} : ~Busy(p, i, S) /\ ~Busy(p, i, S)'
    BY <1>4, <2>1 DEF NextCertTo, Busy, Rekeying
  <2> QED BY <1>1, <1>3, <2>1, <2>2, <2>3, SameSettling DEF Paired, pemFiles
<1>5. CASE (Check(p) /\ ~NextCertTo(p)) \/ Unlink(p) \/ Genrsa(p)
  <2>1. at' = at /\ pc'[p] \in Rekeying
    BY <1>1, <1>5, CheckDoes, UnlinkDoes, GenrsaDoes DEF Onward, Rekeying
  <2>2. Busy(p, i, Rekeying)'
    BY <2>1 DEF Busy, Rekeying
  <2> QED BY <2>2 DEF Settling, Rekeying
<1>6. CASE Chmod(p)
  BY <1>1, <1>6, ChmodDoes
<1>7. CASE Request(p)
  <2>1. /\ at' = at /\ pc'[p] = "sign" /\ key' = key /\ Exists(key[i]) /\ csr'[i] = key[i].id
    BY <1>7, RequestDoes DEF Onward
  <2>2. Busy(p, i, {"sign"})'
    BY <2>1 DEF Busy
  <2> QED BY <2>1, <2>2 DEF Settling
<1>8. CASE Sign(p)
  <2>1. /\ at' = at /\ pc[p] = "sign" /\ UNCHANGED <<key, csr>>
        /\ Exists(cert'[i]) /\ cert'[i].key = csr[i]
    BY <1>1, <1>8, SignDoes DEF Onward
  <2>2. Settling(i) /\ Busy(p, i, {"sign"}) /\ ~Busy(p, i, Rekeying)
    BY <1>2, <2>1 DEF SettlingAt, Busy, Making, Rekeying
  <2>3. CASE \E q \in Proc : Busy(q, i, Rekeying)
    BY <1>3, <2>2, <2>3 DEF Settling, Rekeying
  <2>4. CASE ~\E q \in Proc : Busy(q, i, Rekeying)
    <3>1. Exists(key[i]) /\ csr[i] = key[i].id
      BY <2>2, <2>4 DEF Settling, Rekeying
    <3>2. Exists(key'[i]) /\ csr'[i] = key'[i].id /\ Paired(i)'
      BY <2>1, <3>1 DEF Paired
    <3> QED BY <3>2 DEF Settling
  <2> QED BY <2>3, <2>4
<1>9. CASE WriteChain(p) \/ WriteBundle(p)
  <2>1. /\ pc[p] \in Assembling /\ UNCHANGED <<key, cert, csr>>
        /\ NextCertTo(p) \/ pc'[p] = "bundle"
    BY <1>9, WriteChainDoes, WriteBundleDoes DEF Onward, Assembling
  <2>2. Settling(i)
    BY <2>1 DEF SettlingAt, Busy
  <2>3. \A S \in {Rekeying, {"sign"}} : ~Busy(p, i, S) /\ ~Busy(p, i, S)'
    BY <2>1 DEF NextCertTo, Busy, Rekeying, Assembling
  <2> QED BY <1>1, <1>3, <2>1, <2>2, <2>3, SameSettling DEF Paired
<1> QED BY <1>4, <1>5, <1>6, <1>7, <1>8, <1>9 DEF GenStep

LEMMA NextSettling ==
  ASSUME Typed, HistoryInv, SoloInv, FilesInv, [Next]_vars
  PROVE  SettlingInv'
<1> DEFINE D == SUBSET Generated
           B == Making \union Assembling
<1>1. Rekeying \in D /\ {"sign"} \in D /\ B \in D /\ Mine \subseteq All
  BY Numbers DEF Generated, Rekeying, Making, Typed, TypeOK, FilesTypeOK
<1>2. CASE UNCHANGED vars
  BY <1>2, Stutter DEF FilesInv, SettlingInv, SettlingAt, Settling
<1>3. ASSUME UNCHANGED <<fixed, pemFiles, ended>>, cut \subseteq cut',
             \A q \in Proc, i \in All :
               /\ Passed(q, i)' <=> Passed(q, i)
               /\ \A S \in D : Busy(q, i, S)' <=> Busy(q, i, S)
      PROVE  SettlingInv'
  <2> SUFFICES ASSUME Unbroken', NEW i \in Mine PROVE SettlingAt(i)'
    BY <1>3, FixedAll DEF SettlingInv
  <2>1. Unbroken /\ SettlingAt(i)
    BY <1>3 DEF Unbroken, FilesInv, SettlingInv
  <2>2. Settling(i)' <=> Settling(i)
    BY <1>1, <1>3, SameSettling DEF Paired, pemFiles
  <2>3. \A q \in Proc : /\ Passed(q, i)' <=> Passed(q, i)
                        /\ Busy(q, i, B)' <=> Busy(q, i, B)
    BY <1>1, <1>3
  <2>4. Absent(i)' <=> Absent(i)
    BY <1>3 DEF Absent, pemFiles
  <2> QED BY <1>3, <2>1, <2>2, <2>3, <2>4 DEF SettlingAt
<1>4. ASSUME NEW p \in Proc, ConfigStep(p) PROVE SettlingInv'
  BY <1>3, <1>4, ConfigStepDoes, ConfigWhere DEF Onward
<1>5. ASSUME NEW p \in Proc, Launch(p) PROVE SettlingInv'
  BY <1>3, <1>5, LaunchDoes, LaunchWhere
<1>6. ASSUME NEW p \in Proc, GenStep(p) PROVE SettlingInv'
  <2>1. UNCHANGED <<fixed, cut, ended>> /\ OthersStay(p) /\ Mine' = Mine
    BY <1>6, GenStepDoes, FixedAll DEF Onward
  <2> SUFFICES ASSUME Unbroken, NEW i \in Mine PROVE SettlingAt(i)'
    BY <2>1 DEF SettlingInv, Unbroken
  <2>2. SettlingAt(i)
    BY DEF FilesInv, SettlingInv
  <2>3. CASE i = at[p]
    BY <1>6, <2>2, <2>3, SettlingHere DEF SettlingAt
  <2>4. CASE i # at[p]
    <3>1. /\ SameAt(i) /\ (Passed(p, i)' => Passed(p, i))
          /\ \A S \in D : ~Busy(p, i, S) /\ ~Busy(p, i, S)'
      BY <1>1, <1>6, <2>4, GenWhere
    <3>2. \A q \in Proc : /\ Passed(q, i)' => Passed(q, i)
                          /\ \A S \in D : Busy(q, i, S)' <=> Busy(q, i, S)
      BY <1>1, <2>1, <3>1, OthersWhere
    <3>3. Settling(i)' <=> Settling(i)
      BY <1>1, <3>1, <3>2, SameSettling DEF SameAt, Paired
    <3>4. \A q \in Proc : Busy(q, i, B)' <=> Busy(q, i, B)
      BY <1>1, <3>2
    <3> QED BY <2>1, <2>2, <3>1, <3>2, <3>3, <3>4 DEF SettlingAt, SameAt, Absent
  <2> QED BY <2>3, <2>4
<1>7. ASSUME NEW p \in Proc, Fails(p) \/ Kill(p) PROVE SettlingInv'
  <2>1. PICK how \in {"failed", "killed"} : Ends(p, how)
    BY <1>7, FailsDoes, KillDoes
  <2>2. ~Unbroken'
    BY <2>1, EndsCut DEF Renewed, Unbroken
  <2> QED BY <2>2 DEF SettlingInv
<1>8. ASSUME NEW p \in Proc, Permissions(p) PROVE SettlingInv'
  <2>1. /\ Ends(p, "done") /\ pc[p] = "permissions" /\ Mine' = Mine /\ OthersStay(p)
    BY <1>8, PermissionsDoes, FixedAll, EndsDoes
  <2> SUFFICES ASSUME Unbroken', NEW i \in Mine PROVE SettlingAt(i)'
    BY <2>1 DEF SettlingInv
  <2>2. CASE Renewed(p, "done")
    <3>1. /\ Paired(i)' /\ \A q \in Proc : ~Busy(q, i, Rekeying)' /\ ~Busy(q, i, {"sign"})'
      BY <1>1, <1>8, <2>2, RenewalLeaves
    <3>2. Settling(i)'
      BY <3>1 DEF Settling, Rekeying, Paired
    <3> QED BY <3>2 DEF SettlingAt
  <2>3. CASE ~Renewed(p, "done")
    <3>1. SettlingAt(i)
      BY <2>1, <2>3, EndsCut DEF Unbroken, FilesInv, SettlingInv
    <3>2. \A S \in D : ~Busy(p, i, S) /\ ~Busy(p, i, S)' /\ Passed(p, i) /\ ~Passed(p, i)'
      BY <1>1, <2>1, DoneWhere, EndsWhere
    <3>3. \A q \in Proc : /\ Passed(q, i)' => Passed(q, i)
                          /\ \A S \in D : Busy(q, i, S)' <=> Busy(q, i, S)
      BY <1>1, <2>1, <3>2, OthersWhere
    <3>4. /\ Paired(i)' <=> Paired(i)
          /\ Exists(key'[i]) <=> Exists(key[i])
          /\ key'[i].id = key[i].id /\ csr'[i] = csr[i]
      BY <1>1, <1>8, DoneKeeps
    <3>5. Settling(i)' <=> Settling(i)
      BY <1>1, <3>3, <3>4, SameSettling
    <3>6. Settling(i)
      BY <1>1, <3>1, <3>2 DEF SettlingAt
    <3> QED BY <3>5, <3>6 DEF SettlingAt
  <2> QED BY <2>2, <2>3
<1>9. ASSUME NEW p \in Proc, Step(p) PROVE SettlingInv'
  BY <1>4, <1>6, <1>7, <1>8, <1>9, StepIsOne
<1> QED BY <1>2, <1>5, <1>7, <1>9 DEF Next


-----------------------------------------------------------------------------
(***************************************************************************)
(* The CA that is there.                                                   *)
(***************************************************************************)

\* A run that leaves the CA alone if it can signs with the one that is there.
LEMMA TrustGen ==
  ASSUME Typed, HistoryInv, TrustHolds, NEW p \in Proc, GenStep(p), ~asked[p].ca
  PROVE  TrustHolds'
<1>1. /\ UNCHANGED <<fixed, cut>> /\ OthersStay(p) /\ Active(p) /\ All' = All
      /\ CA \in All /\ All \subseteq Number /\ at[p] \in All
  BY GenStepDoes, FixedAll, Numbers
  DEF Onward, Active, Resting, Making, Assembling, Typed, TypeOK, FilesTypeOK, Placed, PlaceOf
<1>2. Making \in SUBSET Generated /\ CA \in All
  BY <1>1 DEF Generated
<1>3. \A q \in Proc \ {p} : Busy(q, CA, Making)' <=> Busy(q, CA, Making)
  BY <1>1, <1>2, OthersWhere
<1>4. CASE Check(p)
  <2>1. /\ UNCHANGED pemFiles /\ pc[p] = "check"
        /\ \/ Complete(at[p]) /\ NextCertTo(p)
           \/ Complete(at[p]) /\ Forced(p) /\ at' = at
           \/ ~Complete(at[p]) /\ at' = at
    BY <1>4, CheckDoes DEF Onward
  <2>2. Busy(p, CA, Making)' => cert[CA] = Nothing
    <3> SUFFICES ASSUME Busy(p, CA, Making)' PROVE cert[CA] = Nothing
      OBVIOUS
    <3>1. ~NextCertTo(p)
      BY DEF Busy, NextCertTo, Making
    <3>2. at[p] = CA /\ ~Complete(CA)
      BY <2>1, <3>1 DEF Busy, Forced
    <3> QED BY <3>2 DEF TrustHolds, Complete, Paired, Exists
  <2> QED BY <1>1, <1>3, <2>1, <2>2 DEF TrustHolds, Trusted, Paired, pemFiles
<1>5. CASE Unlink(p)
  <2>1. /\ at' = at /\ pc[p] = "unlink" /\ OnlyAt(key, key', at[p]) /\ OnlyAt(cert, cert', at[p])
        /\ (cert' = cert \/ (cert'[at[p]] = Nothing /\ key' = key))
    BY <1>5, UnlinkDoes DEF Onward
  <2>2. \A i \in All : cert'[i] = cert[i] \/ cert'[i] = Nothing
    BY <1>1, <2>1 DEF OnlyAt
  <2>3. CASE at[p] = CA
    <3>1. Busy(p, CA, Making)
      BY <2>1, <2>3 DEF Busy, Making
    <3>2. \A i \in All : cert[i] = Nothing /\ cert'[i] = Nothing
      BY <2>2, <3>1 DEF TrustHolds, Trusted, Exists
    <3> QED BY <1>1, <3>1, <3>2 DEF TrustHolds, Exists
  <2>4. CASE at[p] # CA
    <3>1. cert'[CA] = cert[CA] /\ key'[CA] = key[CA] /\ ~Busy(p, CA, Making)'
      BY <1>1, <2>1, <2>4 DEF OnlyAt, Busy
    <3> QED BY <1>1, <1>3, <2>2, <3>1 DEF TrustHolds, Trusted, Paired, Exists
  <2> QED BY <2>3, <2>4
<1>6. CASE Genrsa(p) \/ Chmod(p)
  <2>1. /\ at' = at /\ pc[p] \in Making /\ UNCHANGED cert /\ OnlyAt(key, key', at[p])
    BY <1>6, GenrsaDoes, ChmodDoes DEF Onward, Making
  <2>2. CASE at[p] = CA
    <3>1. Busy(p, CA, Making)
      BY <2>1, <2>2 DEF Busy
    <3>2. \A i \in All : cert'[i] = Nothing
      BY <2>1, <3>1 DEF TrustHolds, Trusted, Exists
    <3> QED BY <1>1, <2>1, <3>1, <3>2 DEF TrustHolds, Exists
  <2>3. CASE at[p] # CA
    <3>1. key'[CA] = key[CA] /\ ~Busy(p, CA, Making)'
      BY <1>1, <2>1, <2>3 DEF OnlyAt, Busy
    <3> QED BY <1>1, <1>3, <2>1, <3>1 DEF TrustHolds, Trusted, Paired
  <2> QED BY <2>2, <2>3
<1>7. CASE Request(p) \/ WriteChain(p) \/ WriteBundle(p)
  <2>1. /\ UNCHANGED <<key, cert>> /\ at[p] # CA /\ ~Busy(p, CA, Making)'
    <3>1. CASE Request(p)
      BY <3>1, RequestDoes DEF Busy
    <3>2. CASE WriteChain(p)
      BY <3>2, WriteChainDoes DEF Busy, Making, Onward
    <3>3. CASE WriteBundle(p)
      BY <3>3, WriteBundleDoes DEF Busy, Making, Onward
    <3> QED BY <1>7, <3>1, <3>2, <3>3
  <2> QED BY <1>1, <1>3, <2>1 DEF TrustHolds, Trusted, Paired
<1>8. CASE Sign(p)
  <2>1. /\ UNCHANGED key /\ CanSign(p) /\ OnlyAt(cert, cert', at[p]) /\ pc[p] = "sign"
        /\ Exists(cert'[at[p]]) /\ cert'[at[p]].ca = key[CA].id
        /\ cert'[at[p]].key = IF at[p] = CA THEN key[CA].id ELSE csr[at[p]]
        /\ pc'[p] \in {"check", "permissions", "chain"}
    BY <1>8, SignDoes DEF Onward
  <2>2. ~Busy(p, CA, Making)'
    BY <2>1 DEF Busy, Making
  <2>3. CASE at[p] = CA
    <3>1. Busy(p, CA, Making)
      BY <2>1, <2>3 DEF Busy, Making
    <3>2. \A i \in All : cert[i] = Nothing
      BY <3>1 DEF TrustHolds, Trusted, Exists
    <3>3. "overlap" \notin cut
      BY <1>1, <3>2 DEF TrustHolds, Exists
    <3>4. \A q \in Proc \ {p} : ~Busy(q, CA, Making)
      BY <1>1, <1>2, <3>3, AloneOrOverlap, NobodyElse
    <3>5. \A i \in All \ {CA} : cert'[i] = Nothing
      BY <1>1, <2>1, <2>3, <3>2 DEF OnlyAt
    <3>6. Trusted(CA)' /\ Paired(CA)'
      BY <2>1, <2>3 DEF Trusted, Paired, CanSign
    <3> QED BY <1>1, <1>3, <2>2, <3>3, <3>4, <3>5, <3>6 DEF TrustHolds, Exists
  <2>4. CASE at[p] # CA
    <3>1. Exists(cert[CA]) /\ cert[CA].key = key[CA].id /\ cert'[CA] = cert[CA]
      BY <1>1, <2>1, <2>4 DEF CanSign, OnlyAt
    <3>2. ASSUME NEW i \in All, Exists(cert'[i]) PROVE Trusted(i)'
      <4>1. CASE i = at[p]
        BY <2>1, <3>1, <4>1 DEF Trusted
      <4>2. CASE i # at[p]
        <5>1. cert'[i] = cert[i]
          BY <1>1, <2>1, <4>2 DEF OnlyAt
        <5> QED BY <3>1, <3>2, <5>1 DEF TrustHolds, Trusted
      <4> QED BY <4>1, <4>2
    <3> QED BY <1>1, <1>3, <2>1, <2>2, <3>1, <3>2 DEF TrustHolds, Paired
  <2> QED BY <2>3, <2>4
<1> QED BY <1>4, <1>5, <1>6, <1>7, <1>8 DEF GenStep

LEMMA NextTrust ==
  ASSUME Typed, HistoryInv, SoloInv, FilesInv, [Next]_vars
  PROVE  TrustInv'
<1>1. TrustPremise => TrustHolds
  BY DEF FilesInv, TrustInv
<1>2. SUFFICES TrustPremise' => TrustHolds'
  BY DEF TrustInv
<1>3. Making \in SUBSET Generated /\ CA \in All
  BY Numbers DEF Generated, Typed, TypeOK, FilesTypeOK
<1>4. CASE UNCHANGED vars
  BY <1>1, <1>4, Stutter DEF TrustPremise, TrustHolds
<1>5. ASSUME NEW p \in Proc, ConfigStep(p) PROVE TrustPremise' => TrustHolds'
  <2>1. UNCHANGED <<fixed, pemFiles, runVars, cut>> /\ All' = All
        /\ \A q \in Proc : Active(q)' <=> Active(q)
    BY <1>5, ConfigStepDoes, FixedAll
    DEF Onward, OthersStay, Active, Resting, Configuring
  <2>2. \A q \in Proc : Busy(q, CA, Making)' <=> Busy(q, CA, Making)
    BY <1>3, <1>5, ConfigWhere
  <2> QED BY <1>1, <2>1, <2>2
          DEF TrustPremise, TrustHolds, Trusted, Paired, pemFiles, runVars
<1>6. ASSUME NEW p \in Proc, GenStep(p) PROVE TrustPremise' => TrustHolds'
  <2>1. UNCHANGED <<runVars, cut>> /\ Active(p) /\ \A q \in Proc : Active(q)' <=> Active(q)
    BY <1>6, GenStepDoes
    DEF Onward, OthersStay, Active, Resting, Making, Assembling, Generating
  <2>2. TrustPremise' => TrustPremise /\ ~asked[p].ca
    BY <2>1 DEF TrustPremise, runVars
  <2> QED BY <1>1, <1>6, <2>2, TrustGen
<1>7. ASSUME NEW p \in Proc, Launch(p) PROVE TrustPremise' => TrustHolds'
  <2> SUFFICES ASSUME TrustPremise' PROVE TrustHolds'
    OBVIOUS
  <2>1. /\ UNCHANGED <<fixed, pemFiles>> /\ All' = All /\ cut \subseteq cut'
        /\ \A q \in Others(p) : asked'[q] = asked[q] /\ Active(q)'
        /\ ~Active(p)
    BY <1>7, LaunchDoes, FixedAll DEF Others, Active
  <2>2. TrustPremise
    BY <2>1 DEF TrustPremise, Others
  <2>3. "overlap" \in cut' => Exists(cert[CA])
    <3>1. CASE Others(p) = {}
      BY <1>1, <1>7, <2>2, <3>1, LaunchDoes DEF TrustHolds
    <3>2. CASE Others(p) # {}
      BY <1>7, <3>2, LaunchDoes DEF TrustPremise, Complete
    <3> QED BY <3>1, <3>2
  <2>4. \A q \in Proc : Busy(q, CA, Making)' <=> Busy(q, CA, Making)
    BY <1>3, <1>7, LaunchWhere
  <2> QED BY <1>1, <2>1, <2>2, <2>3, <2>4 DEF TrustHolds, Trusted, Paired, pemFiles
<1>8. ASSUME NEW p \in Proc, Fails(p) \/ Kill(p) PROVE TrustPremise' => TrustHolds'
  <2>1. PICK how \in {"failed", "killed"} :
          Ends(p, how) /\ UNCHANGED <<fixed, pemFiles, runVars>>
    BY <1>8, FailsDoes, KillDoes
  <2> SUFFICES ASSUME TrustPremise' PROVE TrustHolds'
    OBVIOUS
  <2>2. /\ OthersStay(p) /\ cut \subseteq cut' /\ ~asked[p].ca /\ All' = All
        /\ "overlap" \in cut' <=> "overlap" \in cut
    BY <2>1, EndsDoes, EndsCut, FixedAll DEF Renewed, TrustPremise
  <2>3. TrustPremise
    BY <2>1, <2>2 DEF TrustPremise, OthersStay, Active, runVars
  <2>4. \A q \in Proc : Busy(q, CA, Making)' => Busy(q, CA, Making)
    BY <1>3, <2>1, <2>2, OthersWhere, EndsWhere
  <2> QED BY <1>1, <2>1, <2>2, <2>3, <2>4 DEF TrustHolds, Trusted, Paired, pemFiles
<1>9. ASSUME NEW p \in Proc, Permissions(p) PROVE TrustPremise' => TrustHolds'
  <2>1. /\ Ends(p, "done") /\ pc[p] = "permissions" /\ UNCHANGED <<fixed, runVars>>
        /\ All' = All /\ OthersStay(p) /\ Active(p)
    BY <1>9, PermissionsDoes, FixedAll, EndsDoes DEF Active, Resting
  <2> SUFFICES ASSUME TrustPremise' PROVE TrustHolds'
    OBVIOUS
  <2>2. CASE Renewed(p, "done")
    BY <1>3, <1>9, <2>1, <2>2, RenewalLeaves DEF TrustHolds
  <2>3. CASE ~Renewed(p, "done")
    <3>1. /\ cut \subseteq cut'
          /\ "overlap" \in cut' <=> "overlap" \in cut
      BY <2>1, <2>3, EndsCut
    <3>2. ~asked[p].ca
      BY <2>1, <2>3, <3>1 DEF HistoryInv, Renewed, TrustPremise
    <3>3. TrustPremise
      BY <2>1, <3>1, <3>2 DEF TrustPremise, OthersStay, Active, runVars
    <3>4. \A q \in Proc : Busy(q, CA, Making)' => Busy(q, CA, Making)
      BY <1>3, <2>1, OthersWhere, EndsWhere
    <3>5. \A i \in All : /\ Trusted(i)' <=> Trusted(i)
                         /\ Exists(cert'[i]) <=> Exists(cert[i])
                         /\ Paired(i)' <=> Paired(i)
      BY <1>9, DoneKeeps
    <3> QED BY <1>1, <1>3, <2>1, <3>1, <3>3, <3>4, <3>5 DEF TrustHolds, Exists
  <2> QED BY <2>2, <2>3
<1>10. ASSUME NEW p \in Proc, Step(p) PROVE TrustPremise' => TrustHolds'
  BY <1>5, <1>6, <1>8, <1>9, <1>10, StepIsOne
<1> QED BY <1>4, <1>7, <1>8, <1>10 DEF Next


-----------------------------------------------------------------------------
(***************************************************************************)
(* The passphrase on file.                                                 *)
(***************************************************************************)

LEMMA SignConfig ==
  ASSUME Typed, SignHolds, NEW p \in Proc, ConfigStep(p), Others(p) = {}, ~asked[p].config
  PROVE  SignHolds'
<1>1. /\ UNCHANGED <<fixed, pemFiles>> /\ OthersStay(p) /\ All' = All /\ Mine' = Mine
      /\ CA \in All /\ All \subseteq Number /\ Mine = All \ {CA} /\ at[p] \in All
      /\ pc[p] \in {"caConfig", "writeCaConfig"} => at[p] = CA
      /\ pc[p] \in {"certConfig", "writeCertConfig"} => at[p] # CA
  BY ConfigStepDoes, FixedAll, Numbers
  DEF Onward, Typed, TypeOK, FilesTypeOK, Placed, PlaceOf
<1>2. \A q \in Proc \ {p} : pc'[q] \in Resting
  BY <1>1 DEF Others, Active, OthersStay
<1>3. SUFFICES
        /\ \A i \in All : config'[i] \in Id => config'[i] = config'[CA]
        /\ Exists(key[CA]) => config'[CA] \in Id /\ key[CA].pass = config'[CA]
        /\ config'[CA] \notin Id => \A i \in Mine : config'[i] = Nothing
        /\ pc'[p] = "writeCaConfig" => config'[CA] = Blank
        /\ pc'[p] \in {"certConfig", "writeCertConfig"} =>
             config'[CA] \in Id /\ pass'[p] = config'[CA]
  BY <1>1, <1>2 DEF SignHolds, Resting, pemFiles
<1>4. Nothing \notin Id /\ Blank \notin Id
  BY FileAssumption
<1>5. CASE KeepConfig(p)
  BY <1>1, <1>5, KeepConfigDoes DEF SignHolds, Onward
<1>6. CASE OpenConfig(p)
  <2>1. /\ config[at[p]] = Nothing /\ OnlyAt(config, config', at[p]) /\ config'[at[p]] = Blank
        /\ pc[p] \in {"caConfig", "certConfig"}
        /\ pc'[p] = IF at[p] = CA THEN "writeCaConfig" ELSE "writeCertConfig"
        /\ (at[p] # CA => pass'[p] = pass[p])
    BY <1>6, OpenConfigDoes DEF Onward
  <2>2. CASE at[p] = CA
    <3>1. /\ \A i \in Mine : config'[i] = Nothing
          /\ ~Exists(key[CA])
      BY <1>1, <1>4, <2>1, <2>2 DEF SignHolds, OnlyAt
    <3> QED BY <1>1, <1>4, <2>1, <2>2, <3>1
  <2>3. CASE at[p] # CA
    <3>1. config[CA] \in Id /\ pass[p] = config[CA] /\ config'[CA] = config[CA]
      BY <1>1, <2>1, <2>3 DEF SignHolds, OnlyAt
    <3>2. \A i \in All : config'[i] \in Id => config'[i] = config'[CA]
      BY <1>1, <1>4, <2>1, <3>1 DEF SignHolds, OnlyAt
    <3> QED BY <2>1, <2>3, <3>1, <3>2 DEF SignHolds
  <2> QED BY <2>2, <2>3
<1>7. CASE WriteConfig(p)
  <2>1. /\ OnlyAt(config, config', at[p]) /\ config'[at[p]] = pass[p] /\ pass[p] \in Id
        /\ pass' = pass /\ pc[p] \in {"writeCaConfig", "writeCertConfig"}
        /\ pc'[p] # "writeCaConfig"
    BY <1>7, WriteConfigDoes DEF Onward
  <2>2. CASE at[p] = CA
    <3>1. /\ \A i \in Mine : config'[i] = Nothing
          /\ ~Exists(key[CA])
      BY <1>1, <1>4, <2>1, <2>2 DEF SignHolds, OnlyAt
    <3> QED BY <1>1, <1>4, <2>1, <2>2, <3>1
  <2>3. CASE at[p] # CA
    <3>1. config[CA] \in Id /\ pass[p] = config[CA] /\ config'[CA] = config[CA]
      BY <1>1, <2>1, <2>3 DEF SignHolds, OnlyAt
    <3>2. \A i \in All : config'[i] \in Id => config'[i] = config'[CA]
      BY <1>1, <2>1, <3>1 DEF SignHolds, OnlyAt
    <3> QED BY <2>1, <3>1, <3>2 DEF SignHolds
  <2> QED BY <2>2, <2>3
<1> QED BY <1>5, <1>6, <1>7 DEF ConfigStep

\* The key of the CA is made with the passphrase that is on file.
LEMMA SignGen ==
  ASSUME Typed, SignHolds, NEW p \in Proc, GenStep(p), OfRun(p), Others(p) = {}
  PROVE  SignHolds'
<1>1. /\ UNCHANGED <<fixed, config>> /\ OthersStay(p) /\ All' = All /\ Mine' = Mine
      /\ pc'[p] \in Generating /\ CA \in Number /\ at[p] \in Number
      /\ \A i \in Number \ {at[p]} : SameAt(i)
  BY GenStepDoes, FixedAll, Numbers DEF Onward, Typed, TypeOK, FilesTypeOK, RunsTypeOK
<1>2. \A q \in Proc : pc'[q] \notin Configuring
  BY <1>1 DEF Others, Active, Resting, OthersStay, Generating, Making, Assembling, Configuring
<1>3. SUFFICES ASSUME Exists(key'[CA]) PROVE config[CA] \in Id /\ key'[CA].pass = config[CA]
  BY <1>1, <1>2 DEF SignHolds, Configuring
<1>4. CASE key'[CA] = key[CA]
  BY <1>3, <1>4 DEF SignHolds
<1>5. CASE key'[CA] # key[CA]
  <2>1. at[p] = CA
    BY <1>1, <1>5 DEF SameAt
  <2>2. CASE Unlink(p)
    BY <1>3, <1>5, <2>1, <2>2, UnlinkDoes DEF Exists
  <2>3. CASE Genrsa(p)
    <3>1. pc[p] = "genrsa" /\ key'[CA].pass = pass[p]
      BY <2>1, <2>3, GenrsaDoes DEF Onward
    <3>2. pass[p] = config[CA] /\ pass[p] \in Id
      BY <2>1, <3>1
      DEF OfRun, MadeByRun, Making, Typed, Placed, PlaceOf, Resting
    <3> QED BY <3>1, <3>2
  <2>4. CASE Chmod(p)
    BY <2>4, ChmodDoes DEF SignHolds
  <2>5. ~(Check(p) \/ Request(p) \/ Sign(p) \/ WriteChain(p) \/ WriteBundle(p))
    BY <1>5, CheckDoes, RequestDoes, SignDoes, WriteChainDoes, WriteBundleDoes DEF pemFiles
  <2> QED BY <2>2, <2>3, <2>4, <2>5 DEF GenStep
<1> QED BY <1>4, <1>5

LEMMA NextSign ==
  ASSUME Typed, HistoryInv, SoloInv, FilesInv, [Next]_vars
  PROVE  SignInv'
<1>1. SignPremise => SignHolds
  BY DEF FilesInv, SignInv
<1>2. SUFFICES SignPremise' => SignHolds'
  BY DEF SignInv
<1>3. CASE UNCHANGED vars
  BY <1>1, <1>3, Stutter DEF SignPremise, SignHolds
<1>4. ASSUME NEW p \in Proc, ConfigStep(p) \/ GenStep(p), SignPremise' PROVE SignHolds'
  <2>1. UNCHANGED <<runVars, cut>> /\ Active(p) /\ \A q \in Proc : Active(q)' <=> Active(q)
    BY <1>4, ConfigStepDoes, GenStepDoes
    DEF Onward, OthersStay, Active, Resting, Configuring, Making, Assembling, Generating
  <2>2. SignPremise /\ ~asked[p].config
    BY <1>4, <2>1 DEF SignPremise, runVars
  <2>3. Others(p) = {} /\ OfRun(p)
    BY <2>1, <2>2, AloneOrOverlap DEF SignPremise, SoloInv
  <2> QED BY <1>1, <1>4, <2>2, <2>3, SignConfig, SignGen
<1>5. ASSUME NEW p \in Proc, Launch(p), SignPremise' PROVE SignHolds'
  <2>1. /\ UNCHANGED <<fixed, pemFiles, config, pass>> /\ All' = All /\ Mine' = Mine
        /\ cut \subseteq cut' /\ pc'[p] = "caConfig" /\ ~Active(p)
        /\ \A q \in Proc \ {p} : q \notin Others(p) => pc'[q] = "idle"
    BY <1>5, LaunchDoes, FixedAll
  <2>2. Others(p) = {}
    BY <1>5, LaunchDoes DEF SignPremise
  <2>3. SignPremise
    BY <1>5, <2>1, <2>2 DEF SignPremise, Others
  <2>4. \A q \in Proc : pc'[q] \in {"caConfig", "idle"}
    BY <2>1, <2>2
  <2> QED BY <1>1, <2>1, <2>3, <2>4 DEF SignHolds, pemFiles
<1>6. ASSUME NEW p \in Proc, NEW how \in {"done", "failed", "killed"}, Ends(p, how),
             UNCHANGED <<fixed, config, runVars>>, Active(p), ~Renewed(p, how), SignPremise',
             Exists(key'[CA]) <=> Exists(key[CA]), key'[CA].pass = key[CA].pass
      PROVE  SignHolds'
  <2>1. /\ OthersStay(p) /\ cut \subseteq cut' /\ pc'[p] = how
        /\ asked[p].config /\ ~(how = "done" /\ asked[p].ca) => "config" \in cut'
    BY <1>6, EndsDoes, EndsCut
  <2>2. solo[p] /\ Others(p) = {}
    BY <1>6, <2>1, AloneOrOverlap DEF SignPremise
  <2>3. ~asked[p].config
    BY <1>6, <2>1, <2>2 DEF SignPremise, Renewed
  <2>4. SignPremise
    BY <1>6, <2>1, <2>2, <2>3 DEF SignPremise, Others
  <2>5. \A q \in Proc : pc'[q] \in Resting
    BY <2>1, <2>2 DEF Others, Active, OthersStay, Resting
  <2> QED BY <1>1, <1>6, <2>4, <2>5, FixedAll DEF SignHolds, Resting
<1>7. ASSUME NEW p \in Proc, Fails(p) \/ Kill(p), Active(p), SignPremise' PROVE SignHolds'
  <2>1. PICK how \in {"failed", "killed"} :
          Ends(p, how) /\ UNCHANGED <<fixed, config, pemFiles, runVars>>
    BY <1>7, FailsDoes, KillDoes
  <2> QED BY <1>6, <1>7, <2>1 DEF Renewed, pemFiles
<1>8. ASSUME NEW p \in Proc, Permissions(p), SignPremise' PROVE SignHolds'
  <2>1. /\ Ends(p, "done") /\ pc[p] = "permissions" /\ UNCHANGED <<fixed, config, runVars>>
        /\ All' = All /\ Mine' = Mine /\ Active(p) /\ CA \in All /\ Mine \subseteq All
    BY <1>8, PermissionsDoes, FixedAll, Numbers
    DEF Active, Resting, Typed, TypeOK, FilesTypeOK
  <2>2. CASE Renewed(p, "done")
    <3>1. /\ \A q \in Proc : pc'[q] \in Resting
          /\ \A i \in All : config'[i] \in Id /\ config'[i] = key'[CA].pass
      BY <1>8, <2>2, RenewalLeaves DEF Active
    <3> QED BY <2>1, <3>1 DEF SignHolds, Resting
  <2>3. CASE ~Renewed(p, "done")
    BY <1>6, <1>8, <2>1, <2>3, DoneKeeps
  <2> QED BY <2>2, <2>3
<1>9. ASSUME NEW p \in Proc, Step(p), SignPremise' PROVE SignHolds'
  BY <1>4, <1>7, <1>8, <1>9, StepIsOne
<1>10. ASSUME NEW p \in Proc, Kill(p), SignPremise' PROVE SignHolds'
  BY <1>7, <1>10, KillDoes
<1> QED BY <1>3, <1>5, <1>9, <1>10 DEF Next


-----------------------------------------------------------------------------
(***************************************************************************)
(* Together.                                                               *)
(***************************************************************************)

\* What is there in the beginning is nothing, or in order.
LEMMA InitFiles ==
  ASSUME Init
  PROVE  /\ All \subseteq Number /\ CA \in All /\ Mine = All \ {CA}
         /\ \/ \A i \in All : /\ Absent(i) /\ config[i] = Nothing
            \/ /\ \A i \in All : /\ Complete(i) /\ Paired(i) /\ Trusted(i)
                                 /\ config[i] = 1 /\ (i # CA => Assembled(i))
               /\ 1 \in Id /\ key[CA].pass = 1
<1>1. Typed /\ All \subseteq Number /\ CA \in All /\ Mine = All \ {CA} /\ CA + 1 = 1
  BY InitTyped, Numbers DEF Init, CA
<1>2. CASE NotMade
  BY <1>1, <1>2 DEF NotMade, Absent
<1>3. CASE Made(Mine, kind)
  <2>1. /\ \A i \in All : /\ config[i] = 1
                          /\ key[i].id = i + 1 /\ (i = CA => key[i].pass = 1)
                          /\ cert[i].key = i + 1 /\ cert[i].ca = 1
    BY <1>1, <1>3 DEF Made
  <2>2. \A i \in All :
          /\ key[i] = [id |-> i + 1, pass |-> IF i = CA THEN 1 ELSE Nothing,
                       guarded |-> kind = "postgres"]
          /\ cert[i] = [key |-> i + 1, ca |-> 1, guarded |-> kind = "postgres"]
          /\ i # CA => /\ chain[i] = [key |-> i + 1, ca |-> 1, top |-> 1]
                       /\ kind = "mongo" =>
                            bundle[i] = [key |-> i + 1, ca |-> 1, private |-> i + 1]
    BY <1>1, <1>3 DEF Made
  <2>3. \A i \in All : i + 1 \in Id /\ 1 \in Id
    BY <1>1, BoundAssumption, Numbers DEF Typed, TypeOK, FilesTypeOK, Id
  <2> HIDE DEF Id
  <2>4. \A i \in All :
          /\ [id |-> i + 1, pass |-> IF i = CA THEN 1 ELSE Nothing,
              guarded |-> kind = "postgres"] \in KeyFile
          /\ [key |-> i + 1, ca |-> 1, guarded |-> kind = "postgres"] \in CertFile
          /\ [key |-> i + 1, ca |-> 1, top |-> 1] \in ChainFile
          /\ [key |-> i + 1, ca |-> 1, private |-> i + 1] \in BundleFile
    BY <2>3 DEF KeyFile, CertFile, ChainFile, BundleFile
  <2>5. \A i \in All :
          /\ Exists(key[i]) /\ Exists(cert[i])
          /\ i # CA => Exists(chain[i]) /\ (kind = "mongo" => Exists(bundle[i]))
    <3> SUFFICES ASSUME NEW i \in All
                 PROVE  /\ Exists(key[i]) /\ Exists(cert[i])
                        /\ i # CA => Exists(chain[i]) /\ (kind = "mongo" => Exists(bundle[i]))
      OBVIOUS
    <3>1. key[i] \in KeyFile
      BY <2>2, <2>4
    <3>2. cert[i] \in CertFile
      BY <2>2, <2>4
    <3>3. i # CA => chain[i] \in ChainFile
      BY <2>2, <2>4
    <3>4. i # CA /\ kind = "mongo" => bundle[i] \in BundleFile
      BY <2>2, <2>4
    <3>5. /\ Nothing \notin KeyFile /\ Nothing \notin CertFile
          /\ Nothing \notin ChainFile /\ Nothing \notin BundleFile
      BY FileAssumption
    <3> QED BY <3>1, <3>2, <3>3, <3>4, <3>5 DEF Exists
  <2>6. \A i \in All : Complete(i) /\ Paired(i) /\ Trusted(i)
    BY <1>1, <2>1, <2>5 DEF Complete, Paired, Trusted
  <2>7. \A i \in All : i # CA => Assembled(i)
    BY <2>1, <2>2, <2>5 DEF Assembled
  <2> QED BY <1>1, <2>1, <2>3, <2>6, <2>7
<1> QED BY <1>1, <1>2, <1>3 DEF Init

LEMMA InitInv == Init => Inv /\ Properties
<1> SUFFICES ASSUME Init PROVE Inv /\ Properties
  OBVIOUS
<1>1. /\ \A p \in Proc : pc[p] = "idle"
      /\ cut = {} /\ ended = "idle"
  BY DEF Init
<1>2. \A p \in Proc, i \in All : ~Passed(p, i) /\ ~Active(p)
  BY <1>1 DEF Passed, Active, Resting, Generating, Making, Assembling
<1>3. \A p \in Proc, i \in All, S \in SUBSET Generated : ~Busy(p, i, S)
  BY <1>1 DEF Busy, Generated, Making, Assembling
<1>4. /\ Making \in SUBSET Generated /\ {"genrsa"} \in SUBSET Generated
      /\ {"chmod", "request", "sign"} \in SUBSET Generated
      /\ {"sign"} \in SUBSET Generated /\ {"unlink", "genrsa", "request"} \in SUBSET Generated
      /\ Making \union Assembling \in SUBSET Generated
  BY DEF Generated, Making
<1>5. Typed /\ HistoryInv /\ SoloInv
  <2>1. \A p \in Proc : ~Active(p)
    BY <1>1 DEF Active, Resting
  <2> QED BY <1>1, <2>1, InitTyped DEF HistoryInv, SoloInv
<1>6. /\ CA \in All /\ Mine = All \ {CA}
      /\ \A i \in All :
           \/ Absent(i) /\ ~Complete(i)
           \/ Complete(i) /\ Paired(i) /\ Trusted(i) /\ (i # CA => Assembled(i))
  BY InitFiles DEF Complete, Absent, Exists
<1>7. \A i \in All : FreshAt(i)
  BY <1>3, <1>4, <1>6 DEF FreshAt
<1>8. \A i \in Mine : SettlingAt(i)
  <2> SUFFICES ASSUME NEW i \in Mine PROVE SettlingAt(i)
    OBVIOUS
  <2>1. ~\E q \in Proc : Busy(q, i, {"sign"})
    BY <1>3, <1>4, <1>6
  <2>2. Absent(i) \/ Settling(i)
    BY <1>6, <2>1 DEF Settling, Complete
  <2>3. \A q \in Proc : ~Passed(q, i) /\ ~Busy(q, i, Making \union Assembling)
    BY <1>2, <1>3, <1>4, <1>6
  <2> QED BY <1>1, <2>2, <2>3 DEF SettlingAt
<1>9. TrustHolds
  <2>1. \A p \in Proc : ~Busy(p, CA, Making)
    BY <1>3, <1>4, <1>6
  <2>2. \A i \in All : Exists(cert[i]) => Trusted(i) /\ Paired(i)
    BY <1>6 DEF Absent, Exists
  <2> QED BY <1>1, <1>6, <2>1, <2>2 DEF TrustHolds
<1>10. SignHolds
  BY <1>1, InitFiles, FileAssumption DEF SignHolds, Absent, Exists, Complete
<1>11. FilesInv
  BY <1>6, <1>7, <1>8, <1>9, <1>10
  DEF FilesInv, WholeInv, FreshInv, SettlingInv, TrustInv, SignInv
<1>12. Properties
  BY <1>1 DEF Properties, RepairWorks, EndsMatched, SignsAgain, OverlapsMatch
<1> QED BY <1>5, <1>11, <1>12 DEF Inv

LEMMA NextInv == Inv /\ [Next]_vars => Inv'
BY NextTyped, NextHistory, NextSolo, NextWhole, NextFresh, NextSettling, NextTrust, NextSign
DEF Inv, FilesInv

\* What the properties say when the last run ends well.
LEMMA DoneLeaves ==
  ASSUME Inv, NEW p \in Proc, Permissions(p), Still'
  PROVE  EndsMatched' /\ SignsAgain' /\ OverlapsMatch'
<1>1. /\ Typed /\ HistoryInv /\ SoloInv /\ FilesInv
      /\ Ends(p, "done") /\ pc[p] = "permissions" /\ UNCHANGED <<fixed, config, runVars>>
      /\ OthersStay(p) /\ Active(p) /\ All' = All /\ Mine' = Mine
      /\ CA \in All /\ Mine \subseteq All /\ (\A i \in Mine : i # CA)
      /\ at[p] # CA
  BY PermissionsDoes, FixedAll, Numbers, EndsDoes
  DEF Inv, Active, Resting, Typed, TypeOK, FilesTypeOK, Placed, PlaceOf, CA
<1>2. Others(p) = {}
  BY <1>1 DEF Still, Others, OthersStay, Active
<1>3. CASE Renewed(p, "done")
  BY <1>1, <1>3, RenewalLeaves DEF EndsMatched, SignsAgain, OverlapsMatch
<1>4. CASE ~Renewed(p, "done")
  <2>1. /\ cut \subseteq cut' /\ cut' \subseteq cut \union {"config"}
        /\ asked[p].config /\ ~asked[p].ca => "config" \in cut'
    BY <1>1, <1>4, EndsCut
  <2>2. \A i \in All, q \in Proc, S \in SUBSET Generated : ~Busy(q, i, S)
    BY <1>1, <1>2, NobodyElse, DoneWhere
  <2>3. \A i \in All :
          /\ Paired(i)' <=> Paired(i)
          /\ Trusted(i)' <=> Trusted(i)
          /\ Assembled(i)' <=> Assembled(i)
          /\ config'[i] = config[i] /\ key'[i].pass = key[i].pass
    BY DoneKeeps, <1>1
  \* Without an overlap the run has been alone.
  <2>4. ASSUME "overlap" \notin cut
        PROVE  /\ ~asked[p].ca /\ Complete(CA) /\ "race" \notin cut
               /\ \A i \in All : LeftByRun(p, i)
    <3>1. solo[p] /\ OfRun(p)
      BY <1>1, <2>4, AloneOrOverlap DEF SoloInv
    <3>2. ~asked[p].ca
      BY <1>4, <3>1 DEF Renewed
    <3>3. \A i \in All : LeftByRun(p, i)
      BY <1>1, <3>1, DoneWhere DEF OfRun, PassedByRun
    <3>4. Complete(CA)
      BY <1>1, <3>1 DEF OfRun, PassedByRun, Generating
    <3> QED BY <1>1, <2>4, <3>2, <3>3, <3>4 DEF HistoryInv
  <2>5. ASSUME ~asked[p].ca, cut \cap {"again", "ca", "failure", "race"} = {}
        PROVE  TrustHolds
    <3>1. \A q \in Proc : Active(q) => ~asked[q].ca
      BY <1>2, <2>5 DEF Others
    <3> QED BY <1>1, <2>5, <3>1 DEF FilesInv, TrustInv, TrustPremise
  <2>6. EndsMatched'
    <3> SUFFICES ASSUME "overlap" \notin cut', NEW i \in Mine
                 PROVE  /\ "again" \notin cut' => Paired(i)
                        /\ cut' \cap {"again", "ca", "failure"} = {} => Trusted(i)
                        /\ cut' \cap {"ca", "certs", "failure"} = {} => Assembled(i)
      BY <1>1, <2>3 DEF EndsMatched
    <3>1. "overlap" \notin cut
      BY <2>1
    <3>2. "again" \notin cut => Paired(i)
      BY <1>1, <2>4, <3>1 DEF LeftByRun
    <3>3. cut \cap {"again", "ca", "failure"} = {} => Trusted(i)
      BY <1>1, <2>4, <2>5, <3>1, <3>2 DEF TrustHolds, Paired
    <3>4. Unbroken => Assembled(i)
      <4> SUFFICES ASSUME Unbroken PROVE Assembled(i)
        OBVIOUS
      <4>1. Paired(i) /\ FreshAt(i)
        BY <1>1, <3>1, <3>2 DEF HistoryInv, FilesInv, FreshInv
      <4>2. \A q \in Proc : ~Busy(q, i, Making \union Assembling)
        BY <1>1, <2>2 DEF Generated
      <4> QED BY <1>1, <4>1, <4>2 DEF FreshAt, Paired, Complete
    <3> QED BY <2>1, <3>2, <3>3, <3>4 DEF Unbroken
  <2>7. SignsAgain'
    <3> SUFFICES ASSUME cut' \cap {"overlap", "ca", "config"} = {}, NEW i \in All
                 PROVE  config[i] = key[CA].pass
      BY <1>1, <2>3 DEF SignsAgain
    <3>1. cut \cap {"overlap", "ca", "config"} = {} /\ ~asked[p].ca
      BY <2>1, <2>4
    <3>2. SignHolds
      <4>1. \A q \in Proc : Active(q) => ~asked[q].config
        BY <1>2, <2>1, <3>1 DEF Others
      <4> QED BY <1>1, <3>1, <4>1 DEF FilesInv, SignInv, SignPremise
    <3>3. config[i] \in Id /\ Exists(key[CA])
      BY <2>4, <3>1 DEF LeftByRun, Complete
    <3> QED BY <3>2, <3>3 DEF SignHolds
  <2>8. OverlapsMatch'
    <3> SUFFICES ASSUME cut' \ {"config"} \in {{"overlap"}, {"overlap", "race"}},
                        NEW i \in Mine
                 PROVE  Paired(i) /\ ("race" \notin cut' => Trusted(i))
      BY <1>1, <2>3 DEF OverlapsMatch
    <3>1. /\ cut \cap {"ca", "certs", "failure", "again"} = {} /\ "overlap" \in cut
          /\ "race" \notin cut' => "race" \notin cut
      BY <2>1
    <3>2. Settling(i)
      <4>1. SettlingAt(i)
        BY <1>1, <3>1 DEF Unbroken, FilesInv, SettlingInv
      <4> QED BY <1>1, <4>1, DoneWhere DEF SettlingAt
    <3>3. Paired(i)
      BY <1>1, <2>2, <3>2 DEF Settling, Generated, Making
    <3>4. ASSUME "race" \notin cut' PROVE Trusted(i)
      <4>1. ~asked[p].ca
        BY <1>1, <1>4, <3>1, <3>4 DEF HistoryInv, Renewed
      <4>2. TrustHolds
        BY <2>5, <3>1, <3>4, <4>1
      <4> QED BY <1>1, <3>3, <4>2 DEF TrustHolds, Paired
    <3> QED BY <3>3, <3>4
  <2> QED BY <2>6, <2>7, <2>8
<1> QED BY <1>3, <1>4

LEMMA NextProperties == Inv /\ Properties /\ [Next]_vars => Properties'
<1> SUFFICES ASSUME Inv, Properties, [Next]_vars PROVE Properties'
  OBVIOUS
<1>1. RepairWorks'
  BY NextRepairs DEF Inv, Properties
<1>2. CASE UNCHANGED vars
  <2>1. Still' = Still
    BY <1>2, Stutter DEF Still
  <2> QED BY <1>1, <1>2, <2>1, Stutter
          DEF Properties, EndsMatched, SignsAgain, OverlapsMatch
<1>3. ASSUME ~Still' \/ ended' # "done" PROVE Properties'
  BY <1>1, <1>3 DEF Properties, EndsMatched, SignsAgain, OverlapsMatch
<1>4. ASSUME NEW p \in Proc, ConfigStep(p) \/ GenStep(p) \/ Launch(p) PROVE Properties'
  <2>1. Active(p)'
    BY <1>4, ConfigStepDoes, GenStepDoes, LaunchDoes
    DEF Inv, Onward, Active, Resting, Configuring, Generating, Making, Assembling
  <2> QED BY <1>3, <2>1 DEF Still
<1>5. ASSUME NEW p \in Proc, Fails(p) \/ Kill(p) PROVE Properties'
  BY <1>3, <1>5, FailsDoes, KillDoes, EndsDoes DEF Inv
<1>6. ASSUME NEW p \in Proc, Permissions(p) PROVE Properties'
  <2>1. CASE Still'
    BY <1>1, <1>6, <2>1, DoneLeaves DEF Properties
  <2> QED BY <1>3, <2>1
<1>7. ASSUME NEW p \in Proc, Step(p) PROVE Properties'
  BY <1>4, <1>5, <1>6, <1>7, StepIsOne
<1> QED BY <1>2, <1>4, <1>5, <1>7 DEF Next

LEMMA InvHolds == Spec => [](Inv /\ Properties)
BY InitInv, NextInv, NextProperties, PTL DEF Spec

\* Whatever runs were killed or failed before, a run that is told to overwrite the
\* configurations and the CA, and that no other one disturbs, does not fail, unless
\* it found a file that it can neither write nor unlink.
THEOREM RepairNeverFails == Spec => []RepairWorks
<1>1. Inv /\ Properties => RepairWorks
  BY DEF Properties
<1> QED BY InvHolds, <1>1, PTL

\* What a run that ended well leaves for every server, of one run after another.
THEOREM MatchedAtTheEnd == Spec => []EndsMatched
<1>1. Inv /\ Properties => EndsMatched
  BY DEF Properties
<1> QED BY InvHolds, <1>1, PTL

\* The passphrase on file opens the key of the CA after a run that ended well.
THEOREM AlwaysSignsAgain == Spec => []SignsAgain
<1>1. Inv /\ Properties => SignsAgain
  BY DEF Properties
<1> QED BY InvHolds, <1>1, PTL

\* However any number of runs overlap, if all of them end well each server has a
\* certificate of its key.
THEOREM MatchedAfterOverlaps == Spec => []OverlapsMatch
<1>1. Inv /\ Properties => OverlapsMatch
  BY DEF Properties
<1> QED BY InvHolds, <1>1, PTL

=============================================================================
