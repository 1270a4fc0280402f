----------------------------- MODULE MCEtcHosts -----------------------------
(***************************************************************************)
(* A hosts file with two lines for one name and an alias, and commands     *)
(* about these names and about one the file does not have.                 *)
(***************************************************************************)
EXTENDS EtcHosts

L(ip, names) == [ip |-> ip, names |-> names]
MCFirstFile == <<L("lo", <<"localhost", "h2">>), L("v6", <<"localhost">>), L("lan", <<"h1">>)>>

Cmd(kind, names, ip) == [kind |-> kind, names |-> names, ip |-> ip]
EnsureCmd(names, ip, mode, ports) ==
  [kind |-> "ensure", names |-> names, ip |-> ip, mode |-> mode, ports |-> ports]

MCCommands ==
  {Cmd("set", <<"localhost">>, "lan"),
   Cmd("remove", <<"localhost">>, "lo"), Cmd("list", << >>, "lo"),
   Cmd("backup", << >>, "lo"), Cmd("restore", << >>, "lo"),
   EnsureCmd(<<"h1", "h3">>, "lo", "add", TRUE),
   EnsureCmd(<<"h2">>, "lan", "prompt", FALSE)}

Symmetry == Permutations(Proc)

=============================================================================
