-------------------------- MODULE MCMongoLifecycle --------------------------
(***************************************************************************)
(* Three instances as `mongo start` requires at least, and an edit that    *)
(* changes the image and the name of the replica set.  What earlier runs   *)
(* left behind: nothing, or a set that was started, of which a restart     *)
(* renewed the first instance and removed the third when it was            *)
(* interrupted; since then the mongod of the second has exited.            *)
(***************************************************************************)
EXTENDS MongoLifecycle, TLC

Base == [n |-> 3, run |-> 1, conf |-> 1, auth |-> TRUE, net |-> TRUE]
Upgraded == [Base EXCEPT !.run = 2, !.conf = 2]
MCConfigs == {Base, Upgraded}

Made(state, run, init) ==
  [state |-> state, label |-> [run |-> run, init |-> init, net |-> TRUE], conf |-> run]
Left(c1, c2, c3, net, conf) ==
  [container |-> <<c1, c2, c3>>, network |-> net, hostConf |-> <<conf, conf, conf>>]

MCLeftBehind ==
  {Left(Absent, Absent, Absent, FALSE, 0),
   Left(Made("running", 1, FALSE), Made("exited", 1, TRUE), Absent, TRUE, 1)}

Symmetry == Permutations(Proc)

=============================================================================
