---------------------------- MODULE MCSnapshots ----------------------------
(***************************************************************************)
(* Instances of Snapshots for TLC: the clients are alike.                  *)
(***************************************************************************)
EXTENDS Snapshots, TLC

Alike == Permutations(Client)
=============================================================================
