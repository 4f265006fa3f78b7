----------------------------- MODULE MCDispatch -----------------------------
(***************************************************************************)
(* Instances of Dispatch for TLC: the rooms of three connections.          *)
(***************************************************************************)
EXTENDS Dispatch, TLC

CONSTANTS c1, c2, c3, lounge, team

TwoRooms == c1 :> lounge @@ c2 :> lounge @@ c3 :> team
=============================================================================
