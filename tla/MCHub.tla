------------------------------- MODULE MCHub -------------------------------
(***************************************************************************)
(* Instances of Hub for TLC: rooms the connections are opened in.          *)
(***************************************************************************)
EXTENDS HubInv, TLC

CONSTANTS c1, c2, c3, lounge, team

\* Three clients in one room.
OneRoom == c1 :> lounge @@ c2 :> lounge @@ c3 :> lounge

\* Two clients in one room.
Pair == c1 :> lounge @@ c2 :> lounge

\* One client, opened in one room, that may talk in another.
Solo == c1 :> lounge

\* The clients of OneRoom are alike when both or neither are in Slow.
SlowAlike == Permutations(Slow)

\* A running handler neither reads nor writes what the readers' steps change, so
\* those steps, and the clock's, commute with the handler's; and a reader's
\* request commutes with all but the hub's receiving it, so that it may be made
\* when it is next to be received. For the properties of the states between two
\* handlers it is enough to look at the behaviours that do both.
Waiting == {c \in Client : reader[c].at \in {"register", "start", "stop", "unregister"}}

Prompt == /\ Selecting \/ HubStep
          /\ Cardinality(Waiting') <= 1

\* The same, leaving the clock, the chat and the invalid frames to other runs.
TalkOnly == /\ Prompt
            /\ ~tick'
            /\ broadcast' = <<>>
            /\ \A i \in DOMAIN audioFrame' : audioFrame'[i].valid
=============================================================================
