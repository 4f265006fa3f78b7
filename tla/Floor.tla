------------------------------- MODULE Floor -------------------------------
(***************************************************************************)
(* What the push-to-talk service promises, without its channels, queues    *)
(* and evictions: clients join and leave; a room's floor (the "mic") is    *)
(* held by at most one client, which must be present when it takes it;     *)
(* the floor passes from one holder to the next only through being free;   *)
(* and a client that leaves holds no floor any more.  Module Hub           *)
(* implements it (the code: src/ws/hub.go).                                *)
(***************************************************************************)
CONSTANTS Client, Room, None

VARIABLES present,   \* the clients that have joined and not left
          holder     \* the client that holds each room's floor, or None

vars == <<present, holder>>

Init == /\ present = {}
        /\ holder = [r \in Room |-> None]

Join(c) == /\ present' = present \union {c}
           /\ UNCHANGED holder

\* A client leaves and every floor it holds is freed with it.
Leave(c) ==
    /\ c \in present
    /\ present' = present \ {c}
    /\ holder' = [r \in Room |-> IF holder[r] = c THEN None ELSE holder[r]]

Take(c, r) ==
    /\ c \in present
    /\ holder[r] = None
    /\ holder' = [holder EXCEPT ![r] = c]
    /\ UNCHANGED present

\* Some floors become free together: one that its holder gives back, or all
\* those whose holders have been silent for too long.
Free(rooms) ==
    /\ holder' = [r \in Room |-> IF r \in rooms THEN None ELSE holder[r]]
    /\ UNCHANGED present

Next == \/ \E c \in Client : Join(c) \/ Leave(c)
        \/ \E c \in Client, r \in Room : Take(c, r)
        \/ \E rooms \in SUBSET Room : Free(rooms)

Spec == Init /\ [][Next]_vars
=============================================================================
