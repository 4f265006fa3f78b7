----------------------------- MODULE Membership -----------------------------
(***************************************************************************)
(* What a connection and the hub are to each other, without the messages:  *)
(* the connection's reader registers once, is blocked by the hub now and   *)
(* then, and unregisters once; the hub may evict the connection at any     *)
(* time in between, but first finishes the eviction before it receives     *)
(* anything of a reader again.  Module Hub implements it for every         *)
(* connection, module Connection for its own, so that the hub which        *)
(* Connection assumes is one that Hub is (the code: src/ws/client.go,      *)
(* src/ws/hub.go).                                                         *)
(***************************************************************************)
VARIABLES reader,    \* before its register, free, blocked on the hub, blocked on
                     \* its unregister, or done with the hub
          member,    \* not in the hub yet, in it, or removed and its queue closed
          condemned  \* the hub is about to evict it

vars == <<reader, member, condemned>>

Init == reader = "register" /\ member = "no" /\ condemned = FALSE

Register ==
    /\ reader = "register" /\ member = "no"
    /\ reader' = "free" /\ member' = "yes"
    /\ UNCHANGED condemned

Ask ==
    /\ reader = "free" /\ reader' = "blocked"
    /\ UNCHANGED <<member, condemned>>

Receive ==
    /\ reader = "blocked" /\ ~condemned
    /\ reader' = "free"
    /\ UNCHANGED <<member, condemned>>

\* The connection fails, or the reader does.
Fail ==
    /\ reader = "free" /\ reader' = "unregister"
    /\ UNCHANGED <<member, condemned>>

\* It comes after the eviction or instead of it.
Unregister ==
    /\ reader = "unregister" /\ ~condemned
    /\ reader' = "done" /\ member' = "removed"
    /\ UNCHANGED condemned

\* The queue is found full.
Condemn ==
    /\ member = "yes" /\ reader \in {"free", "blocked", "unregister"}
    /\ condemned' = TRUE
    /\ UNCHANGED <<reader, member>>

Evict ==
    /\ condemned
    /\ condemned' = FALSE /\ member' = "removed"
    /\ UNCHANGED reader

Next == Register \/ Ask \/ Receive \/ Fail \/ Unregister \/ Condemn \/ Evict

Spec == Init /\ [][Next]_vars
=============================================================================
