------------------------------- MODULE HubInv -------------------------------
(***************************************************************************)
(* Why the properties of Hub hold: what is true in the middle of a         *)
(* handler.  Each property of the states between two handlers is kept up   *)
(* by the calls still on the stack, so the inductive invariant says, for   *)
(* each of them, which call is to repair it.                               *)
(***************************************************************************)
EXTENDS Hub

Tasks(s) == {s[i] : i \in DOMAIN s}

Pending == Tasks(todo)

\* The clients found full that the hub has not come to remove yet.
Doomed == UNION {t.who : t \in {u \in Pending : u.op = "evict"}}

\* The rooms whose talk is over and not yet announced to be.
Ending == UNION {t.rooms : t \in {u \in Pending : u.op = "released"}}

\* The rooms whose users are still to be sent.
Relisting == UNION {t.rooms : t \in {u \in Pending : u.op = "users"}}

\* The room whose talk has just been granted and is to be announced.
Beginning == IF Calls("talking") THEN Head(todo).rooms ELSE {}

\* A client is removed, and a talk announced, before anything else happens; a
\* new talk is announced when no other call is under way.
StackInv ==
    todo # <<>> =>
        /\ \A t \in Tasks(Tail(todo)) : t.op \notin {"release", "talking"}
        /\ Head(todo).op = "release" =>
              \E c \in Client \ clients : Head(todo) = Release(c)
        /\ Head(todo).op = "talking" =>
              \E r \in Room : /\ speakers[r] \in clients
                              /\ todo = <<Talking(speakers[r], r), Users(r)>>

\* A connection is registered once and removed once.
ReaderInv ==
    /\ clients \intersect closed = {}
    /\ \A c \in Client :
          reader[c].at \in {"new", "register"} <=> c \notin clients \union closed
    /\ \A c \in Client : reader[c].at = "gone" => c \in closed

\* Only a client that has just been removed holds a floor it should not.
FloorInv ==
    /\ \A r \in Room : speakers[r] \in clients \union Leaving \union {None}
    /\ \A r \in Ending : speakers[r] = None
    /\ \A r \in Room : speakers[r] = None => idle[r] = 0

StatsInv ==
    \A r \in Room :
        IF speakers[r] # None THEN audioStats[r] = speakers[r]
                              ELSE audioStats[r] \in {None, Stray} \/ r \in Ending

\* What a client was told about the talk in its room is true, or about to be
\* corrected, unless the client is about to be removed.
HeardInv ==
    \A c \in clients \ Doomed :
        LET r == RoomOf[c]
        IN  \/ heard[c] = Unknown
            \/ heard[c] = Quiet /\ (speakers[r] = None \/ r \in Beginning)
            \/ heard[c] \in Client /\ (heard[c] = speakers[r] \/ r \in Ending)

\* A connection that is not registered yet has been told nothing.
FreshInv == \A c \in Client \ (clients \union closed) : heard[c] = Unknown

\* So is what the list of users showed it.
TalkerInv ==
    \A c \in clients \ Doomed :
        LET r == RoomOf[c]
        IN  \/ talker[c] = IF speakers[r] \in roster[c] THEN speakers[r] ELSE None
            \/ r \in Ending \union Relisting

IInv == /\ TypeOK
        /\ StackInv
        /\ ReaderInv
        /\ FloorInv
        /\ StatsInv
        /\ HeardInv
        /\ FreshInv
        /\ AudioInTalk
        /\ TalkerInv

-----------------------------------------------------------------------------
(* The hub as one of its connections sees it.                              *)

\* A connection is in the hub, or removed with its queue closed, or neither; it
\* must not be both.
MemberOf(c) == CASE c \in clients \ closed -> "yes"
                 [] c \in closed \ clients -> "removed"
                 [] c \in clients \intersect closed -> "both"
                 [] OTHER -> "no"

\* The reader, which a request to talk or to stop blocks until the hub receives it.
ReaderOf(c) == CASE reader[c].at \in {"new", "register"} -> "register"
                 [] reader[c].at = "read"                -> "free"
                 [] reader[c].at \in {"start", "stop"}   -> "blocked"
                 [] reader[c].at = "unregister"          -> "unregister"
                 [] OTHER                                -> "done"

MembershipOf(c) == INSTANCE Membership WITH reader    <- ReaderOf(c),
                                            member    <- MemberOf(c),
                                            condemned <- c \in clients \intersect Doomed

\* Every connection is registered once and removed once, its queue closed with it,
\* whatever evictions, its own or others', fall before, between and after its
\* reader's requests; and no request is received in the middle of a handler that is
\* still to evict it (client.go:97-101, hub.go:123-252, 770-789).
ConnectionsServed ==
    /\ \A c \in Client : MembershipOf(c)!Init
    /\ [][\A c \in Client : [MembershipOf(c)!Next]_(MembershipOf(c)!vars)]_vars
=============================================================================
