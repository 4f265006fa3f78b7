----------------------------- MODULE Snapshots -----------------------------
(***************************************************************************)
(* Who is in a room, as clients are told: the lists that the hub           *)
(* broadcasts after a change and those with which a reader goroutine       *)
(* answers its client (room_list_req, room_users_req).  Both are put       *)
(* together in the same steps: read the room under the lock, draw a        *)
(* revision, count the room once more for "truncated", queue the list.     *)
(* Readers take these steps while the hub takes its own.                   *)
(*                                                                         *)
(* A broadcast of the hub evicts the clients whose queue it finds full,    *)
(* and what it tells of that may evict others.  The eviction of a client   *)
(* that has no floor is told to nobody.                                    *)
(*                                                                         *)
(* One room, the default one, and the readers of its clients.              *)
(***************************************************************************)
EXTENDS Naturals, FiniteSets, Sequences

CONSTANTS Client,
          Hub,           \* the hub goroutine, as opposed to the clients' readers
          Nobody,
          MaxRoomUsers,  \* maxRoomUsers: 128
          MaxChanges,    \* bound on the changes of the room
          MaxAsked       \* bound on the revisions drawn before a request

ASSUME SnapshotsAssumption ==
    /\ IsFiniteSet(Client)
    /\ Hub \notin Client
    /\ Nobody \notin Client
    /\ MaxRoomUsers \in Nat \ {0}
    /\ MaxChanges \in Nat
    /\ MaxAsked \in Nat

VARIABLES
    clients,   \* Hub.clients of the room
    speaker,   \* Hub.speakers of the room
    changes,   \* how often one of the two has changed
    announced, \* ... up to the last change that clients are to be told of
    reading,   \* the clients whose reader has not ended; some may have been evicted
    revision,  \* Hub.revision
    todo,      \* what the handler that the hub is in has still to do
    snap,      \* the list that the hub, or a reader, is putting together
    cast,      \* the last list of each client that the hub broadcast
    answer,    \* ... and the last with which its reader answered
    latest     \* the last list of users of each client, from either

room == <<clients, speaker, changes, announced>>
told == <<cast, answer, latest>>
vars == <<room, reading, revision, todo, snap, told>>

Kinds == {"room_list", "room_users"}
Takers == Client \cup {Hub}

\* A list shows the users it has read ("seen", for room_list only their number),
\* marks one as talking, and says whether it has been cut. "by" and "at" are not
\* part of it: whose list it is, and how many changes there had been when it read
\* the room.
Snapshot == [kind: Kinds, by: Takers, seen: SUBSET Client, mark: Client \cup {Nobody},
             at: Nat, rev: Nat, cut: BOOLEAN]

None == [kind |-> "room_users", by |-> Hub, seen |-> {}, mark |-> Nobody,
         at |-> 0, rev |-> 0, cut |-> FALSE]

Steps == {"idle", "number", "count", "queue"}

\* What a handler has still to do: broadcast a list or the beginning or end of a talk,
\* evict clients one by one, release the floor of a client that is gone.
Task == [do: Kinds \cup {"talk", "evict", "release"}, who: SUBSET Client]
Tell(what) == [do |-> what, who |-> {}]
Evicting(stale) == IF stale = {} THEN <<>> ELSE <<[do |-> "evict", who |-> stale]>>
Releasing(c) == IF speaker = c THEN <<[do |-> "release", who |-> {c}]>> ELSE <<>>

\* No list of users is longer than maxRoomUsers.
TypeOK ==
    /\ clients \in SUBSET Client
    /\ speaker \in Client \cup {Nobody}
    /\ changes \in Nat /\ announced \in Nat
    /\ reading \in SUBSET Client
    /\ revision \in Nat
    /\ todo \in Seq(Task)
    /\ snap \in [Takers -> [step: Steps, list: Snapshot]]
    /\ cast \in [Client -> Snapshot]
    /\ answer \in [Client -> Snapshot]
    /\ latest \in [Client -> Snapshot]
    /\ \A c \in Client : Cardinality(latest[c].seen) <= MaxRoomUsers

Init ==
    /\ clients = {}
    /\ speaker = Nobody
    /\ changes = 0 /\ announced = 0
    /\ reading = {}
    /\ revision = 0
    /\ todo = <<>>
    /\ snap = [t \in Takers |-> [step |-> "idle", list |-> None]]
    /\ cast = [c \in Client |-> None]
    /\ answer = [c \in Client |-> None]
    /\ latest = [c \in Client |-> None]

-----------------------------------------------------------------------------
(* The hub's handlers.                                                     *)

Busy(t) == snap[t].step # "idle"
Quiet == todo = <<>> /\ ~Busy(Hub)
MayChange == Quiet /\ changes < MaxChanges

\* The room has changed: clients are told of it, or are not.
Announced == changes' = changes + 1 /\ announced' = changes + 1
Silent == changes' = changes + 1 /\ UNCHANGED announced

\* broadcastRoomSnapshotsForChange.
ForChangeUntold == <<>>
ForChange == <<Tell("room_list"), Tell("room_users")>>
TalkAndUsers == <<Tell("talk"), Tell("room_users")>>

\* A new connection, which has been told nothing.
Register(c) ==
    /\ MayChange
    /\ c \notin clients \cup reading
    /\ clients' = clients \cup {c}
    /\ reading' = reading \cup {c}
    /\ Announced
    /\ todo' = ForChange
    /\ cast' = [cast EXCEPT ![c] = None]
    /\ answer' = [answer EXCEPT ![c] = None]
    /\ latest' = [latest EXCEPT ![c] = None]
    /\ UNCHANGED <<speaker, revision, snap>>

\* The reader has ended: it is not answering.
Unregister(c) ==
    /\ MayChange
    /\ c \in reading
    /\ ~Busy(c)
    /\ reading' = reading \ {c}
    /\ clients' = clients \ {c}
    /\ IF c \in clients THEN Announced /\ todo' = Releasing(c) \o ForChange
                        ELSE UNCHANGED <<changes, announced, todo>>
    /\ UNCHANGED <<speaker, revision, snap, told>>

\* A granted request; the reader has handed it to the hub.
Start(c) ==
    /\ MayChange
    /\ c \in clients /\ ~Busy(c)
    /\ speaker = Nobody
    /\ speaker' = c
    /\ Announced
    /\ todo' = TalkAndUsers
    /\ UNCHANGED <<clients, reading, revision, snap, told>>

\* intercom_talk_stop, or the idle timeout.
Stop ==
    /\ MayChange
    /\ speaker # Nobody
    /\ speaker' = Nobody
    /\ Announced
    /\ todo' = TalkAndUsers
    /\ UNCHANGED <<clients, reading, revision, snap, told>>

\* Chat or audio, which finds some queues full.
Relay ==
    /\ MayChange
    /\ \E stale \in SUBSET clients \ {{}} : todo' = Evicting(stale)
    /\ UNCHANGED <<room, reading, revision, snap, told>>

\* removeStaleClients and removeClient, in the order in which the map gave the clients.
\* A client that another broadcast has evicted in the meantime is passed over.
Evict ==
    /\ todo # <<>> /\ Head(todo).do = "evict"
    /\ ~Busy(Hub)
    /\ \E c \in Head(todo).who :
          /\ clients' = clients \ {c}
          /\ IF c \in clients THEN Silent ELSE UNCHANGED <<changes, announced>>
          /\ todo' = (IF c \in clients THEN Releasing(c) ELSE <<>>)
                     \o Evicting(Head(todo).who \ {c}) \o Tail(todo)
    /\ UNCHANGED <<speaker, reading, revision, snap, told>>

\* releaseSpeakersForClient, for the client just removed.
Release ==
    /\ todo # <<>> /\ Head(todo).do = "release"
    /\ ~Busy(Hub)
    /\ speaker' = Nobody
    /\ Announced
    /\ todo' = TalkAndUsers \o Tail(todo)
    /\ UNCHANGED <<clients, reading, revision, snap, told>>

\* broadcastIntercomTalking. Of the message itself Hub has more.
Talk ==
    /\ todo # <<>> /\ Head(todo).do = "talk"
    /\ ~Busy(Hub)
    /\ \E stale \in SUBSET clients : todo' = Evicting(stale) \o Tail(todo)
    /\ UNCHANGED <<room, reading, revision, snap, told>>

-----------------------------------------------------------------------------
(* Putting a list together.                                                *)

\* The users a list has room for, in the order of a map. room_list, which shows
\* only their number, is not cut.
Uncut(kind) == {clients}
Selections(kind) ==
    IF kind = "room_list" \/ Cardinality(clients) <= MaxRoomUsers THEN {clients}
    ELSE {s \in SUBSET clients : Cardinality(s) = MaxRoomUsers}

ReadRoom(t, kind) ==
    \E s \in Selections(kind) :
        snap' = [snap EXCEPT ![t] =
            [step |-> "number",
             list |-> [kind |-> kind, by |-> t, seen |-> s,
                       mark |-> IF speaker \in s THEN speaker ELSE Nobody,
                       at |-> changes, rev |-> 0, cut |-> FALSE]]]

\* The reader takes a request.
Ask(c, kind) ==
    /\ c \in reading
    /\ ~Busy(c)
    /\ revision < MaxAsked
    /\ ReadRoom(c, kind)
    /\ UNCHANGED <<room, reading, revision, todo, told>>

\* broadcastRoomListSnapshot or broadcastRoomUsersSnapshot, called by a handler.
Call ==
    /\ todo # <<>> /\ Head(todo).do \in Kinds
    /\ ~Busy(Hub)
    /\ ReadRoom(Hub, Head(todo).do)
    /\ todo' = Tail(todo)
    /\ UNCHANGED <<room, reading, revision, told>>

\* nextRevision. A list of rooms is never cut and needs no further count.
DrawNumber(t) ==
    /\ snap[t].step = "number"
    /\ revision' = revision + 1
    /\ snap' = [snap EXCEPT ![t] =
           [step |-> IF snap[t].list.kind = "room_users" THEN "count" ELSE "queue",
            list |-> [snap[t].list EXCEPT !.rev = revision + 1]]]
    /\ UNCHANGED <<room, reading, todo, told>>

AsManyAsFit == Cardinality(clients) >= MaxRoomUsers
TooMany == Cardinality(clients) > MaxRoomUsers

\* Reads the users only now that it has its revision.
CountAndReread(t) ==
    /\ snap[t].step = "count"
    /\ \E s \in Selections("room_users") :
           snap' = [snap EXCEPT ![t].step = "queue", ![t].list.seen = s,
                                ![t].list.at = changes, ![t].list.cut = TooMany]
    /\ UNCHANGED <<room, reading, revision, todo, told>>

Count(t) ==
    /\ snap[t].step = "count"
    /\ snap' = [snap EXCEPT ![t] =
           [step |-> "queue", list |-> [snap[t].list EXCEPT !.cut = TooMany]]]
    /\ UNCHANGED <<room, reading, revision, todo, told>>

Done(t) == [snap EXCEPT ![t] = [step |-> "idle", list |-> None]]

\* broadcastJSONToAll, broadcastJSONToRoom: those whose queue is full get nothing, and
\* are evicted next.
Broadcast ==
    /\ snap[Hub].step = "queue"
    /\ \E stale \in SUBSET clients :
          LET list == snap[Hub].list
              got  == clients \ stale
          IN  /\ cast' = [c \in Client |-> IF c \in got THEN list ELSE cast[c]]
              /\ latest' = [c \in Client |-> IF c \in got /\ list.kind = "room_users"
                                             THEN list ELSE latest[c]]
              /\ todo' = Evicting(stale) \o todo
    /\ snap' = Done(Hub)
    /\ UNCHANGED <<room, reading, revision, answer>>

Answer(c) ==
    /\ snap[c].step = "queue"
    /\ c \in clients
    /\ LET list == snap[c].list IN
       /\ answer' = [answer EXCEPT ![c] = list]
       /\ latest' = [latest EXCEPT ![c] = IF list.kind = "room_users" THEN list ELSE @]
    /\ snap' = Done(c)
    /\ UNCHANGED <<room, reading, revision, todo, cast>>

\* The client's queue is full, or it has been closed, which ends the reader. (That the
\* hub is then to unregister a client that it has evicted means nothing to it.)
AnswerLost(c) ==
    /\ snap[c].step = "queue"
    /\ snap' = Done(c)
    /\ reading' = IF c \in clients THEN reading ELSE reading \ {c}
    /\ UNCHANGED <<room, revision, todo, told>>

-----------------------------------------------------------------------------
Change == \/ \E c \in Client : Register(c) \/ Unregister(c) \/ Start(c)
          \/ Stop \/ Relay
          \/ Evict \/ Release \/ Talk

Take(t) == DrawNumber(t) \/ Count(t)

Next == \/ Change
        \/ Call
        \/ Broadcast
        \/ Take(Hub)
        \/ \E c \in Client : \/ \E kind \in Kinds : Ask(c, kind)
                             \/ Take(c)
                             \/ Answer(c) \/ AnswerLost(c)

Spec == Init /\ [][Next]_vars

-----------------------------------------------------------------------------
Numbered(t) == snap[t].step \in {"count", "queue"}

\* What the hub broadcasts is the room as it is when it is queued, and "truncated"
\* says whether users are missing, although the room is read, numbered and
\* counted in three steps: nothing but the hub changes a room.
BroadcastsExact ==
    Busy(Hub) =>
        LET list == snap[Hub].list IN
        /\ list.at = changes
        /\ list.kind = "room_users" /\ snap[Hub].step = "queue" =>
               /\ list.cut <=> list.seen # clients
               /\ speaker \in list.seen => list.mark = speaker

\* A list with a lower revision than a broadcast is not newer than it: a client
\* that has got a broadcast misses nothing when it ignores what comes later with
\* a lower revision, an answer of its own reader that was overtaken.
LowerIsOlder ==
    \A c \in Client :
        /\ answer[c].rev < cast[c].rev => answer[c].at <= cast[c].at
        /\ Numbered(c) /\ snap[c].list.rev < cast[c].rev => snap[c].list.at <= cast[c].at

\* Between two handlers a client's last list of users is overtaken by nothing but
\* evictions of clients without the floor, which the hub tells nobody of, unless its own
\* reader gave it, as the answer to a request that a change overtook.
OnlyAnswersStale ==
    Quiet => \A c \in clients :
        latest[c].by = Hub => latest[c].at >= announced
=============================================================================
