-------------------------------- MODULE Hub --------------------------------
(***************************************************************************)
(* The intercom hub of src/ws/hub.go: one goroutine (Hub.Run) that owns    *)
(* the registered clients, the speaker of every room and the audio         *)
(* statistics, and serves the reader goroutines of the connections         *)
(* (Client.readPump) over six channels and a ticker.                       *)
(*                                                                         *)
(* A handler of the hub is a chain of calls that broadcast, find some      *)
(* queues full, evict their clients, release the speakers among them,      *)
(* broadcast that, find other queues full, and so on.  `todo' is the hub   *)
(* goroutine's call stack: what is left of the running handler, innermost  *)
(* call first; the goroutine is in its select when the stack is empty.     *)
(*                                                                         *)
(* A client's send queue is kept only by what a select with a default can  *)
(* find: the queue of a client in Slow may be full at any send, the queue  *)
(* of any other client never is.                                           *)
(***************************************************************************)
EXTENDS Naturals, Sequences, FiniteSets

CONSTANTS Client,        \* connections; a reconnecting device is a new one
          Room,
          RoomOf,        \* the room each connection was opened in
          DefaultRoom,   \* the lobby, the only room of room_list
          Slow,          \* the clients whose send queue may be found full
          IdleTicks,     \* speakerAudioIdleTimeout / speakerTimeoutCheckInterval
          AudioCap,      \* capacity of Hub.audioFrame
          ChatCap,       \* capacity of Hub.broadcast
          MaxRoomUsers,  \* maxRoomUsers
          None,          \* no speaker, no statistics, no frame
          Stray,         \* statistics of frames outside any segment (segment_id 0)
          Unknown,       \* no intercom_talking received yet
          Quiet          \* the last intercom_talking said talking=false

ASSUME HubAssumption ==
    /\ IsFiniteSet(Client)
    /\ RoomOf \in [Client -> Room]
    /\ DefaultRoom \in Room
    /\ Slow \subseteq Client
    /\ IdleTicks \in Nat \ {0}
    /\ AudioCap \in Nat \ {0}
    /\ ChatCap \in Nat \ {0}
    /\ MaxRoomUsers \in Nat \ {0}
    /\ {None, Stray, Unknown, Quiet} \intersect Client = {}
    /\ None # Stray
    /\ Unknown # Quiet

VARIABLES
    reader,      \* what each connection's readPump goroutine is doing
    clients,     \* Hub.clients
    closed,      \* the clients whose send channel has been closed
    speakers,    \* Hub.speakers
    idle,        \* ticker periods begun since the speaker's lastAudioAt
    audioStats,  \* Hub.audioStats: whose segment a room's entry counts
    todo,        \* the hub goroutine's call stack
    audioFrame,  \* the buffered channel Hub.audioFrame
    broadcast,   \* the buffered channel Hub.broadcast: rooms of chat messages
    tick,        \* a tick waits in speakerTimeoutTicker.C
    heard,       \* the last intercom_talking queued for each client
    played,      \* who sent the audio queued for each client since then
    roster,      \* the users of the last room_users the hub queued for it
    talker,      \* ... and which of them it shows talking
    lobby        \* the user_count of the last room_list queued for it

hub   == <<clients, closed, speakers, idle, audioStats>>
chans == <<audioFrame, broadcast, tick>>
told  == <<heard, played, roster, talker, lobby>>
vars  == <<reader, hub, todo, chans, told>>

Members(r) == {c \in clients : RoomOf[c] = r}

Phases == {"new", "register", "read", "start", "stop", "unregister", "gone"}

\* The calls on the hub's stack: what is called, on which clients and rooms.
Evict(S)       == [op |-> "evict",    who |-> S,   rooms |-> {}]
Release(c)     == [op |-> "release",  who |-> {c}, rooms |-> {}]
Released(R)    == [op |-> "released", who |-> {},  rooms |-> R]
Talking(c, r)  == [op |-> "talking",  who |-> {c}, rooms |-> {r}]
Users(r)       == [op |-> "users",    who |-> {},  rooms |-> {r}]
List           == [op |-> "list",     who |-> {},  rooms |-> {}]

Task == {Evict(S) : S \in SUBSET Client} \union {Release(c) : c \in Client}
        \union {Released(R) : R \in SUBSET Room}
        \union {Talking(c, r) : c \in Client, r \in Room}
        \union {Users(r) : r \in Room} \union {List}

\* Calls that are made only `if len(...) > 0'.
Evicting(S)  == IF S = {} THEN <<>> ELSE <<Evict(S)>>
ReleasingUntold(R) == <<>>
Releasing(R) == IF R = {} THEN <<>> ELSE <<Released(R)>>

\* broadcastRoomSnapshotsForChange.
SnapshotsListOnly(r)  == <<List>>
Snapshots(r) == <<List, Users(r)>>

TypeOK ==
    /\ reader \in [Client -> [at : Phases, room : Room]]
    /\ clients \subseteq Client
    /\ closed \subseteq Client
    /\ speakers \in [Room -> Client \union {None}]
    /\ idle \in [Room -> 0 .. IdleTicks + 1]
    /\ audioStats \in [Room -> Client \union {None, Stray}]
    /\ todo \in Seq(Task)
    /\ audioFrame \in Seq([sender : Client, valid : BOOLEAN])
    /\ Len(audioFrame) <= AudioCap
    /\ broadcast \in Seq(Room)
    /\ Len(broadcast) <= ChatCap
    /\ tick \in BOOLEAN
    /\ heard \in [Client -> Client \union {Unknown, Quiet}]
    /\ played \in [Client -> Client \union {None}]
    /\ roster \in [Client -> SUBSET Client]
    /\ talker \in [Client -> Client \union {None}]
    /\ lobby \in [Client -> Nat]

Init ==
    /\ reader = [c \in Client |-> [at |-> "new", room |-> RoomOf[c]]]
    /\ clients = {}
    /\ closed = {}
    /\ speakers = [r \in Room |-> None]
    /\ idle = [r \in Room |-> 0]
    /\ audioStats = [r \in Room |-> None]
    /\ todo = <<>>
    /\ audioFrame = <<>>
    /\ broadcast = <<>>
    /\ tick = FALSE
    /\ heard = [c \in Client |-> Unknown]
    /\ played = [c \in Client |-> None]
    /\ roster = [c \in Client |-> {}]
    /\ talker = [c \in Client |-> None]
    /\ lobby = [c \in Client |-> 0]

-----------------------------------------------------------------------------
(* The reader goroutines. A send on an unbuffered channel leaves the       *)
(* goroutine blocked (register, start, stop, unregister) until the hub     *)
(* receives it; a send on a buffered one needs room in the buffer.         *)

Goes(c, phase, r) == reader' = [reader EXCEPT ![c] = [at |-> phase, room |-> r]]

Reading(c) == reader[c].at = "read"

Connect(c) ==
    /\ reader[c].at = "new"
    /\ Goes(c, "register", RoomOf[c])
    /\ UNCHANGED <<hub, todo, chans, told>>

\* intercom_talk_start and intercom_talk_stop may name any room.
PressTalk(c, r) ==
    /\ Reading(c)
    /\ Goes(c, "start", r)
    /\ UNCHANGED <<hub, todo, chans, told>>

ReleaseTalk(c, r) ==
    /\ Reading(c)
    /\ Goes(c, "stop", r)
    /\ UNCHANGED <<hub, todo, chans, told>>

\* A frame always belongs to the room its connection was opened in.
SendAudio(c, valid) ==
    /\ Reading(c)
    /\ Len(audioFrame) < AudioCap
    /\ audioFrame' = Append(audioFrame, [sender |-> c, valid |-> valid])
    /\ UNCHANGED <<reader, hub, todo, broadcast, tick, told>>

SendChat(c, r) ==
    /\ Reading(c)
    /\ Len(broadcast) < ChatCap
    /\ broadcast' = Append(broadcast, r)
    /\ UNCHANGED <<reader, hub, todo, audioFrame, tick, told>>

\* ReadMessage returns an error: the peer left, the read deadline passed, or
\* the write pump closed the connection.
ReadFails(c) ==
    /\ Reading(c)
    /\ Goes(c, "unregister", RoomOf[c])
    /\ UNCHANGED <<hub, todo, chans, told>>

-----------------------------------------------------------------------------
(* The hub's select: each case receives from one channel and starts a      *)
(* handler.                                                                *)

Selecting == todo = <<>>

HubRegister(c) ==
    /\ Selecting
    /\ reader[c].at = "register"
    /\ Goes(c, "read", RoomOf[c])
    /\ clients' = clients \union {c}
    /\ todo' = Snapshots(RoomOf[c])
    /\ UNCHANGED <<closed, speakers, idle, audioStats, chans, told>>

\* removeClient: deletes the client and closes its queue.
RemoveQueueOnly(c) ==
    /\ closed' = closed \union {c}
    /\ UNCHANGED clients

Remove(c) ==
    /\ clients' = clients \ {c}
    /\ closed' = closed \union {c}

\* The unregister of a client the hub has evicted before does nothing.
HubUnregister(c) ==
    /\ Selecting
    /\ reader[c].at = "unregister"
    /\ Goes(c, "gone", RoomOf[c])
    /\ IF c \in clients
          THEN /\ Remove(c)
               /\ todo' = <<Release(c)>> \o Snapshots(RoomOf[c])
          ELSE UNCHANGED <<clients, closed, todo>>
    /\ UNCHANGED <<speakers, idle, audioStats, chans, told>>

\* handleIntercomStart: granted to an active client when the room has no
\* speaker; otherwise only an ack, or nothing at all, is sent.
GrantsAnyone(c, r) == speakers[r] = None
GrantsTakeover(c, r) == c \in clients
Grants(c, r) == c \in clients /\ speakers[r] = None

\* What is sent of a granted talk, apart from the ack and the diagnostics.
GrantCallsUnlisted(c, r) == <<Talking(c, r)>>
GrantCalls(c, r) == <<Talking(c, r), Users(r)>>

HubStart(c) ==
    /\ Selecting
    /\ reader[c].at = "start"
    /\ Goes(c, "read", RoomOf[c])
    /\ LET r == reader[c].room
       IN  IF Grants(c, r)
              THEN /\ speakers' = [speakers EXCEPT ![r] = c]
                   /\ idle' = [idle EXCEPT ![r] = 0]
                   /\ audioStats' = [audioStats EXCEPT ![r] = c]
                   /\ todo' = GrantCalls(c, r)
              ELSE UNCHANGED <<speakers, idle, audioStats, todo>>
    /\ UNCHANGED <<clients, closed, chans, told>>

\* The floors of some rooms become free, all in one critical section.
FreeFloors(rooms) ==
    /\ speakers' = [r \in Room |-> IF r \in rooms THEN None ELSE speakers[r]]
    /\ idle' = [r \in Room |-> IF r \in rooms THEN 0 ELSE idle[r]]

\* handleIntercomStop: only the speaker's own request counts.
StopsAnyone(c, r) == speakers[r] # None
Stops(c, r) == speakers[r] = c

HubStop(c) ==
    /\ Selecting
    /\ reader[c].at = "stop"
    /\ Goes(c, "read", RoomOf[c])
    /\ LET r == reader[c].room
       IN  IF Stops(c, r)
              THEN /\ FreeFloors({r})
                   /\ todo' = Releasing({r})
              ELSE UNCHANGED <<speakers, idle, todo>>
    /\ UNCHANGED <<clients, closed, audioStats, chans, told>>

AcceptsAnyone(frame) == frame.valid /\ speakers[RoomOf[frame.sender]] # None
Accepts(frame) == frame.valid /\ speakers[RoomOf[frame.sender]] = frame.sender

\* handleAudioFrame: a valid frame of its room's speaker is copied to the
\* others in the room and keeps the floor; any other frame is only counted.
HubAudio ==
    /\ Selecting
    /\ audioFrame # <<>>
    /\ audioFrame' = Tail(audioFrame)
    /\ LET frame == Head(audioFrame)
           s     == frame.sender
           r     == RoomOf[s]
       IN  /\ audioStats' = [audioStats EXCEPT ![r] = IF @ = None THEN Stray ELSE @]
           /\ IF Accepts(frame)
                 THEN \E full \in SUBSET (Slow \intersect (Members(r) \ {s})) :
                        /\ idle' = [idle EXCEPT ![r] = 0]
                        /\ played' = [c \in Client |->
                                        IF c \in Members(r) \ ({s} \union full)
                                           THEN s ELSE played[c]]
                        /\ todo' = Evicting(full)
                 ELSE UNCHANGED <<idle, played, todo>>
    /\ UNCHANGED <<reader, clients, closed, speakers, broadcast, tick,
                   heard, roster, talker, lobby>>

\* A chat message goes to every client of the room it names.
HubChat ==
    /\ Selecting
    /\ broadcast # <<>>
    /\ broadcast' = Tail(broadcast)
    /\ \E full \in SUBSET (Slow \intersect Members(Head(broadcast))) :
          todo' = Evicting(full)
    /\ UNCHANGED <<reader, hub, audioFrame, tick, told>>

\* When the ticker has fired n times since the last audio, between n - 1 and
\* n + 1 periods have passed: at n = IdleTicks the timeout may or may not be over.
OverdueNever(r, late)  == speakers[r] # None /\ speakers[r] \notin clients
OverdueClient(r, late) ==
    /\ speakers[r] # None
    /\ \A q \in Room : speakers[q] = speakers[r] => idle[q] > IdleTicks \/ q \in late
Overdue(r, late) == /\ speakers[r] # None
                    /\ \/ speakers[r] \notin clients
                       \/ idle[r] > IdleTicks
                       \/ r \in late

\* releaseIdleSpeakers.
HubTick ==
    /\ Selecting
    /\ tick
    /\ tick' = FALSE
    /\ \E late \in SUBSET {r \in Room : idle[r] = IdleTicks} :
         LET rooms == {r \in Room : Overdue(r, late)}
         IN  /\ FreeFloors(rooms)
             /\ todo' = Releasing(rooms)
    /\ UNCHANGED <<reader, clients, closed, audioStats, audioFrame, broadcast, told>>

-----------------------------------------------------------------------------
(* The rest of the handler: the innermost call of the stack.               *)

Calls(op) == todo # <<>> /\ Head(todo).op = op

\* removeStaleClients: one client found full, in the order of the map.
DoEvict ==
    /\ Calls("evict")
    /\ \E c \in Head(todo).who :
         LET rest == Evicting(Head(todo).who \ {c}) \o Tail(todo)
         IN  IF c \in clients
                THEN /\ Remove(c)
                     /\ todo' = <<Release(c)>> \o rest
                ELSE /\ UNCHANGED <<clients, closed>>
                     /\ todo' = rest
    /\ UNCHANGED <<reader, speakers, idle, audioStats, chans, told>>

\* releaseSpeakersForClient, its critical section.
HeldAtHome(S) == {r \in Room : speakers[r] \in S /\ RoomOf[speakers[r]] = r}
HeldBy(S) == {r \in Room : speakers[r] \in S}

DoRelease ==
    /\ Calls("release")
    /\ LET rooms == HeldBy(Head(todo).who)
       IN  /\ FreeFloors(rooms)
           /\ todo' = Releasing(rooms) \o Tail(todo)
    /\ UNCHANGED <<reader, clients, closed, audioStats, chans, told>>

\* broadcastIntercomTalking: whom it reaches and what they know then.
Announce(r, full, what) ==
    LET reached == Members(r) \ full
    IN  /\ heard' = [c \in Client |-> IF c \in reached THEN what ELSE heard[c]]
        /\ played' = [c \in Client |-> IF c \in reached THEN None ELSE played[c]]

DoTalking ==
    /\ Calls("talking")
    /\ \E c \in Head(todo).who, r \in Head(todo).rooms :
         \E full \in SUBSET (Slow \intersect Members(r)) :
           /\ Announce(r, full, c)
           /\ todo' = Evicting(full) \o Tail(todo)
    /\ UNCHANGED <<reader, hub, chans, roster, talker, lobby>>

\* logAudioSegment.
LogOnly(r) == UNCHANGED audioStats
LogAndForget(r) == audioStats' = [audioStats EXCEPT ![r] = None]

\* The loop over the released rooms: the segment is logged and dropped, the
\* end of the talk announced, the evictions this causes done, the users sent.
DoReleased ==
    /\ Calls("released")
    /\ \E r \in Head(todo).rooms :
         \E full \in SUBSET (Slow \intersect Members(r)) :
           /\ LogAndForget(r)
           /\ Announce(r, full, Quiet)
           /\ todo' = Evicting(full) \o <<Users(r)>>
                        \o Releasing(Head(todo).rooms \ {r}) \o Tail(todo)
    /\ UNCHANGED <<reader, clients, closed, speakers, idle, chans,
                   roster, talker, lobby>>

\* roomUsersSnapshot lists the room's clients, any MaxRoomUsers of them when
\* there are more, and marks the speaker if it is listed.
Listings(r) ==
    {S \in SUBSET Members(r) :
        \/ S = Members(r) /\ Cardinality(S) <= MaxRoomUsers
        \/ Cardinality(S) = MaxRoomUsers}

DoUsers ==
    /\ Calls("users")
    /\ \E r \in Head(todo).rooms :
         \E full \in SUBSET (Slow \intersect Members(r)), list \in Listings(r) :
           LET reached == Members(r) \ full
               shown   == IF speakers[r] \in list THEN speakers[r] ELSE None
           IN  /\ roster' = [c \in Client |-> IF c \in reached THEN list ELSE roster[c]]
               /\ talker' = [c \in Client |-> IF c \in reached THEN shown ELSE talker[c]]
               /\ todo' = Evicting(full) \o Tail(todo)
    /\ UNCHANGED <<reader, hub, chans, heard, played, lobby>>

\* room_list goes to every client; only the default room is in it.
DoList ==
    /\ Calls("list")
    /\ \E full \in SUBSET (Slow \intersect clients) :
         /\ lobby' = [c \in Client |-> IF c \in clients \ full
                        THEN Cardinality(Members(DefaultRoom)) ELSE lobby[c]]
         /\ todo' = Evicting(full) \o Tail(todo)
    /\ UNCHANGED <<reader, hub, chans, heard, played, roster, talker>>

HubStep == \/ DoEvict \/ DoRelease \/ DoTalking \/ DoReleased \/ DoUsers \/ DoList

-----------------------------------------------------------------------------
(* Time: the ticker's next period begins. A tick that finds the ticker's   *)
(* channel occupied is lost.                                               *)

Elapse ==
    /\ tick' = TRUE
    /\ idle' = [r \in Room |->
                  IF speakers[r] = None \/ idle[r] > IdleTicks
                     THEN idle[r] ELSE idle[r] + 1]
    /\ UNCHANGED <<reader, clients, closed, speakers, audioStats, todo,
                   audioFrame, broadcast, told>>

Request(c) == \/ Connect(c)
              \/ \E r \in Room : PressTalk(c, r) \/ ReleaseTalk(c, r) \/ SendChat(c, r)
              \/ \E valid \in BOOLEAN : SendAudio(c, valid)
              \/ ReadFails(c)

\* The hub receives what the connection is blocked on.
ServeMember(c) == \/ HubRegister(c)
                  \/ c \in clients /\ (HubUnregister(c) \/ HubStart(c) \/ HubStop(c))
Serve(c) == HubRegister(c) \/ HubUnregister(c) \/ HubStart(c) \/ HubStop(c)

HubSelect == (\E c \in Client : Serve(c)) \/ HubAudio \/ HubChat \/ HubTick

Next == (\E c \in Client : Request(c)) \/ HubSelect \/ HubStep \/ Elapse

Spec == Init /\ [][Next]_vars

(* The hub goroutine never stops and its calls do not block; select picks  *)
(* among the ready cases at random and a channel queues the goroutines     *)
(* blocked on it, so a case that is ready again and again is taken; time   *)
(* passes. (The same holds for HubAudio and HubChat, on which nothing here *)
(* depends.) Nothing is assumed of the clients.                            *)
FairSpec ==
    /\ Spec
    /\ WF_vars(HubStep)
    /\ WF_vars(Elapse)
    /\ SF_vars(HubTick)
    /\ \A c \in Client : SF_vars(Serve(c))

-----------------------------------------------------------------------------
(* Properties.                                                             *)

\* Between two handlers every speaker is a registered client: whatever way a
\* client left (unregister, or an eviction in the middle of a broadcast, even
\* of the broadcast that announced it), its floors went with it
\* (hub.go:135-138, 770-776). The "inactive" case of releaseIdleSpeakers is
\* there for a state that cannot occur.
SpeakersRegistered ==
    Selecting => \A r \in Room : speakers[r] # None => speakers[r] \in clients

\* Nobody loses the floor to somebody else: a talk ends by its speaker's own stop for
\* that room, by the ticker after a silence, or with the speaker's registration; not by
\* the stop, the start, the frames or the eviction of others (hub.go:184-205, 237-246,
\* 659-665, 688-704).
GivesBack(c, r) == reader[c].at = "stop" /\ reader[c].room = r /\ reader'[c].at = "read"
FallsSilent(r) == tick /\ ~tick' /\ idle[r] >= IdleTicks
FloorsKept ==
    [][\A r \in Room : speakers[r] # None /\ speakers'[r] # speakers[r] =>
         /\ speakers'[r] = None
         /\ GivesBack(speakers[r], r) \/ FallsSilent(r) \/ speakers[r] \notin clients]_vars

\* A registered client's queue is open, so no send of the hub meets a closed
\* channel, and no queue is closed twice: unregister after eviction, eviction
\* twice in one list of stale clients (hub.go:778-789).
RegisteredQueuesOpen ==
    /\ clients \intersect closed = {}
    /\ \A c \in Client : reader[c].at \in {"new", "register"} => c \notin clients \union closed
    /\ \A c \in Client : reader[c].at = "gone" => c \in closed

\* Between two handlers a room's statistics are those of a segment exactly when
\* the segment's speaker holds the room's floor: no segment is left open, none
\* is counted for another's talk, none loses its statistics while it runs
\* (hub.go:207-223, 385-428).
StatsFollowFloor ==
    Selecting => \A r \in Room :
        IF speakers[r] = None THEN audioStats[r] \in {None, Stray}
                              ELSE audioStats[r] = speakers[r]

\* Between two handlers the last intercom_talking that a registered client got
\* is true: it names the speaker of the client's room, or says that there is
\* none. A client that has got none joined during the talk, or there was none.
HeardTruth ==
    Selecting => \A c \in clients :
        \/ heard[c] = Unknown
        \/ heard[c] = Quiet /\ speakers[RoomOf[c]] = None
        \/ heard[c] = speakers[RoomOf[c]]

\* A client hears a talk end before it hears the next one begin, also when the
\* first one ended in the handler that began it.
TalkAlternates ==
    [][\A c \in Client :
         heard[c] \in Client => heard'[c] \in {heard[c], Quiet}]_vars

\* A listener gets audio only from the client that it has last heard begin to
\* talk, unless it joined during that talk: frames that waited in the channel
\* while their sender's talk ended reach nobody (hub.go:275-288).
AudioInTalk ==
    \A c \in Client : played[c] # None => heard[c] \in {Unknown, played[c]}

\* Between two handlers the last list of users that a client got shows exactly
\* the current speaker as talking, if the list has it; evictions included.
RosterTalkerTruth ==
    Selecting => \A c \in clients :
        talker[c] = IF speakers[RoomOf[c]] \in roster[c] THEN speakers[RoomOf[c]]
                                                         ELSE None

\* Between two handlers the users a client was last told of are its room's
\* clients, up to maxRoomUsers of them.
RosterTruth ==
    Selecting => \A c \in clients :
        /\ roster[c] \subseteq Members(RoomOf[c])
        /\ \/ roster[c] = Members(RoomOf[c])
           \/ Cardinality(roster[c]) = MaxRoomUsers

\* Between two handlers nobody is missing from the lists a client was last told:
\* whoever is in its room is among its users, unless they were cut, and counts in
\* the lobby; and a name too many is that of a client whose queue may have been
\* found full, since an eviction, unlike an unregister, broadcasts no lists
\* (hub.go:563-566, 770-776).
ListsMissNobody ==
    Selecting => \A c \in clients :
        /\ roster[c] \subseteq Members(RoomOf[c]) \union Slow
        /\ \/ Members(RoomOf[c]) \subseteq roster[c]
           \/ Cardinality(roster[c]) = MaxRoomUsers
        /\ Cardinality(Members(DefaultRoom)) <= lobby[c]

\* Nobody keeps a floor in silence: again and again the room is free, or its
\* speaker has been heard in the running ticker period (hub.go:678-721).
MicNotHeldSilently == \A r \in Room : []<>(idle[r] = 0)

\* Whoever takes the floor of a room it is not in gives it back or loses it:
\* its frames go to its own room and do not keep the floor (hub.go:253-292).
ForeignHolderReleased ==
    \A c \in Client, r \in Room :
        RoomOf[c] # r => (speakers[r] = c ~> speakers[r] # c)

\* No connection stays blocked on the hub: it is served, whatever evictions the hub
\* is busy with, and also when the hub has evicted it meanwhile.
RequestServed ==
    \A c \in Client :
        []<>(reader[c].at \notin {"register", "start", "stop", "unregister"})

\* The hub implements the floor. A client is present from its registration
\* until its floors are freed: they go in a critical section of their own,
\* after the one that removed it.
Leaving == IF Calls("release") THEN Head(todo).who ELSE {}

FloorOf == INSTANCE Floor WITH present <- clients \union Leaving,
                               holder  <- speakers

\* Every step of the hub is a step of the floor control, or none.
FloorSpec == FloorOf!Spec
=============================================================================
