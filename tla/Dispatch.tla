------------------------------ MODULE Dispatch ------------------------------
(***************************************************************************)
(* What becomes of one WebSocket message (Client.readPump): audio, which   *)
(* is taken apart by AudioBatch, or text, which four handlers are tried on *)
(* in turn before it is chat, and what the hub then makes of chat for each *)
(* receiver (envelope.dataFor).                                            *)
(*                                                                         *)
(* A text is what the decoding of JSON tells of it.  A handler decodes it  *)
(* into a struct of its own, which fails for a text that is not an object  *)
(* (null apart) or has a field of another type, if the struct has that     *)
(* field.                                                                  *)
(***************************************************************************)
EXTENDS AudioBatch

CONSTANTS Client,       \* the connections, the sender among them
          Sender,
          Room,
          RoomOf,       \* the room each connection was opened in
          DefaultRoom,  \* defaultRoom
          NoRoom        \* a message that does not go to a room

ASSUME DispatchAssumption ==
    /\ Sender \in Client
    /\ RoomOf \in [Client -> Room]
    /\ DefaultRoom \in Room
    /\ NoRoom \notin Room

VARIABLES
    text,     \* the message, if it is text
    at,       \* the test that comes next, or what the message was taken for
    outcome,  \* what the reader answers or hands to the hub
    members,  \* Hub.clients
    copies,   \* what each client got of a chat message
    running   \* the hub goroutine has not panicked

reader == <<text, at, outcome, members, copies, running>>

Types == {"absent", "ping", "heartbeat", "room_list_req", "room_users_req",
          "intercom_talk_start", "intercom_talk_stop", "other", "illtyped"}
Names == {"absent", "blank", "illtyped"}

\* shape: the word PING; not JSON; null; a JSON array, number, ...; an object.
\* exact: the type is written in lower case. room "absent": also empty or null.
Text == [shape : {"ping", "broken", "null", "value"}, type : {"absent"}, exact : {TRUE},
         room : {"absent"}, callsign : {"absent"}]
        \union [shape : {"object"}, type : Types, exact : BOOLEAN,
                room : Names \union Room, callsign : {"absent", "given", "illtyped"}]

\* json.Unmarshal into a struct with these fields.
Decodes(m, fields) == \/ m.shape = "null"
                      \/ m.shape = "object" /\ \A f \in fields : m[f] # "illtyped"

Answers  == {"pong", "heartbeat_ack", "room_list", "room_users"}
Requests == {"start", "stop"}
Handlers == {"keepalive", "room_list", "room_users", "intercom"}
Outcome  == [op : Answers \union Requests \union {"none", "chat"}, room : Room \union {NoRoom}]
Nothing  == [op |-> "none", room |-> NoRoom]

\* What a client gets: nothing, as its queue is full, the text as it came, or the
\* object with the sender's marks, "from" among them.
Copy == {"none", "full", "raw", "self", "other"}

DispatchTypeOK ==
    /\ TypeOK
    /\ text \in Text
    /\ at \in Handlers \union {"audio", "chat", "queued", "done"}
    /\ outcome \in Outcome
    /\ members \subseteq Client
    /\ copies \in [Client -> Copy]
    /\ running \in BOOLEAN

\* A message is read, while the sender and any others are connected.
DispatchInit ==
    /\ Init
    /\ text \in Text
    /\ at \in {"audio", "keepalive"}
    /\ at = "audio" => text.shape = "broken" /\ members = {Sender}
    /\ at = "keepalive" => len = 0 /\ sim = "none"
    /\ outcome = Nothing
    /\ members \in SUBSET Client
    /\ Sender \in members
    /\ copies = [c \in Client |-> "none"]
    /\ running = TRUE

-----------------------------------------------------------------------------
(* Rooms that are named in a message.                                      *)

NormalizeRoomWithFallback(name) == IF name \in Room THEN name ELSE RoomOf[Sender]

\* messageRoom: a name of white space is not the sender's room.
MessageRoom(m) == IF ~Decodes(m, {"room"}) \/ m.room = "absent" THEN RoomOf[Sender]
                  ELSE IF m.room = "blank" THEN DefaultRoom ELSE m.room

-----------------------------------------------------------------------------
(* The reader.                                                             *)

\* handleAudioFrames, and readPump's loop goes on.
Audio ==
    /\ at = "audio"
    /\ \/ Next /\ UNCHANGED at
       \/ done /\ at' = "done" /\ UNCHANGED vars
    /\ UNCHANGED <<text, outcome, members, copies, running>>

\* Whether each handler takes the message.
TakesKeepalive(m) == \/ m.shape = "ping"
                     \/ Decodes(m, {"type"}) /\ m.type \in {"ping", "heartbeat"}
TakesRoomList(m) == Decodes(m, {"type"}) /\ m.type = "room_list_req" /\ m.exact
TakesRoomUsers(m) == Decodes(m, {"type", "room"}) /\ m.type = "room_users_req" /\ m.exact
TakesIntercom(m) == /\ Decodes(m, {"type", "room", "callsign"})
                    /\ m.type \in {"intercom_talk_start", "intercom_talk_stop"} /\ m.exact

\* The handler takes the message, or it is the next one's turn. (What may become of
\* an answer on its way into the queue is in Connection.)
Try(handler, takes, op, room, next) ==
    /\ at = handler
    /\ IF takes THEN at' = "done" /\ outcome' = [op |-> op, room |-> room]
                ELSE at' = next /\ UNCHANGED outcome
    /\ UNCHANGED <<text, members, copies, running, vars>>

HandleKeepalive == Try("keepalive", TakesKeepalive(text),
    IF text.type = "heartbeat" THEN "heartbeat_ack" ELSE "pong", NoRoom, "room_list")
HandleRoomList == Try("room_list", TakesRoomList(text), "room_list", NoRoom, "room_users")
HandleRoomUsers == Try("room_users", TakesRoomUsers(text), "room_users",
    NormalizeRoomWithFallback(text.room), "intercom")
HandleIntercom == Try("intercom", TakesIntercom(text),
    IF text.type = "intercom_talk_start" THEN "start" ELSE "stop",
    NormalizeRoomWithFallback(text.room), "chat")

\* What no handler takes is chat, put into Hub.broadcast.
HandleChat ==
    /\ at = "chat"
    /\ at' = "queued"
    /\ outcome' = [op |-> "chat", room |-> MessageRoom(text)]
    /\ UNCHANGED <<text, members, copies, running, vars>>

-----------------------------------------------------------------------------
(* The hub.                                                                *)

\* While the message waits, clients come and go, the sender too.
MembersChange ==
    /\ at = "queued"
    /\ \E c \in Client : members' \in {members \union {c}, members \ {c}}
    /\ UNCHANGED <<text, at, outcome, copies, running, vars>>

Receivers == {c \in members : RoomOf[c] = outcome.room}

\* dataFor decodes the text into a map: what is not an object is relayed as it is,
\* but null gives no error and no map.
PanicsUnchecked(m) == m.shape \in {"null", "value", "broken"}
Panics(m) == m.shape = "null"
DataFor(m, c) == IF m.shape # "object" THEN "raw" ELSE IF c = Sender THEN "self" ELSE "other"

\* Hub.Run's case for chat. An assignment to the nil map ends the goroutine, and with
\* it the server.
Relay ==
    /\ at = "queued" /\ at' = "done"
    /\ IF Panics(text) /\ Receivers # {}
       THEN running' = FALSE /\ UNCHANGED copies
       ELSE /\ \E stale \in SUBSET Receivers :
                  copies' = [c \in Client |-> IF c \in stale THEN "full"
                                ELSE IF c \in Receivers THEN DataFor(text, c) ELSE "none"]
            /\ UNCHANGED running
    /\ UNCHANGED <<text, outcome, members, vars>>

DispatchNext == \/ Audio
                \/ HandleKeepalive \/ HandleRoomList \/ HandleRoomUsers \/ HandleIntercom
                \/ HandleChat \/ MembersChange \/ Relay

DispatchSpec == DispatchInit /\ [][DispatchNext]_<<reader, vars>>

-----------------------------------------------------------------------------
\* A request whose fields have the types that they should have.
WellFormed(m) == \/ m.shape = "ping"
                 \/ m.type \in {"ping", "heartbeat"}
                 \/ m.exact /\ m.type = "room_list_req"
                 \/ m.exact /\ m.type = "room_users_req" /\ m.room # "illtyped"
                 \/ /\ m.exact /\ m.type \in {"intercom_talk_start", "intercom_talk_stop"}
                    /\ m.room # "illtyped" /\ m.callsign # "illtyped"

\* Chat reaches everybody in one room and nobody else, whoever has come or gone while
\* it waited: the sender's room, unless the message names another (client.go:152-164,
\* hub.go:141-161). Only the sender's copy says "self", and nothing that a client can
\* write stops the hub, except null. A request that can be served is not relayed.
ChatDelivered ==
    /\ (\E c \in Client : copies[c] # "none") => ~WellFormed(text)
    /\ ~running => text.shape = "null"
    /\ at = "done" /\ outcome.op = "chat" /\ running =>
          \A c \in Client :
              /\ copies[c] # "none" <=> c \in members /\ RoomOf[c] = outcome.room
              /\ copies[c] = "self" => c = Sender
              /\ copies[c] = "other" => c # Sender
    /\ outcome.op = "chat" /\ text.room = "absent" => outcome.room = RoomOf[Sender]
=============================================================================
