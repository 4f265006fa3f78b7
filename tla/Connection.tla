----------------------------- MODULE Connection -----------------------------
(***************************************************************************)
(* One WebSocket connection: the handler goroutine that registers it and   *)
(* then reads from it (handleWebSocket, Client.readPump), the goroutine    *)
(* that writes to it (Client.writePump), the queue between the hub and the *)
(* writer (Client.send), and the peer at the other end of the network.     *)
(* The hub is here what this connection sees of it; module Hub has it as a *)
(* whole, and the queue only as one that may be found full.                *)
(***************************************************************************)
EXTENDS Naturals

CONSTANTS SendCap,   \* capacity of Client.send: 1024
          NetCap     \* writes that the network takes of a peer that reads nothing

ASSUME ConnectionAssumption == SendCap \in Nat /\ NetCap \in Nat

VARIABLES
    reader,    \* the handler goroutine, readPump included
    panicked,  \* ... was ended by a panic, which net/http recovers
    writer,    \* the writePump goroutine
    member,    \* Hub.clients: not yet in it, in it, or removed, its queue closed
    condemned, \* the hub has found the queue full and not removed the client yet
    queue,     \* how many messages Client.send holds
    conn,      \* whether the server has closed the connection
    peer,      \* the peer reads and writes, only writes, or is lost
    net        \* what has been written since the peer stopped reading

hub  == <<member, condemned>>
vars == <<reader, panicked, writer, hub, queue, conn, peer, net>>

TypeOK ==
    /\ reader \in {"register", "start", "read", "send", "unregister", "close", "gone"}
    /\ panicked \in BOOLEAN
    /\ writer \in {"none", "select", "write", "write_close", "close", "gone"}
    /\ member \in {"no", "yes", "removed"}
    /\ condemned \in BOOLEAN
    /\ queue \in 0 .. SendCap
    /\ conn \in {"open", "closed"}
    /\ peer \in {"up", "deaf", "lost"}
    /\ net \in 0 .. NetCap

Init ==
    /\ reader = "register"
    /\ panicked = FALSE
    /\ writer = "none"
    /\ member = "no"
    /\ condemned = FALSE
    /\ queue = 0
    /\ conn = "open"
    /\ peer = "up"
    /\ net = 0

-----------------------------------------------------------------------------
(* The hub, between whose sends this goroutine and the writer run.         *)

HubSendUnbounded ==
    /\ member = "yes"
    /\ queue' = queue + 1
    /\ UNCHANGED <<reader, panicked, writer, member, condemned, conn, peer, net>>

\* A broadcast: a client whose queue is full is removed, though not at once.
\* (An ack or a diagnostics message that finds the queue full is dropped.)
HubSend ==
    /\ member = "yes"
    /\ IF queue < SendCap
          THEN queue' = queue + 1 /\ UNCHANGED condemned
          ELSE condemned' = TRUE /\ UNCHANGED queue
    /\ UNCHANGED <<reader, panicked, writer, member, conn, peer, net>>

\* removeStaleClients.
HubEvict ==
    /\ condemned
    /\ condemned' = FALSE
    /\ member' = "removed"
    /\ UNCHANGED <<reader, panicked, writer, queue, conn, peer, net>>

\* The hub, back in its select, receives what the reader is blocked on.
HubRegister ==
    /\ reader = "register"
    /\ reader' = "start"
    /\ member' = "yes"
    /\ UNCHANGED <<panicked, writer, condemned, queue, conn, peer, net>>

HubReceive ==
    /\ reader = "send"
    /\ ~condemned
    /\ reader' = "read"
    /\ UNCHANGED <<panicked, writer, hub, queue, conn, peer, net>>

HubForgetsUnregister ==
    /\ reader = "unregister"
    /\ ~condemned
    /\ reader' = "close"
    /\ UNCHANGED <<panicked, writer, member, condemned, queue, conn, peer, net>>

HubUnregister ==
    /\ reader = "unregister"
    /\ ~condemned
    /\ reader' = "close"
    /\ member' = "removed"
    /\ UNCHANGED <<panicked, writer, condemned, queue, conn, peer, net>>

Hub == HubRegister \/ HubReceive \/ HubUnregister

-----------------------------------------------------------------------------
(* The reader. It goes on reading what has been buffered when the          *)
(* connection is closed or the peer lost.                                  *)

StartPumps ==
    /\ reader = "start"
    /\ reader' = "read"
    /\ writer' = "select"
    /\ UNCHANGED <<panicked, hub, queue, conn, peer, net>>

\* A chat message, a request to talk or to stop, or audio.
ReadForHub ==
    /\ reader = "read"
    /\ reader' = "send"
    /\ UNCHANGED <<panicked, writer, hub, queue, conn, peer, net>>

\* A keepalive, room_list_req or room_users_req is answered here: the answer is
\* dropped when the queue is full, and a send to a closed queue panics.
ReadAndReply ==
    /\ reader = "read"
    /\ IF member = "removed"
          THEN /\ reader' = "unregister"
               /\ panicked' = TRUE
               /\ UNCHANGED queue
          ELSE /\ queue' = IF queue < SendCap THEN queue + 1 ELSE queue
               /\ UNCHANGED <<reader, panicked>>
    /\ UNCHANGED <<writer, hub, conn, peer, net>>

ReadFails ==
    /\ reader = "read"
    /\ reader' = "unregister"
    /\ UNCHANGED <<panicked, writer, hub, queue, conn, peer, net>>

\* The connection is closed, or nothing has come for pongWait.
NothingToRead == conn = "closed" \/ peer = "lost"

ReaderCloses ==
    /\ reader = "close"
    /\ reader' = "gone"
    /\ conn' = "closed"
    /\ UNCHANGED <<panicked, writer, hub, queue, peer, net>>

-----------------------------------------------------------------------------
(* The writer.                                                             *)

TakeMessage ==
    /\ writer = "select"
    /\ queue > 0
    /\ queue' = queue - 1
    /\ writer' = "write"
    /\ UNCHANGED <<reader, panicked, hub, conn, peer, net>>

TakeEndAgain ==
    /\ writer = "select"
    /\ queue = 0
    /\ member = "removed"
    /\ writer' = "write"
    /\ UNCHANGED <<reader, panicked, hub, queue, conn, peer, net>>

\* A closed queue is drained before its end is seen.
TakeEnd ==
    /\ writer = "select"
    /\ queue = 0
    /\ member = "removed"
    /\ writer' = "write_close"
    /\ UNCHANGED <<reader, panicked, hub, queue, conn, peer, net>>

NoPing == FALSE /\ UNCHANGED vars
Ping ==
    /\ writer = "select"
    /\ writer' = "write"
    /\ UNCHANGED <<reader, panicked, hub, queue, conn, peer, net>>

\* The network has taken the message.
Written ==
    /\ conn = "open"
    /\ IF peer = "up" THEN UNCHANGED net
                      ELSE net < NetCap /\ net' = net + 1

WriteSucceeds ==
    /\ writer = "write"
    /\ Written
    /\ writer' = "select"
    /\ UNCHANGED <<reader, panicked, hub, queue, conn, peer>>

\* The connection is closed or broken, or writeWait has passed.
WriteFails ==
    /\ writer = "write"
    /\ writer' = "close"
    /\ UNCHANGED <<reader, panicked, hub, queue, conn, peer, net>>

\* The result of writing the close frame is not looked at.
WriteClose ==
    /\ writer = "write_close"
    /\ Written \/ UNCHANGED net
    /\ writer' = "close"
    /\ UNCHANGED <<reader, panicked, hub, queue, conn, peer>>

WriterLeaves ==
    /\ writer = "close"
    /\ writer' = "gone"
    /\ UNCHANGED <<reader, panicked, hub, queue, conn, peer, net>>

WriterCloses ==
    /\ writer = "close"
    /\ writer' = "gone"
    /\ conn' = "closed"
    /\ UNCHANGED <<reader, panicked, hub, queue, peer, net>>

-----------------------------------------------------------------------------

PeerStopsReading ==
    /\ peer = "up"
    /\ peer' = "deaf"
    /\ UNCHANGED <<reader, panicked, writer, hub, queue, conn, net>>

PeerLost ==
    /\ peer # "lost"
    /\ peer' = "lost"
    /\ UNCHANGED <<reader, panicked, writer, hub, queue, conn, net>>

Reader == StartPumps \/ ReadForHub \/ ReadAndReply \/ ReadFails \/ ReaderCloses

WriteEnds == WriteSucceeds \/ WriteFails \/ WriteClose

Writer == TakeMessage \/ TakeEnd \/ Ping \/ WriteEnds \/ WriterCloses

Peer == PeerStopsReading \/ PeerLost

Next == HubSend \/ HubEvict \/ Hub \/ Reader \/ Writer \/ Peer

Spec == Init /\ [][Next]_vars

(* The hub finishes its handlers and serves who is blocked on it (Hub!     *)
(* RequestServed); goroutines run; a write ends within writeWait, also by  *)
(* failing; the writer's select picks among its ready cases at random and  *)
(* the ticker fires again and again; what was buffered is read up before a *)
(* read fails. Nothing is assumed of the peer or of the hub's sends.       *)
FairSpec ==
    /\ Spec
    /\ WF_vars(HubEvict)
    /\ WF_vars(Hub)
    /\ WF_vars(StartPumps)
    /\ WF_vars(ReaderCloses)
    /\ SF_vars(NothingToRead /\ ReadFails)
    /\ SF_vars(TakeMessage)
    /\ SF_vars(TakeEnd)
    /\ SF_vars(Ping)
    /\ WF_vars(WriteEnds)
    /\ WF_vars(WriterCloses)

-----------------------------------------------------------------------------
(* Properties.                                                             *)

Ended == reader = "gone" /\ writer = "gone" /\ conn = "closed" /\ member = "removed"

\* A connection whose reader is done with the hub is no longer in it, whichever
\* came first, the hub's eviction or the reader's end; and a client in the hub
\* has a reader that will unregister it (client.go:98-101, hub.go:135-139).
MemberHasReader ==
    /\ reader \in {"close", "gone"} => member = "removed"
    /\ member = "no" <=> reader = "register"
    /\ condemned => member = "yes" /\ reader \notin {"close", "gone"}

\* The reader as the hub sees it, and what the hub and it are to each other.
ReaderStage == CASE reader = "register"           -> "register"
                 [] reader \in {"start", "read"}  -> "free"
                 [] reader = "send"               -> "blocked"
                 [] reader = "unregister"         -> "unregister"
                 [] OTHER                         -> "done"

MembershipOf == INSTANCE Membership WITH reader <- ReaderStage

\* The connection is to the hub what any connection is, and asks of it what module
\* Hub has: it is registered once and removed once, by its reader's unregister or
\* by an eviction before that, also when an answer to a closed queue ends the
\* reader, and it leaves nothing behind in the hub (client.go:97-101).
MembershipSpec == MembershipOf!Spec

\* Neither pump outlives the other for good: the writer's end closes the
\* connection under the reader, and the reader's closes the writer's queue.
PumpsEndTogether ==
    /\ (writer = "gone") ~> (reader = "gone")
    /\ (reader = "gone") ~> (writer = "gone")

\* A client that the hub has evicted is disconnected, however the peer behaves:
\* the queue is drained, the connection closed, both goroutines end.
EvictedEnds == (member = "removed") ~> Ended

\* A peer that is lost, or sends but reads nothing, does not stay in the hub,
\* though the hub may send it nothing: the pings find out (client.go:457-461).
DeafPeerRemoved == (peer # "up") ~> Ended

\* The reader's answers are dropped when they cannot be queued; no answer ends
\* the reader's goroutine in a panic.
ReplyNeverPanics == ~panicked
=============================================================================
