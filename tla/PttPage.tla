------------------------------ MODULE PttPage ------------------------------
(***************************************************************************)
(* The push-to-talk simulator of the test page (intercom-listener.html)    *)
(* and the server as it sees it.  The page asks for the floor and sends    *)
(* audio from the answer on until it is stopped; answers do not say which  *)
(* request they answer.  Page and server exchange messages in order.       *)
(*                                                                         *)
(* The server handles the page's requests one by one while others talk.    *)
(* It may end a talk by itself: by the idle timeout, or when it evicts the *)
(* page.  Audio is not in the model: it may come late, and the audio of a  *)
(* talk in another room than the one the page was connected in does not    *)
(* keep the floor at all (client.go:255), so that the timeout may end any  *)
(* talk, also one that the page is about to begin.                         *)
(***************************************************************************)
EXTENDS Naturals, Sequences

CONSTANTS Room,        \* rooms that may stand in the page's room field
          MaxMessages  \* bound on the messages under way in one direction

ASSUME PageAssumption == Room # {} /\ MaxMessages \in Nat \ {0}

VARIABLES
    ws,       \* state.ws and its readyState
    pending,  \* state.sim.pendingStart
    active,   \* state.sim.active
    timer,    \* state.sim.timer: an interval is running
    field,    \* the room field
    toServer, \* requests under way
    toPage,   \* answers under way
    speaker,  \* who has the floor of each room, for the server
    served,   \* the page is one of Hub.clients
    strayed,  \* since the socket was opened the user has asked again before the
              \* answer came, or has changed the room in the middle of a talk
    expired,  \* since the last request the server has ended a talk by itself
    unanswered \* ... and has dropped an answer

sim  == <<pending, active, timer>>
past == <<strayed, expired, unanswered>>
vars == <<ws, sim, field, toServer, toPage, speaker, served, past>>

Requests == [type: {"start", "stop"}, room: Room]
Speakers == {"nobody", "page", "other"}

TypeOK ==
    /\ ws \in {"none", "connecting", "open", "closing"}
    /\ pending \in BOOLEAN /\ active \in BOOLEAN /\ timer \in BOOLEAN
    /\ field \in Room
    /\ toServer \in Seq(Requests)
    /\ toPage \in Seq({"ok", "busy"})
    /\ speaker \in [Room -> Speakers]
    /\ served \in BOOLEAN
    /\ strayed \in BOOLEAN /\ expired \in BOOLEAN /\ unanswered \in BOOLEAN
    /\ ~(pending /\ active)

Init ==
    /\ ws = "none"
    /\ pending = FALSE /\ active = FALSE /\ timer = FALSE
    /\ field \in Room
    /\ toServer = <<>> /\ toPage = <<>>
    /\ speaker = [r \in Room |-> "nobody"]
    /\ served = FALSE
    /\ strayed = FALSE /\ expired = FALSE /\ unanswered = FALSE

-----------------------------------------------------------------------------
(* The page.                                                               *)

Talking == pending \/ active
Settled == toServer = <<>> /\ toPage = <<>>

\* stopSimulator(sendStop): a stop is sent for the room that now stands in the field.
StopKeepingTimer(sendStop) ==
    /\ pending' = FALSE /\ active' = FALSE
    /\ UNCHANGED timer
    /\ toServer' = IF sendStop /\ ws = "open" /\ Talking
                   THEN Append(toServer, [type |-> "stop", room |-> field]) ELSE toServer
StopIfActive(sendStop) ==
    /\ pending' = FALSE /\ active' = FALSE /\ timer' = FALSE
    /\ toServer' = IF sendStop /\ ws = "open" /\ active
                   THEN Append(toServer, [type |-> "stop", room |-> field]) ELSE toServer
Stop(sendStop) ==
    /\ pending' = FALSE /\ active' = FALSE /\ timer' = FALSE
    /\ toServer' = IF sendStop /\ ws = "open" /\ Talking
                   THEN Append(toServer, [type |-> "stop", room |-> field]) ELSE toServer

\* resetCounters and a new WebSocket. The button is enabled again by onclose only.
Connect ==
    /\ ws = "none"
    /\ ws' = "connecting"
    /\ pending' = FALSE /\ active' = FALSE /\ timer' = FALSE
    /\ strayed' = FALSE /\ expired' = FALSE /\ unanswered' = FALSE
    /\ UNCHANGED <<field, toServer, toPage, speaker, served>>

Opened ==
    /\ ws = "connecting"
    /\ ws' = "open"
    /\ served' = TRUE
    /\ UNCHANGED <<sim, field, toServer, toPage, speaker, past>>

\* The user disconnects, the connection is lost, or the server closes it: nothing gets
\* through any more. The server ends the connection's talks in time; until then it is
\* one of the others.
Closing ==
    /\ ws \in {"connecting", "open"}
    /\ ws' = "closing"
    /\ toServer' = <<>> /\ toPage' = <<>>
    /\ speaker' = [r \in Room |-> IF speaker[r] = "page" THEN "other" ELSE speaker[r]]
    /\ served' = FALSE
    /\ UNCHANGED <<sim, field, past>>

Closed ==
    /\ ws = "closing"
    /\ ws' = "none"
    /\ Stop(FALSE)
    /\ UNCHANGED <<field, toPage, speaker, served, past>>

EditRoom ==
    /\ \E r \in Room \ {field} : field' = r
    /\ strayed' = (strayed \/ Talking)
    /\ UNCHANGED <<ws, sim, toServer, toPage, speaker, served, expired, unanswered>>

RequestStart ==
    /\ ws = "open"
    /\ ~Talking
    /\ Len(toServer) + Len(toPage) < MaxMessages
    /\ pending' = TRUE
    /\ toServer' = Append(toServer, [type |-> "start", room |-> field])
    /\ strayed' = (strayed \/ toPage # <<>>
                           \/ \E i \in 1 .. Len(toServer) : toServer[i].type = "start")
    /\ expired' = FALSE /\ unanswered' = FALSE
    /\ UNCHANGED <<ws, active, timer, field, toPage, speaker, served>>

PressStop ==
    /\ ws = "open"
    /\ Talking
    /\ Stop(TRUE)
    /\ UNCHANGED <<ws, field, toPage, speaker, served, past>>

\* sendSimulatorAudioTick; a tick that finds the socket open sends audio.
Tick ==
    /\ timer
    /\ ~active \/ ws # "open"
    /\ Stop(FALSE)
    /\ UNCHANGED <<ws, field, toPage, speaker, served, past>>

\* The answer starts or ends what is pending; it means nothing otherwise.
OnBusyUnheeded(ack) == FALSE
OnBusy(ack) == ack = "busy" /\ pending

ReceiveAck ==
    /\ ws = "open"
    /\ toPage # <<>>
    /\ toPage' = Tail(toPage)
    /\ LET ack == Head(toPage) IN
       \/ /\ ack = "ok" /\ pending
          /\ pending' = FALSE /\ active' = TRUE /\ timer' = TRUE
          /\ UNCHANGED toServer
       \/ OnBusy(ack) /\ Stop(FALSE)
       \/ ~(ack = "ok" /\ pending) /\ ~OnBusy(ack) /\ UNCHANGED <<sim, toServer>>
    /\ UNCHANGED <<ws, field, speaker, served, past>>

-----------------------------------------------------------------------------
(* The server.                                                             *)

\* The answer to a start, unless the page's queue is full (sendIntercomStartAck).
AnswerStart(granted) ==
    \/ /\ toPage' = Append(toPage, IF granted THEN "ok" ELSE "busy")
       /\ UNCHANGED unanswered
    \/ unanswered' = TRUE /\ UNCHANGED toPage

\* A client that has been evicted gets neither the floor nor an answer.
HandleStart ==
    /\ toServer # <<>> /\ Head(toServer).type = "start"
    /\ toServer' = Tail(toServer)
    /\ LET r == Head(toServer).room IN
       IF served
       THEN /\ AnswerStart(speaker[r] # "other")
            /\ speaker' = [speaker EXCEPT ![r] = IF @ = "nobody" THEN "page" ELSE @]
       ELSE UNCHANGED <<toPage, speaker, unanswered>>
    /\ UNCHANGED <<ws, sim, field, served, strayed, expired>>

HandleStop ==
    /\ toServer # <<>> /\ Head(toServer).type = "stop"
    /\ toServer' = Tail(toServer)
    /\ speaker' = [speaker EXCEPT ![Head(toServer).room] = IF @ = "page" THEN "nobody" ELSE @]
    /\ UNCHANGED <<ws, sim, field, toPage, served, past>>

OthersTalk(r) ==
    /\ speaker[r] # "page"
    /\ \E s \in {"nobody", "other"} \ {speaker[r]} : speaker' = [speaker EXCEPT ![r] = s]
    /\ UNCHANGED <<ws, sim, field, toServer, toPage, served, past>>

\* speakerAudioIdleTimeout has passed since the last audio in the room, or the start.
IdleTimeout(r) ==
    /\ speaker[r] = "page"
    /\ speaker' = [speaker EXCEPT ![r] = "nobody"]
    /\ expired' = TRUE
    /\ UNCHANGED <<ws, sim, field, toServer, toPage, served, strayed, unanswered>>

\* A broadcast finds the page's queue full. The connection ends when its queue has been
\* written; until then the page may go on asking.
Evict ==
    /\ ws = "open" /\ served
    /\ served' = FALSE
    /\ speaker' = [r \in Room |-> IF speaker[r] = "page" THEN "nobody" ELSE speaker[r]]
    /\ expired' = TRUE
    /\ UNCHANGED <<ws, sim, field, toServer, toPage, strayed, unanswered>>

-----------------------------------------------------------------------------
Page == \/ Connect \/ Opened \/ Closing \/ Closed
        \/ EditRoom \/ RequestStart \/ PressStop
        \/ Tick \/ ReceiveAck

Server == \/ HandleStart \/ HandleStop \/ Evict
          \/ \E r \in Room : OthersTalk(r) \/ IdleTimeout(r)

Next == Page \/ Server

Spec == Init /\ [][Next]_vars

\* Messages arrive, a closing socket closes, an evicted client's is closed, and the
\* interval fires.
FairSpec == Spec /\ WF_vars(HandleStart \/ HandleStop) /\ WF_vars(ReceiveAck)
                 /\ WF_vars(Closed) /\ WF_vars(Tick)
                 /\ WF_vars(ws = "open" /\ ~served /\ Closing)

-----------------------------------------------------------------------------
\* The interval that sends audio runs exactly while the page talks, also when the
\* socket closes, or closes and is opened again, in the middle of a talk.
TimerIffActive == timer <=> active

\* A user who waits for each answer before asking again, and leaves the room field
\* alone during a talk, is told the truth: when nothing is under way the server has
\* given the page no floor but the one that the page talks for or waits for, also if an
\* answer was dropped; and a page that talks has its floor, unless the server has ended
\* the talk by itself, of which the page is not told.
PageKnowsFloor ==
    ws = "open" /\ Settled /\ ~strayed =>
        \A r \in Room : /\ speaker[r] = "page" => Talking /\ r = field
                        /\ active /\ r = field /\ ~expired => speaker[r] = "page"

\* A request is answered, or withdrawn, or its connection ends, unless its answer was
\* dropped (hub.go:763-767): then the page waits until the user gives up.
PendingEnds == pending ~> ~pending \/ unanswered
=============================================================================
