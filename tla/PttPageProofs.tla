--------------------------- MODULE PttPageProofs ---------------------------
(***************************************************************************)
(* Proofs about PttPage, for any rooms and any number of messages under    *)
(* way: the page's interval runs while it talks, and a user who waits for  *)
(* each answer is told who has the floor.                                  *)
(***************************************************************************)
EXTENDS PttPage, SequenceTheorems, TLAPS

(* The messages under way while a user does as asked.  At most two requests *)
(* that end a talk and one that begins a talk are under way, in this order: *)
(* the stop of an earlier talk, the start, and its withdrawal.              *)

Start(r) == [type |-> "start", room |-> r]
StopOf(r) == [type |-> "stop", room |-> r]

\* The rooms whose floor the server has given to the page.
Floors == {r \in Room : speaker[r] = "page"}

\* The page has been given the floor that it asked for, and has it if the server has not
\* ended the talk by itself.
Granted == Floors \subseteq {field} /\ (~expired => Floors = {field})

Silent == /\ ~Talking
          /\ toServer = <<>> /\ toPage \in {<<>>, <<"ok">>, <<"busy">>}
          /\ Floors = {}
Stopped(r) == /\ ~Talking
              /\ toServer = <<StopOf(r)>> /\ toPage \in {<<>>, <<"ok">>, <<"busy">>}
              /\ Floors \subseteq {r}
Asked == /\ pending
         /\ toServer = <<Start(field)>> /\ toPage = <<>>
         /\ Floors = {}
AskedAgain(r) == /\ pending
                 /\ toServer = <<StopOf(r), Start(field)>> /\ toPage = <<>>
                 /\ Floors \subseteq {r}
Answered == /\ pending
            /\ toServer = <<>>
            /\ \/ toPage = <<"ok">> /\ Granted
               \/ toPage = <<"busy">> /\ Floors = {}
Unanswered == /\ pending
              /\ toServer = <<>> /\ toPage = <<>>
              /\ Floors \subseteq {field}
Talks == /\ active
         /\ toServer = <<>> /\ toPage = <<>>
         /\ Granted
Withdrawn(r) == /\ ~Talking
                /\ toServer = <<Start(r), StopOf(r)>> /\ toPage = <<>>
                /\ Floors = {}
WithdrawnAgain(e, r) == /\ ~Talking
                        /\ toServer = <<StopOf(e), Start(r), StopOf(r)>> /\ toPage = <<>>
                        /\ Floors \subseteq {e}

Orderly == \/ Silent \/ Asked \/ Answered \/ Unanswered \/ Talks
           \/ \E r \in Room : Stopped(r) \/ AskedAgain(r) \/ Withdrawn(r)
           \/ \E e, r \in Room : WithdrawnAgain(e, r)

\* Without a connection nothing is under way, and the server has given the page nothing.
Apart == toServer = <<>> /\ toPage = <<>> /\ Floors = {}

PageInv ==
    /\ TypeOK
    /\ TimerIffActive
    /\ ws # "open" => Apart
    /\ ws = "connecting" => ~Talking
    /\ ws = "open" /\ ~strayed => Orderly

-----------------------------------------------------------------------------
(* Queues of up to three messages.                                         *)

\* What is first, what is behind it, and what is put at the end.
LEMMA ShortQueues ==
  ASSUME NEW a, NEW b, NEW c
  PROVE  /\ Head(<<a>>) = a /\ Head(<<a, b>>) = a /\ Head(<<a, b, c>>) = a
         /\ Tail(<<a>>) = <<>> /\ Tail(<<a, b>>) = <<b>> /\ Tail(<<a, b, c>>) = <<b, c>>
         /\ Append(<<>>, a) = <<a>> /\ Append(<<a>>, b) = <<a, b>>
<1>1. Head(<<a>>) = a /\ Head(<<a, b>>) = a /\ Head(<<a, b, c>>) = a
  OBVIOUS
<1> DEFINE S == {a, b, c}
<1>2. /\ <<>> \in Seq(S) /\ <<a>> \in Seq(S) /\ <<a, b>> \in Seq(S) /\ <<a, b, c>> \in Seq(S)
      /\ Len(<<>>) = 0 /\ Len(<<a>>) = 1 /\ Len(<<a, b>>) = 2 /\ Len(<<a, b, c>>) = 3
  OBVIOUS
<1>3. /\ Append(<<>>, a) = <<a>>
      /\ Append(<<a>>, b) = <<a, b>>
  <2>1. \A s \in Seq(S), e \in S :
           /\ Append(s, e) \in Seq(S) /\ Len(Append(s, e)) = Len(s) + 1
           /\ \A i \in 1 .. Len(s) : Append(s, e)[i] = s[i]
           /\ Append(s, e)[Len(s) + 1] = e
    BY AppendProperties
  <2>2. \A s, t \in Seq(S) : Len(s) = Len(t) /\ (\A i \in 1 .. Len(s) : s[i] = t[i]) => s = t
    BY SeqEqual
  <2> HIDE DEF S
  <2>3. a \in S /\ b \in S /\ c \in S
    BY DEF S
  <2>4. Append(<<>>, a) = <<a>>
    BY <1>2, <2>1, <2>2, <2>3
  <2>5. Append(<<a>>, b) = <<a, b>>
    <3> DEFINE t == Append(<<a>>, b)
    <3>1. t \in Seq(S) /\ Len(t) = 1 + 1 /\ t[1] = <<a>>[1] /\ t[1 + 1] = b
      BY <1>2, <2>1, <2>3
    <3> HIDE DEF t
    <3>2. \A i \in 1 .. Len(t) : t[i] = <<a, b>>[i]
      BY <3>1
    <3>3. t = <<a, b>>
      BY <1>2, <2>2, <3>1, <3>2
    <3> QED BY <3>3 DEF t
  <2> QED BY <2>4, <2>5
<1>4. Tail(<<a>>) = <<>>
  OBVIOUS
<1>5. Tail(<<a, b>>) = <<b>>
  OBVIOUS
<1>6. Tail(<<a, b, c>>) = <<b, c>>
  OBVIOUS
<1> QED BY <1>1, <1>2, <1>3, <1>4, <1>5, <1>6

\* A third message is put behind two.
LEMMA BehindTwo ==
  ASSUME NEW a, NEW b, NEW c, NEW s, s = <<a, b>>
  PROVE  Append(s, c) = <<a, b, c>>
<1> DEFINE S == {a, b, c}
           t == Append(s, c)
           u == <<a, b, c>>
<1>1. s \in Seq(S) /\ Len(s) = 2 /\ s[1] = a /\ s[2] = b /\ c \in S
  OBVIOUS
<1>2. u \in Seq(S) /\ Len(u) = 3 /\ u[1] = a /\ u[2] = b /\ u[3] = c
  OBVIOUS
<1> HIDE DEF S, u
<1>3. t \in Seq(S) /\ Len(t) = 3 /\ t[1] = a /\ t[2] = b /\ t[3] = c
  <2>1. \A i \in 1 .. Len(s) : t[i] = s[i]
    BY <1>1, AppendProperties
  <2>2. t \in Seq(S) /\ Len(t) = Len(s) + 1 /\ t[Len(s) + 1] = c
    BY <1>1, AppendProperties
  <2> HIDE DEF t
  <2> QED BY <1>1, <2>1, <2>2
<1> HIDE DEF t
<1>4. \A i \in 1 .. Len(t) : t[i] = u[i]
  BY <1>2, <1>3
<1>5. t = u
  BY <1>2, <1>3, <1>4, SeqEqual
<1> QED BY <1>5 DEF t, u

\* A queue without a start is one that a user need not wait for.
LEMMA StartAhead ==
  ASSUME NEW r, NEW e, NEW f
  PROVE  /\ \E i \in 1 .. Len(<<Start(f)>>) : <<Start(f)>>[i].type = "start"
         /\ \E i \in 1 .. Len(<<Start(r), StopOf(r)>>) :
                <<Start(r), StopOf(r)>>[i].type = "start"
         /\ \E i \in 1 .. Len(<<StopOf(e), Start(r), StopOf(r)>>) :
                <<StopOf(e), Start(r), StopOf(r)>>[i].type = "start"
<1>1. <<Start(f)>>[1].type = "start" /\ 1 \in 1 .. Len(<<Start(f)>>)
  BY DEF Start
<1>2. <<Start(r), StopOf(r)>>[1].type = "start" /\ 1 \in 1 .. Len(<<Start(r), StopOf(r)>>)
  BY DEF Start
<1>3. /\ <<StopOf(e), Start(r), StopOf(r)>>[2].type = "start"
      /\ 2 \in 1 .. Len(<<StopOf(e), Start(r), StopOf(r)>>)
  BY DEF Start
<1> QED BY <1>1, <1>2, <1>3

-----------------------------------------------------------------------------
(* Types and the interval.                                                 *)

FlagTypes ==
    /\ pending \in BOOLEAN /\ active \in BOOLEAN /\ timer \in BOOLEAN
    /\ ~(pending /\ active)
    /\ served \in BOOLEAN
    /\ strayed \in BOOLEAN /\ expired \in BOOLEAN /\ unanswered \in BOOLEAN

DataTypes ==
    /\ ws \in {"none", "connecting", "open", "closing"}
    /\ field \in Room
    /\ toServer \in Seq(Requests)
    /\ toPage \in Seq({"ok", "busy"})
    /\ speaker \in [Room -> Speakers]

\* The flags stay flags, and the page never waits while it talks.
LEMMA FlagsStep == FlagTypes /\ [Next]_vars => FlagTypes'
<1> SUFFICES ASSUME FlagTypes, [Next]_vars PROVE FlagTypes'
  OBVIOUS
<1> USE DEF FlagTypes, sim, past
<1>1. CASE UNCHANGED vars
  <2>1. UNCHANGED <<pending, active, timer, served, strayed, expired, unanswered>>
    BY <1>1 DEF vars
  <2> QED BY <2>1
<1>2. CASE Connect
  BY <1>2 DEF Connect
<1>3. CASE Opened \/ Closing
  <2>1. /\ UNCHANGED <<pending, active, timer, strayed, expired, unanswered>>
        /\ served' \in {TRUE, FALSE}
    BY <1>3 DEF Opened, Closing
  <2> QED BY <2>1
<1>4. CASE Closed
  BY <1>4 DEF Closed, Stop
<1>5. CASE EditRoom
  <2>1. strayed' \in BOOLEAN
    BY <1>5 DEF EditRoom, Talking
  <2>2. UNCHANGED <<pending, active, timer, served, expired, unanswered>>
    BY <1>5 DEF EditRoom
  <2> QED BY <2>1, <2>2
<1>6. CASE RequestStart
  <2>1. strayed' \in BOOLEAN
    BY <1>6 DEF RequestStart
  <2>2. /\ pending' = TRUE /\ expired' = FALSE /\ unanswered' = FALSE
        /\ active' = active /\ ~active
        /\ timer' = timer /\ served' = served
    BY <1>6 DEF RequestStart, Talking
  <2>3. ~(pending' /\ active')
    BY <2>2
  <2> QED BY <2>1, <2>2, <2>3
<1>7. CASE PressStop \/ Tick
  BY <1>7 DEF PressStop, Tick, Stop
<1>8. CASE ReceiveAck
  <2>1. UNCHANGED <<served, strayed, expired, unanswered>>
    BY <1>8 DEF ReceiveAck
  <2>2. \/ pending' = FALSE /\ active' = TRUE /\ timer' = TRUE
        \/ pending' = FALSE /\ active' = FALSE /\ timer' = FALSE
        \/ UNCHANGED <<pending, active, timer>>
    BY <1>8 DEF ReceiveAck, Stop
  <2>3. CASE pending' = FALSE /\ active' = TRUE /\ timer' = TRUE
    BY <2>1, <2>3
  <2>4. CASE pending' = FALSE /\ active' = FALSE /\ timer' = FALSE
    BY <2>1, <2>4
  <2>5. CASE UNCHANGED <<pending, active, timer>>
    BY <2>1, <2>5
  <2> QED BY <2>2, <2>3, <2>4, <2>5
<1>9. CASE HandleStart
  <2>1. UNCHANGED <<pending, active, timer, served, strayed, expired>>
    BY <1>9 DEF HandleStart
  <2>2. unanswered' = TRUE \/ unanswered' = unanswered
    BY <1>9 DEF HandleStart, AnswerStart
  <2>3. unanswered' \in BOOLEAN
    BY <2>2
  <2> QED BY <2>1, <2>3
<1>10. CASE HandleStop
  BY <1>10 DEF HandleStop
<1>11. CASE Evict
  BY <1>11 DEF Evict
<1>12. CASE \E r \in Room : OthersTalk(r) \/ IdleTimeout(r)
  <2>1. /\ UNCHANGED <<pending, active, timer, served, strayed, unanswered>>
        /\ expired' \in {TRUE, expired}
    BY <1>12 DEF OthersTalk, IdleTimeout
  <2> QED BY <2>1
<1> QED BY <1>1, <1>2, <1>3, <1>4, <1>5, <1>6, <1>7, <1>8, <1>9, <1>10, <1>11, <1>12
        DEF Next, Page, Server

\* Rooms, queues and speakers stay what they are.
LEMMA DataStep == DataTypes /\ [Next]_vars => DataTypes'
<1> SUFFICES ASSUME DataTypes, [Next]_vars PROVE DataTypes'
  OBVIOUS
<1> USE DEF DataTypes
<1>0. Start(field) \in Requests /\ StopOf(field) \in Requests
  BY DEF Requests, Start, StopOf
<1>1. CASE UNCHANGED vars
  BY <1>1 DEF vars
<1>2. CASE Connect \/ Opened
  BY <1>2 DEF Connect, Opened
<1>3. CASE Closing
  <2>1. speaker' \in [Room -> Speakers]
    BY <1>3 DEF Closing, Speakers
  <2> QED BY <1>3, <2>1 DEF Closing
<1>4. CASE Closed \/ PressStop \/ Tick
  <2>1. /\ ws' \in {ws, "none"}
        /\ UNCHANGED <<field, toPage, speaker>>
        /\ toServer' \in {toServer, Append(toServer, StopOf(field))}
    BY <1>4 DEF Closed, PressStop, Tick, Stop, StopOf
  <2> QED BY <1>0, <2>1
<1>5. CASE EditRoom
  BY <1>5 DEF EditRoom
<1>6. CASE RequestStart
  <2>1. /\ UNCHANGED <<ws, field, toPage, speaker>>
        /\ toServer' = Append(toServer, Start(field))
    BY <1>6 DEF RequestStart, Start
  <2> QED BY <1>0, <2>1
<1>7. CASE ReceiveAck
  <2>1. /\ UNCHANGED <<ws, field, speaker, toServer>>
        /\ toPage # <<>> /\ toPage' = Tail(toPage)
    BY <1>7 DEF ReceiveAck, OnBusy, Stop
  <2> QED BY <2>1
<1>8. CASE HandleStart
  <2>1. speaker' \in [Room -> Speakers]
    BY <1>8 DEF HandleStart, Speakers
  <2>2. /\ UNCHANGED <<ws, field>>
        /\ toServer # <<>> /\ toServer' = Tail(toServer)
    BY <1>8 DEF HandleStart
  <2>3. toPage' \in {toPage, Append(toPage, "ok"), Append(toPage, "busy")}
    BY <1>8 DEF HandleStart, AnswerStart
  <2>4. toPage' \in Seq({"ok", "busy"})
    BY <2>3
  <2>5. toServer' \in Seq(Requests)
    BY <2>2
  <2> QED BY <2>1, <2>2, <2>4, <2>5
<1>9. CASE HandleStop
  <2>1. speaker' \in [Room -> Speakers]
    BY <1>9 DEF HandleStop, Speakers
  <2> QED BY <1>9, <2>1 DEF HandleStop
<1>10. CASE Evict
  <2>1. speaker' \in [Room -> Speakers]
    BY <1>10 DEF Evict, Speakers
  <2> QED BY <1>10, <2>1 DEF Evict
<1>11. CASE \E r \in Room : OthersTalk(r) \/ IdleTimeout(r)
  <2>1. speaker' \in [Room -> Speakers]
    <3>1. PICK r \in Room, s \in Speakers : speaker' = [speaker EXCEPT ![r] = s]
      BY <1>11 DEF OthersTalk, IdleTimeout, Speakers
    <3> QED BY <3>1
  <2>2. UNCHANGED <<ws, field, toServer, toPage>>
    BY <1>11 DEF OthersTalk, IdleTimeout
  <2> QED BY <2>1, <2>2
<1> QED BY <1>1, <1>2, <1>3, <1>4, <1>5, <1>6, <1>7, <1>8, <1>9, <1>10, <1>11
        DEF Next, Page, Server

\* Every step keeps the types.
LEMMA PageTypes == TypeOK /\ [Next]_vars => TypeOK'
<1>1. TypeOK <=> FlagTypes /\ DataTypes
  BY DEF TypeOK, FlagTypes, DataTypes
<1>2. TypeOK' <=> FlagTypes' /\ DataTypes'
  BY DEF TypeOK, FlagTypes, DataTypes
<1> QED BY <1>1, <1>2, FlagsStep, DataStep

\* The interval is started and stopped together with the talk.
LEMMA PageTimer == TypeOK /\ TimerIffActive /\ [Next]_vars => TimerIffActive'
BY DEF TypeOK, TimerIffActive, Next, Page, Server, Connect, Opened, Closing, Closed, EditRoom,
       RequestStart, PressStop, Tick, ReceiveAck, OnBusy, Stop, HandleStart, HandleStop,
       OthersTalk, IdleTimeout, Evict, sim, vars

-----------------------------------------------------------------------------
(* The server's side of the floors.                                        *)

\* A message is told by its type and its room.
LEMMA Messages ==
  ASSUME NEW r
  PROVE  /\ Start(r).type = "start" /\ Start(r).room = r
         /\ StopOf(r).type = "stop" /\ StopOf(r).room = r
BY DEF Start, StopOf

\* A start gives the floor unless another has it; the answer, if there is one, says
\* which.
LEMMA StartHandled ==
  ASSUME TypeOK, HandleStart, NEW r \in Room, Head(toServer) = Start(r)
  PROVE  /\ toServer' = Tail(toServer) /\ expired' = expired
         /\ Floors \subseteq Floors' /\ Floors' \subseteq Floors \union {r}
         /\ \/ toPage' = toPage
            \/ toPage' = Append(toPage, "busy") /\ Floors' = Floors /\ r \notin Floors
            \/ toPage' = Append(toPage, "ok") /\ Floors' = Floors \union {r}
<1>0. Head(toServer).room = r
  BY Messages
<1>1. CASE ~served
  BY <1>1 DEF HandleStart, Floors
<1>2. CASE served
  <2>1. /\ toServer' = Tail(toServer) /\ expired' = expired
        /\ \/ toPage' = Append(toPage, IF speaker[r] # "other" THEN "ok" ELSE "busy")
           \/ toPage' = toPage
        /\ speaker' = [speaker EXCEPT ![r] = IF @ = "nobody" THEN "page" ELSE @]
    BY <1>0, <1>2 DEF HandleStart, AnswerStart
  <2>2. \A e \in Room : speaker'[e] = IF e = r THEN IF speaker[e] = "nobody" THEN "page"
                                                                         ELSE speaker[e]
                                      ELSE speaker[e]
    BY <2>1 DEF TypeOK
  <2>3. speaker[r] \in Speakers
    BY DEF TypeOK
  <2>4. CASE speaker[r] = "other"
    <3>1. Floors' = Floors /\ r \notin Floors
      BY <2>2, <2>4 DEF Floors
    <3> QED BY <2>1, <2>4, <3>1
  <2>5. CASE speaker[r] # "other"
    <3>1. Floors' = Floors \union {r}
      BY <2>2, <2>3, <2>5 DEF Floors, Speakers
    <3> QED BY <2>1, <2>5, <3>1
  <2> QED BY <2>4, <2>5
<1> QED BY <1>1, <1>2

\* A stop takes the floor from the page.
LEMMA StopHandled ==
  ASSUME TypeOK, HandleStop, NEW r \in Room, Head(toServer) = StopOf(r)
  PROVE  toServer' = Tail(toServer) /\ toPage' = toPage /\ Floors' = Floors \ {r}
<1>0. Head(toServer).room = r
  BY Messages
<1>1. /\ toServer' = Tail(toServer) /\ toPage' = toPage
      /\ speaker' = [speaker EXCEPT ![r] = IF @ = "page" THEN "nobody" ELSE @]
  BY <1>0 DEF HandleStop
<1>2. \A e \in Room : speaker'[e] = IF e = r THEN IF speaker[e] = "page" THEN "nobody"
                                                                     ELSE speaker[e]
                                    ELSE speaker[e]
  BY <1>1 DEF TypeOK
<1> QED BY <1>1, <1>2 DEF Floors

\* The server may end talks by itself, and gives the page nothing then.
LEMMA ServerEnds ==
  ASSUME TypeOK, Evict \/ \E r \in Room : IdleTimeout(r)
  PROVE  Floors' \subseteq Floors /\ expired'
<1>1. CASE Evict
  BY <1>1 DEF Evict, Floors
<1>2. CASE \E r \in Room : IdleTimeout(r)
  BY <1>2 DEF IdleTimeout, TypeOK, Floors
<1> QED BY <1>1, <1>2

\* Others do not take the page's floor, nor give it one.
LEMMA OthersFloors ==
  ASSUME TypeOK, NEW r \in Room, OthersTalk(r)
  PROVE  Floors' = Floors
<1>1. PICK s \in {"nobody", "other"} : speaker' = [speaker EXCEPT ![r] = s]
  BY DEF OthersTalk
<1> QED BY <1>1 DEF OthersTalk, TypeOK, Floors

\* Without a connection the server has given the page nothing, and nothing is under way.
LEMMA ApartStep ==
  PageInv /\ [Next]_vars => /\ ws' # "open" => Apart'
                            /\ ws' = "connecting" => ~Talking'
<1> SUFFICES ASSUME PageInv, [Next]_vars, ws' # "open"
             PROVE  Apart' /\ (ws' = "connecting" => ~Talking')
  BY DEF PageInv, Apart
<1> USE DEF Apart
<1>1. CASE UNCHANGED vars
  BY <1>1 DEF vars, sim, PageInv, Floors, Talking
<1>2. CASE Connect
  BY <1>2 DEF Connect, PageInv, Floors, Talking
<1>3. CASE Closing
  BY <1>3 DEF Closing, PageInv, TypeOK, Floors
<1>4. CASE Closed \/ Tick
  <2>1. ws # "open" /\ UNCHANGED <<toPage, speaker, toServer>> /\ ~Talking'
    BY <1>4 DEF Closed, Tick, Stop, Talking
  <2> QED BY <2>1 DEF PageInv, Floors
<1>5. CASE EditRoom
  <2>1. ws' = ws /\ UNCHANGED <<toPage, speaker, toServer, pending, active>>
    BY <1>5 DEF EditRoom, sim
  <2> QED BY <2>1 DEF PageInv, Floors, Talking
<1>6. CASE Opened \/ RequestStart \/ PressStop \/ ReceiveAck
  BY <1>6 DEF Opened, RequestStart, PressStop, ReceiveAck
<1>7. CASE HandleStart \/ HandleStop
  BY <1>7 DEF HandleStart, HandleStop, PageInv
<1>9. CASE Evict
  BY <1>9 DEF Evict
<1>8. CASE \E r \in Room : OthersTalk(r) \/ IdleTimeout(r)
  <2>1. PICK r \in Room : OthersTalk(r) \/ IdleTimeout(r)
    BY <1>8
  <2>2. ws' = ws /\ UNCHANGED <<toPage, toServer, pending, active>>
    BY <2>1 DEF OthersTalk, IdleTimeout, sim
  <2>3. r \notin Floors
    BY <2>2 DEF PageInv
  <2>4. Floors' = Floors
    BY <2>1, <2>3, OthersFloors DEF PageInv, IdleTimeout, Floors
  <2> QED BY <2>2, <2>4 DEF PageInv, Talking
<1> QED BY <1>1, <1>2, <1>3, <1>4, <1>5, <1>6, <1>7, <1>8, <1>9 DEF Next, Page, Server

-----------------------------------------------------------------------------
(* Every step of an orderly user, and of the server meanwhile.             *)

\* What PageInv says of an open connection of such a user.
Obedient == TypeOK /\ TimerIffActive /\ ws = "open" /\ ~strayed /\ Orderly

\* A new connection finds everything at rest.
LEMMA OpenedOrderly == ASSUME PageInv, Opened PROVE Orderly'
<1>1. ~Talking' /\ toServer' = <<>> /\ toPage' = <<>> /\ Floors' = {}
  BY DEF PageInv, Opened, sim, Apart, Talking, Floors
<1> QED BY <1>1 DEF Orderly, Silent

\* The room is changed while nobody talks.
LEMMA EditOrderly == ASSUME Obedient, EditRoom, ~strayed' PROVE Orderly'
<1>1. /\ ~Talking /\ ~Talking' /\ toServer' = toServer /\ toPage' = toPage
      /\ Floors' = Floors
  BY DEF Obedient, EditRoom, sim, Talking, Floors
<1> QED BY <1>1 DEF Obedient, Orderly, Silent, Stopped, Withdrawn, WithdrawnAgain,
                    Asked, AskedAgain, Answered, Unanswered, Talks, Talking

\* The user asks for the floor when no answer is owed.
LEMMA RequestOrderly == ASSUME Obedient, RequestStart, ~strayed' PROVE Orderly'
<1>1. /\ ~Talking /\ pending' = TRUE /\ field' = field /\ toPage' = toPage /\ Floors' = Floors
      /\ toServer' = Append(toServer, Start(field))
  BY DEF RequestStart, Floors, Start
<1>2. toPage = <<>> /\ ~\E i \in 1 .. Len(toServer) : toServer[i].type = "start"
  BY DEF RequestStart
<1>3. CASE Silent
  BY <1>1, <1>2, <1>3, ShortQueues DEF Silent, Asked, Orderly
<1>4. ASSUME NEW r \in Room, Stopped(r) PROVE Orderly'
  <2>1. toServer' = <<StopOf(r), Start(field)>>
    BY <1>1, <1>4, ShortQueues DEF Stopped
  <2>2. AskedAgain(r)'
    BY <1>1, <1>2, <1>4, <2>1 DEF Stopped, AskedAgain
  <2> QED BY <2>2 DEF Orderly
<1>5. ASSUME NEW r \in Room, Withdrawn(r) PROVE FALSE
  BY <1>2, <1>5, StartAhead DEF Withdrawn
<1>6. ASSUME NEW e \in Room, NEW r \in Room, WithdrawnAgain(e, r) PROVE FALSE
  BY <1>2, <1>6, StartAhead DEF WithdrawnAgain
<1>7. ~(Asked \/ Answered \/ Unanswered \/ Talks \/ \E r \in Room : AskedAgain(r))
  BY <1>1 DEF Talking, Asked, Answered, Unanswered, Talks, AskedAgain
<1> QED BY <1>3, <1>4, <1>5, <1>6, <1>7 DEF Obedient, Orderly

\* The user stops what is pending or goes on.
LEMMA StopOrderly == ASSUME Obedient, PressStop PROVE Orderly'
<1>1. /\ Talking /\ ~Talking' /\ toPage' = toPage /\ Floors' = Floors
      /\ toServer' = Append(toServer, StopOf(field))
  BY DEF Obedient, PressStop, Stop, Talking, Floors, StopOf
<1>2. field \in Room
  BY DEF Obedient, TypeOK
<1>3. CASE Asked
  <2>1. Withdrawn(field)'
    <3>1. toServer' = <<Start(field), StopOf(field)>>
      BY <1>1, <1>3, ShortQueues DEF Asked
    <3>2. ~Talking' /\ toPage' = <<>> /\ Floors' = {}
      BY <1>1, <1>3 DEF Asked
    <3>3. field' = field
      BY DEF PressStop
    <3> QED BY <3>1, <3>2, <3>3 DEF Withdrawn
  <2>2. field' \in Room
    BY <1>2 DEF PressStop
  <2> QED BY <2>1, <2>2 DEF Orderly
<1>4. ASSUME NEW r \in Room, AskedAgain(r) PROVE Orderly'
  <2>1. toServer' = <<StopOf(r), Start(field), StopOf(field)>>
    <3>1. toServer = <<StopOf(r), Start(field)>>
      BY <1>4 DEF AskedAgain
    <3> QED BY <1>1, <3>1, BehindTwo
  <2>2. ~Talking' /\ toPage' = <<>> /\ Floors' \subseteq {r}
    BY <1>1, <1>4 DEF AskedAgain
  <2>3. \E f \in Room : WithdrawnAgain(r, f)'
    BY <1>2, <2>1, <2>2 DEF WithdrawnAgain
  <2> QED BY <2>3 DEF Orderly
<1>5. CASE Answered \/ Unanswered \/ Talks
  <2>1. toServer' = <<StopOf(field)>>
    BY <1>1, <1>5, ShortQueues DEF Answered, Unanswered, Talks
  <2>2. ~Talking' /\ toPage' \in {<<>>, <<"ok">>, <<"busy">>} /\ Floors' \subseteq {field}
    BY <1>1, <1>5 DEF Answered, Unanswered, Talks, Granted
  <2>3. \E f \in Room : Stopped(f)'
    BY <1>2, <2>1, <2>2 DEF Stopped
  <2> QED BY <2>3 DEF Orderly
<1> QED BY <1>1, <1>3, <1>4, <1>5 DEF Obedient, Orderly, Silent, Stopped, Withdrawn,
                                      WithdrawnAgain

\* An answer comes.
LEMMA AckOrderly == ASSUME Obedient, ReceiveAck PROVE Orderly'
<1>1. /\ toPage # <<>> /\ toPage' = Tail(toPage) /\ toServer' = toServer
      /\ Floors' = Floors /\ field' = field
  BY DEF ReceiveAck, OnBusy, Stop, Floors
<1>0. expired' = expired
  BY DEF ReceiveAck, past
<1>2. CASE Answered
  <2>1. CASE toPage = <<"ok">>
    <3>1. Head(toPage) = "ok" /\ toPage' = <<>>
      BY <1>1, <2>1, ShortQueues
    <3>2. active'
      BY <1>2, <3>1 DEF ReceiveAck, OnBusy, Answered
    <3>3. Talks'
      BY <1>0, <1>1, <1>2, <2>1, <3>1, <3>2 DEF Answered, Talks, Granted
    <3> QED BY <3>3 DEF Orderly
  <2>2. CASE toPage = <<"busy">>
    <3>1. Head(toPage) = "busy" /\ toPage' = <<>>
      BY <1>1, <2>2, ShortQueues
    <3>2. ~Talking'
      BY <1>2, <3>1 DEF ReceiveAck, OnBusy, Answered, Stop, Talking
    <3>3. Floors = {}
      BY <1>2, <2>2 DEF Answered
    <3>4. Silent'
      BY <1>1, <1>2, <3>1, <3>2, <3>3 DEF Answered, Silent
    <3> QED BY <3>4 DEF Orderly
  <2> QED BY <1>2, <2>1, <2>2 DEF Answered
<1>3. ~Talking => ~Talking'
  BY DEF ReceiveAck, OnBusy, Stop, Talking, sim
<1>4. toPage \in {<<"ok">>, <<"busy">>} => toPage' = <<>>
  BY <1>1, ShortQueues
<1>5. CASE Silent
  BY <1>1, <1>3, <1>4, <1>5 DEF Silent, Orderly
<1>6. ASSUME NEW r \in Room, Stopped(r) PROVE Orderly'
  <2>1. Stopped(r)'
    BY <1>1, <1>3, <1>4, <1>6 DEF Stopped
  <2> QED BY <2>1 DEF Orderly
<1>7. Silent \/ Answered \/ \E r \in Room : Stopped(r)
  BY <1>1 DEF Obedient, Orderly, Asked, AskedAgain, Unanswered, Talks, Withdrawn,
              WithdrawnAgain
<1> QED BY <1>2, <1>5, <1>6, <1>7

\* The server answers a start.
LEMMA HandleStartOrderly == ASSUME Obedient, HandleStart PROVE Orderly'
<1>1. /\ field' = field /\ UNCHANGED <<pending, active>> /\ toServer # <<>>
      /\ Head(toServer).type = "start"
  BY DEF HandleStart, sim
<1>2. field \in Room
  BY DEF Obedient, TypeOK
<1>3. CASE Asked
  <2>1. Head(toServer) = Start(field) /\ Tail(toServer) = <<>>
    BY <1>3, ShortQueues DEF Asked
  <2>2. Append(toPage, "ok") = <<"ok">> /\ Append(toPage, "busy") = <<"busy">>
    BY <1>3, ShortQueues DEF Asked
  <2>3. /\ expired' = expired
        /\ \/ toPage' = <<>> /\ Floors' \subseteq Floors \union {field}
           \/ toPage' = <<"busy">> /\ Floors' = Floors
           \/ toPage' = <<"ok">> /\ Floors' = Floors \union {field}
    BY <1>2, <1>3, <2>1, <2>2, StartHandled DEF Obedient, Asked
  <2>4. toServer' = <<>> /\ Floors = {} /\ pending'
    BY <1>1, <1>3, <2>1 DEF HandleStart, Asked
  <2>5. Answered' \/ Unanswered'
    BY <1>1, <2>3, <2>4 DEF Answered, Unanswered, Granted
  <2> QED BY <2>5 DEF Orderly
<1>4. ASSUME NEW r \in Room, Withdrawn(r) PROVE Orderly'
  <2>1. Head(toServer) = Start(r) /\ Tail(toServer) = <<StopOf(r)>>
    BY <1>4, ShortQueues DEF Withdrawn
  <2>2. Append(toPage, "ok") = <<"ok">> /\ Append(toPage, "busy") = <<"busy">>
    BY <1>4, ShortQueues DEF Withdrawn
  <2>3. /\ toPage' \in {<<>>, <<"ok">>, <<"busy">>}
        /\ Floors' \subseteq Floors \union {r}
    BY <1>4, <2>1, <2>2, StartHandled DEF Obedient, Withdrawn
  <2>4. toServer' = <<StopOf(r)>> /\ Floors = {} /\ ~Talking'
    BY <1>1, <1>4, <2>1 DEF HandleStart, Withdrawn, Talking
  <2>5. Stopped(r)'
    BY <2>3, <2>4 DEF Stopped
  <2> QED BY <2>5 DEF Orderly
<1>5. \A r \in Room : ~Stopped(r) /\ ~AskedAgain(r)
  <2>1. \A r \in Room : Stopped(r) \/ AskedAgain(r) => Head(toServer) = StopOf(r)
    BY ShortQueues DEF Stopped, AskedAgain
  <2> QED BY <1>1, <2>1, Messages
<1>6. \A e, r \in Room : ~WithdrawnAgain(e, r)
  <2>1. \A e, r \in Room : WithdrawnAgain(e, r) => Head(toServer) = StopOf(e)
    BY ShortQueues DEF WithdrawnAgain
  <2> QED BY <1>1, <2>1, Messages
<1> QED BY <1>1, <1>3, <1>4, <1>5, <1>6 DEF Obedient, Orderly, Silent, Answered, Unanswered,
                                                     Talks

\* The server takes the floor back.
LEMMA HandleStopOrderly == ASSUME Obedient, HandleStop PROVE Orderly'
<1>1. /\ field' = field /\ UNCHANGED <<pending, active>> /\ toServer # <<>>
      /\ Head(toServer).type = "stop" /\ toServer' = Tail(toServer)
  BY DEF HandleStop, sim
<1>2. ASSUME NEW r \in Room, Stopped(r) PROVE Orderly'
  <2>1. Head(toServer) = StopOf(r) /\ Tail(toServer) = <<>>
    BY <1>2, ShortQueues DEF Stopped
  <2>2. toPage' = toPage /\ Floors' = Floors \ {r}
    BY <2>1, StopHandled DEF Obedient
  <2>3. Silent'
    BY <1>1, <1>2, <2>1, <2>2 DEF Stopped, Silent, Talking
  <2> QED BY <2>3 DEF Orderly
<1>3. ASSUME NEW r \in Room, AskedAgain(r) PROVE Orderly'
  <2>1. Head(toServer) = StopOf(r) /\ Tail(toServer) = <<Start(field)>>
    BY <1>3, ShortQueues DEF AskedAgain
  <2>2. toPage' = toPage /\ Floors' = Floors \ {r}
    BY <2>1, StopHandled DEF Obedient
  <2>3. Asked'
    BY <1>1, <1>3, <2>1, <2>2 DEF AskedAgain, Asked
  <2> QED BY <2>3 DEF Orderly
<1>4. ASSUME NEW e \in Room, NEW r \in Room, WithdrawnAgain(e, r) PROVE Orderly'
  <2>1. Head(toServer) = StopOf(e) /\ Tail(toServer) = <<Start(r), StopOf(r)>>
    BY <1>4, ShortQueues DEF WithdrawnAgain
  <2>2. toPage' = toPage /\ Floors' = Floors \ {e}
    BY <2>1, StopHandled DEF Obedient
  <2>3. Withdrawn(r)'
    BY <1>1, <1>4, <2>1, <2>2 DEF WithdrawnAgain, Withdrawn, Talking
  <2> QED BY <2>3 DEF Orderly
<1>5. ~Asked
  <2>1. Asked => Head(toServer) = Start(field)
    BY ShortQueues DEF Asked
  <2> QED BY <1>1, <2>1, Messages
<1>6. \A r \in Room : ~Withdrawn(r)
  <2>1. \A r \in Room : Withdrawn(r) => Head(toServer) = Start(r)
    BY ShortQueues DEF Withdrawn
  <2> QED BY <1>1, <2>1, Messages
<1> QED BY <1>1, <1>2, <1>3, <1>4, <1>5, <1>6 DEF Obedient, Orderly, Silent, Answered, Unanswered,
                                                     Talks

\* Others talk, or the server ends a talk.
LEMMA OthersOrderly ==
  ASSUME Obedient, Evict \/ \E r \in Room : OthersTalk(r) \/ IdleTimeout(r)
  PROVE  Orderly'
<1>1. /\ UNCHANGED <<pending, active, field, toServer, toPage>>
      /\ \/ Floors' = Floors /\ expired' = expired
         \/ Floors' \subseteq Floors /\ expired'
  <2>1. CASE \E r \in Room : OthersTalk(r)
    BY <2>1, OthersFloors DEF OthersTalk, sim, past, Obedient
  <2>2. CASE Evict \/ \E r \in Room : IdleTimeout(r)
    BY <2>2, ServerEnds DEF Evict, IdleTimeout, sim, Obedient
  <2> QED BY <2>1, <2>2
<1> QED BY <1>1 DEF Obedient, Orderly, Silent, Asked, Answered, Unanswered, Talks, Granted,
                    Stopped, AskedAgain, Withdrawn, WithdrawnAgain, Talking

\* Every step of anybody.
LEMMA OrderlyStep ==
  PageInv /\ [Next]_vars => (ws' = "open" /\ ~strayed' => Orderly')
<1> SUFFICES ASSUME PageInv, [Next]_vars, ws' = "open", ~strayed' PROVE Orderly'
  OBVIOUS
<1>1. CASE Opened
  BY <1>1, OpenedOrderly
<1>2. CASE UNCHANGED vars
  <2>1. UNCHANGED <<ws, pending, active, field, toServer, toPage, speaker, strayed, expired>>
    BY <1>2 DEF vars, sim, past
  <2> QED BY <2>1 DEF PageInv, Orderly, Silent, Asked, Answered, Unanswered, Talks, Granted,
                      Stopped, AskedAgain, Withdrawn, WithdrawnAgain, Talking, Floors
<1>3. ~(Connect \/ Closing \/ Closed)
  BY DEF Connect, Closing, Closed
<1>4. CASE EditRoom \/ RequestStart \/ PressStop \/ ReceiveAck \/ HandleStart \/ HandleStop
           \/ Evict \/ \E r \in Room : OthersTalk(r) \/ IdleTimeout(r)
  <2>1. ws = "open" /\ ~strayed
    <3>1. CASE EditRoom
      BY <3>1 DEF EditRoom
    <3>2. CASE RequestStart
      BY <3>2 DEF RequestStart
    <3>3. CASE PressStop \/ ReceiveAck
      <4>1. ws = "open" /\ strayed' = strayed
        BY <3>3 DEF PressStop, ReceiveAck, past
      <4> QED BY <4>1
    <3>4. CASE HandleStart
      BY <3>4 DEF HandleStart
    <3>5. CASE HandleStop
      BY <3>5 DEF HandleStop, past
    <3>6. CASE Evict \/ \E r \in Room : OthersTalk(r) \/ IdleTimeout(r)
      BY <3>6 DEF Evict, OthersTalk, IdleTimeout, past
    <3> QED BY <1>4, <3>1, <3>2, <3>3, <3>4, <3>5, <3>6
  <2>2. Obedient
    BY <2>1 DEF PageInv, Obedient
  <2> QED BY <1>4, <2>2, EditOrderly, RequestOrderly, StopOrderly, AckOrderly,
             HandleStartOrderly, HandleStopOrderly, OthersOrderly
<1>5. ~Tick
  BY DEF Tick, PageInv, TimerIffActive
<1> QED BY <1>1, <1>2, <1>3, <1>4, <1>5 DEF Next, Page, Server

\* The invariant from the start on.
LEMMA PageInvariant == Spec => []PageInv
<1>1. Init => PageInv
  <2> SUFFICES ASSUME Init PROVE PageInv
    OBVIOUS
  <2>1. TypeOK
    <3>1. toServer \in Seq(Requests) /\ toPage \in Seq({"ok", "busy"})
      BY DEF Init
    <3>2. speaker \in [Room -> Speakers]
      BY DEF Init, Speakers
    <3> QED BY <3>1, <3>2 DEF Init, TypeOK
  <2> QED BY <2>1 DEF Init, PageInv, TimerIffActive, Apart, Floors
<1>2. PageInv /\ [Next]_vars => PageInv'
  BY PageTypes, PageTimer, ApartStep, OrderlyStep DEF PageInv
<1> QED BY <1>1, <1>2, PTL DEF Spec

-----------------------------------------------------------------------------
\* The interval that sends audio runs exactly while the page talks, for any number of
\* rooms and of messages under way (intercom-listener.html, the simulator).
THEOREM TimerFollowsTalk == Spec => []TimerIffActive
<1>1. PageInv => TimerIffActive
  BY DEF PageInv
<1> QED BY <1>1, PageInvariant, PTL

\* A user who waits for each answer, and leaves the room alone during a talk, is told
\* who has the floor, though answers do not say what they answer and may be dropped,
\* and though a talk may be withdrawn before it is granted. What the page is not told is
\* that the server has ended its talk (hub.go:694-702, 770-776).
THEOREM PageIsToldTheTruth == Spec => []PageKnowsFloor
<1>1. PageInv => PageKnowsFloor
  <2> SUFFICES ASSUME PageInv, ws = "open", Settled, ~strayed, NEW r \in Room
               PROVE  /\ speaker[r] = "page" => Talking /\ r = field
                      /\ active /\ r = field /\ ~expired => speaker[r] = "page"
    BY DEF PageKnowsFloor
  <2>1. Silent \/ Unanswered \/ Talks
    BY DEF PageInv, Settled, Orderly, Asked, Answered, Stopped, AskedAgain, Withdrawn,
           WithdrawnAgain
  <2>2. r \in Floors <=> speaker[r] = "page"
    BY DEF Floors
  <2>3. CASE Silent
    BY <2>2, <2>3 DEF Silent, Talking
  <2>4. CASE Talks
    BY <2>2, <2>4 DEF Talks, Granted, Talking
  <2>5. CASE Unanswered
    BY <2>2, <2>5 DEF PageInv, TypeOK, Unanswered, Talking
  <2> QED BY <2>1, <2>3, <2>4, <2>5
<1> QED BY <1>1, PageInvariant, PTL

\* Answers do not name their request; yet the one that an orderly user's pending request
\* finds is its own: no other request or answer is under way, "busy" means that the page
\* has no floor, and "ok" that it has the one it asked for and no other, as long as the
\* server has not ended the talk by itself.
AnswerBelongs ==
    ws = "open" /\ ~strayed /\ pending /\ toPage # <<>> =>
        /\ toServer = <<>> /\ Tail(toPage) = <<>>
        /\ Head(toPage) = "busy" => \A r \in Room : speaker[r] # "page"
        /\ Head(toPage) = "ok" => \A r \in Room :
               /\ speaker[r] = "page" => r = field
               /\ r = field /\ ~expired => speaker[r] = "page"

\* What a page that waits for each answer makes of it is right (intercom-listener.html,
\* onmessage): no answer of a withdrawn request is taken for that of the next one.
THEOREM AnswersBelong == Spec => []AnswerBelongs
<1>1. PageInv => AnswerBelongs
  <2> SUFFICES ASSUME PageInv, ws = "open", ~strayed, pending, toPage # <<>>
               PROVE  /\ toServer = <<>> /\ Tail(toPage) = <<>>
                      /\ Head(toPage) = "busy" => Floors = {}
                      /\ Head(toPage) = "ok" => Granted
    BY DEF AnswerBelongs, Floors, Granted
  <2>1. Answered
    BY DEF PageInv, TypeOK, Orderly, Silent, Asked, Unanswered, Talks, Stopped, AskedAgain,
           Withdrawn, WithdrawnAgain, Talking
  <2>2. CASE toPage = <<"ok">> /\ Granted
    <3>1. Head(toPage) = "ok" /\ Tail(toPage) = <<>>
      BY <2>2, ShortQueues
    <3> QED BY <2>1, <2>2, <3>1 DEF Answered
  <2>3. CASE toPage = <<"busy">> /\ Floors = {}
    <3>1. Head(toPage) = "busy" /\ Tail(toPage) = <<>>
      BY <2>3, ShortQueues
    <3> QED BY <2>1, <2>3, <3>1 DEF Answered
  <2> QED BY <2>1, <2>2, <2>3 DEF Answered
<1> QED BY <1>1, PageInvariant, PTL
=============================================================================
