-------------------------- MODULE SnapshotsProofs --------------------------
(***************************************************************************)
(* Proofs about Snapshots, for every number of clients and every length of *)
(* the lists.                                                              *)
(***************************************************************************)
EXTENDS Snapshots, TLAPS, FiniteSetTheorems, SequenceTheorems

ListOf(t) == snap[t].list

\* Nothing has been read or numbered in the future.
PastInv ==
    /\ announced <= changes
    /\ \A t \in Takers : ListOf(t).at <= changes /\ ListOf(t).rev <= revision
    /\ \A c \in Client : /\ cast[c].at <= changes /\ cast[c].rev <= revision
                         /\ answer[c].at <= changes /\ answer[c].rev <= revision

\* Whoever puts a list together signs it, and lists of users have their length.
ListInv ==
    /\ \A t \in Takers : Busy(t) => ListOf(t).by = t
    /\ \A t \in Takers : ListOf(t).kind = "room_users"
                             => Cardinality(ListOf(t).seen) <= MaxRoomUsers

\* The hub's list is the room as it is.
HubListInv ==
    Busy(Hub) =>
        /\ ListOf(Hub).at = changes
        /\ ListOf(Hub).seen \in Selections(ListOf(Hub).kind)
        /\ speaker \in ListOf(Hub).seen => ListOf(Hub).mark = speaker
        /\ ListOf(Hub).kind = "room_users" /\ snap[Hub].step = "queue"
               => ListOf(Hub).cut = TooMany

\* The tasks of a handler, whatever their order.
Tasks(q) == {q[i] : i \in 1 .. Len(q)}

\* The hub is still to broadcast the users of the room.
WillTell == \/ \E t \in Tasks(todo) : t.do = "room_users"
            \/ Busy(Hub) /\ ListOf(Hub).kind = "room_users"

\* The hub is still to evict the client.
Condemned(c) == \E t \in Tasks(todo) : t.do = "evict" /\ c \in t.who

LatestInv == \A c \in clients :
    latest[c].by = Hub => WillTell \/ Condemned(c) \/ latest[c].at >= announced

Inv == /\ TypeOK
       /\ PastInv
       /\ ListInv
       /\ HubListInv
       /\ LowerIsOlder
       /\ LatestInv

USE SnapshotsAssumption DEF room, told, vars

\* What a client has before it is told anything is a list.
LEMMA NoneIsSnapshot == None \in Snapshot
BY DEF None, Snapshot, Kinds, Takers

\* The invariant holds at first: nobody is in the room and nobody has been told anything.
LEMMA InvInit == Init => Inv
<1> SUFFICES ASSUME Init PROVE Inv
  OBVIOUS
<1>1. Cardinality({}) = 0
  BY FS_EmptySet
<1>2. None \in Snapshot
  BY NoneIsSnapshot
<1>3. snap \in [Takers -> [step: Steps, list: Snapshot]]
  BY <1>2 DEF Init, Steps
<1>4. cast \in [Client -> Snapshot] /\ answer \in [Client -> Snapshot]
      /\ latest \in [Client -> Snapshot]
  BY <1>2 DEF Init
<1>5. \A c \in Client : Cardinality(latest[c].seen) <= MaxRoomUsers
  <2>1. 0 <= MaxRoomUsers
    OBVIOUS
  <2>2. \A c \in Client : latest[c].seen = {}
    BY DEF Init, None
  <2> QED
    BY <1>1, <2>1, <2>2
<1>6. TypeOK
  BY <1>3, <1>4, <1>5, EmptySeq DEF Init, TypeOK
<1>7. PastInv
  BY DEF Init, PastInv, ListOf, None
<1>8. ListInv /\ HubListInv
  <2>1. 0 <= MaxRoomUsers
    OBVIOUS
  <2>2. \A t \in Takers : snap[t].list.seen = {} /\ ~Busy(t)
    BY DEF Init, None, Busy
  <2> QED
    BY <1>1, <2>1, <2>2 DEF ListInv, HubListInv, ListOf, Takers
<1>9. LowerIsOlder /\ LatestInv
  BY DEF Init, LowerIsOlder, LatestInv, Numbered, None, Takers
<1> QED
  BY <1>6, <1>7, <1>8, <1>9 DEF Inv

\* A list of users is cut to its length, and is the whole room when it need not be.
LEMMA Selected == ASSUME TypeOK, NEW kind \in Kinds, NEW s \in Selections(kind)
                  PROVE  /\ s \in SUBSET clients
                         /\ kind = "room_users" => Cardinality(s) <= MaxRoomUsers
                         /\ kind = "room_users" => (TooMany <=> s # clients)
<1>1. Cardinality(clients) \in Nat
  BY FS_Subset, FS_CardinalityType DEF TypeOK
<1>2. CASE Cardinality(clients) <= MaxRoomUsers
  BY <1>1, <1>2 DEF Selections, TooMany
<1>3. CASE ~(Cardinality(clients) <= MaxRoomUsers)
  BY <1>1, <1>3 DEF Selections, TooMany
<1> QED
  BY <1>2, <1>3

\* What a handler has to do are tasks.
LEMMA TasksTyped ==
  /\ \A stale \in SUBSET Client : Evicting(stale) \in Seq(Task)
  /\ \A c \in Client : Releasing(c) \in Seq(Task)
  /\ ForChange \in Seq(Task) /\ TalkAndUsers \in Seq(Task)
  /\ <<>> \in Seq(Task)
<1>1. /\ Tell("talk") \in Task /\ Tell("room_users") \in Task /\ Tell("room_list") \in Task
      /\ \A stale \in SUBSET Client : [do |-> "evict", who |-> stale] \in Task
      /\ \A c \in Client : [do |-> "release", who |-> {c}] \in Task
  BY DEF Tell, Task, Kinds
<1>2. ForChange \in Seq(Task) /\ TalkAndUsers \in Seq(Task) /\ <<>> \in Seq(Task)
  BY <1>1 DEF ForChange, TalkAndUsers
<1>3. ASSUME NEW stale \in SUBSET Client PROVE Evicting(stale) \in Seq(Task)
  BY <1>1, <1>3 DEF Evicting
<1>4. ASSUME NEW c \in Client PROVE Releasing(c) \in Seq(Task)
  BY <1>1, <1>4 DEF Releasing
<1> QED BY <1>2, <1>3, <1>4

\* What is put before other tasks comes in addition to them.
LEMMA TasksJoined ==
  ASSUME NEW q \in Seq(Task), NEW r \in Seq(Task)
  PROVE  q \o r \in Seq(Task) /\ Tasks(q \o r) = Tasks(q) \cup Tasks(r)
<1>1. /\ q \o r \in Seq(Task) /\ Len(q \o r) = Len(q) + Len(r)
      /\ \A i \in 1 .. Len(q) + Len(r) :
             (q \o r)[i] = IF i <= Len(q) THEN q[i] ELSE r[i - Len(q)]
  BY ConcatProperties
<1>2. Len(q) \in Nat /\ Len(r) \in Nat
  OBVIOUS
<1>3. ASSUME NEW t \in Tasks(q \o r) PROVE t \in Tasks(q) \cup Tasks(r)
  <2>1. PICK i \in 1 .. Len(q) + Len(r) : t = IF i <= Len(q) THEN q[i] ELSE r[i - Len(q)]
    BY <1>1, <1>3 DEF Tasks
  <2>2. CASE i <= Len(q)
    BY <1>2, <2>1, <2>2 DEF Tasks
  <2>3. CASE ~(i <= Len(q))
    <3>1. i - Len(q) \in 1 .. Len(r)
      BY <1>2, <2>3
    <3> QED BY <2>1, <2>3, <3>1 DEF Tasks
  <2> QED BY <2>2, <2>3
<1>4. ASSUME NEW t \in Tasks(q) PROVE t \in Tasks(q \o r)
  <2>1. PICK i \in 1 .. Len(q) : t = q[i]
    BY <1>4 DEF Tasks
  <2>2. i \in 1 .. Len(q) + Len(r) /\ i <= Len(q)
    BY <1>2
  <2> QED BY <1>1, <2>1, <2>2 DEF Tasks
<1>5. ASSUME NEW t \in Tasks(r) PROVE t \in Tasks(q \o r)
  <2>1. PICK i \in 1 .. Len(r) : t = r[i]
    BY <1>5 DEF Tasks
  <2>2. /\ Len(q) + i \in 1 .. Len(q) + Len(r) /\ ~(Len(q) + i <= Len(q))
        /\ (Len(q) + i) - Len(q) = i
    BY <1>2
  <2> QED BY <1>1, <2>1, <2>2 DEF Tasks
<1> QED BY <1>1, <1>3, <1>4, <1>5

\* The first task, and the others.
LEMMA TasksHeadTail ==
  ASSUME NEW q \in Seq(Task), q # <<>>
  PROVE  /\ Head(q) \in Task /\ Tail(q) \in Seq(Task)
         /\ Tasks(q) = {Head(q)} \cup Tasks(Tail(q))
<1>1. /\ Len(q) \in Nat /\ Len(q) # 0 /\ Head(q) = q[1] /\ Head(q) \in Task
      /\ Tail(q) \in Seq(Task) /\ Len(Tail(q)) = Len(q) - 1
      /\ \A i \in 1 .. Len(Tail(q)) : Tail(q)[i] = q[i + 1]
  BY EmptySeq, HeadTailProperties
<1>2. ASSUME NEW t \in Tasks(q) PROVE t = Head(q) \/ t \in Tasks(Tail(q))
  <2>1. PICK i \in 1 .. Len(q) : t = q[i]
    BY <1>2 DEF Tasks
  <2>2. CASE i # 1
    <3>1. i - 1 \in 1 .. Len(Tail(q)) /\ (i - 1) + 1 = i
      BY <1>1, <2>2
    <3> QED BY <1>1, <2>1, <3>1 DEF Tasks
  <2> QED BY <1>1, <2>1, <2>2
<1>3. Head(q) \in Tasks(q)
  BY <1>1 DEF Tasks
<1>4. ASSUME NEW t \in Tasks(Tail(q)) PROVE t \in Tasks(q)
  <2>1. PICK i \in 1 .. Len(Tail(q)) : t = Tail(q)[i]
    BY <1>4 DEF Tasks
  <2>2. i + 1 \in 1 .. Len(q) /\ t = q[i + 1]
    BY <1>1, <2>1
  <2> QED BY <2>2 DEF Tasks
<1> QED BY <1>1, <1>2, <1>3, <1>4

\* The tasks of the lists that a handler begins with.
LEMMA TasksOf ==
  /\ Tasks(<<>>) = {}
  /\ Tell("room_users") \in Tasks(ForChange) /\ Tell("room_users") \in Tasks(TalkAndUsers)
  /\ Tell("room_users").do = "room_users"
  /\ \A stale \in SUBSET Client :
         stale # {} => [do |-> "evict", who |-> stale] \in Tasks(Evicting(stale))
<1>1. Tasks(<<>>) = {}
  BY DEF Tasks
<1>2. \A a, b : b \in Tasks(<<a, b>>)
  BY DEF Tasks
<1>3. \A a : a \in Tasks(<<a>>)
  BY DEF Tasks
<1> QED BY <1>1, <1>2, <1>3 DEF ForChange, TalkAndUsers, Evicting, Tell

\* What a handler, or the part of it that comes next, does to the state.
LEMMA ChangeEffect ==
  ASSUME TypeOK, Change
  PROVE  /\ ~Busy(Hub) /\ revision' = revision /\ snap' = snap
         /\ clients' \in SUBSET Client /\ speaker' \in Client \cup {Nobody}
         /\ reading' \in SUBSET Client
         /\ todo' \in Seq(Task)
         /\ \/ changes' = changes /\ announced' = announced
            \/ changes' = changes + 1 /\ announced' = announced
            \/ changes' = changes + 1 /\ announced' = changes + 1
         /\ \/ UNCHANGED told
            \/ \E c \in Client : /\ cast' = [cast EXCEPT ![c] = None]
                                /\ answer' = [answer EXCEPT ![c] = None]
                                /\ latest' = [latest EXCEPT ![c] = None]
<1> USE DEF MayChange, Quiet, Announced, Silent
<1>1. ASSUME NEW c \in Client, Register(c) \/ Start(c) PROVE todo' \in Seq(Task)
  BY <1>1, TasksTyped DEF Register, Start
<1>0. \A q \in Seq(Task), r \in Seq(Task) : q \o r \in Seq(Task)
  BY TasksJoined
<1>2. ASSUME NEW c \in Client, Unregister(c) PROVE todo' \in Seq(Task)
  <2>1. todo' = Releasing(c) \o ForChange \/ todo' = todo
    BY <1>2 DEF Unregister
  <2>2. Releasing(c) \o ForChange \in Seq(Task)
    BY <1>0, TasksTyped, Zenon
  <2>3. todo \in Seq(Task)
    BY DEF TypeOK
  <2> QED BY <2>1, <2>2, <2>3, Zenon
<1>3. ASSUME Stop \/ Relay PROVE todo' \in Seq(Task)
  BY <1>3, TasksTyped DEF Stop, Relay, TypeOK
<1>4. ASSUME Evict \/ Release \/ Talk PROVE todo' \in Seq(Task)
  <2>1. todo # <<>> /\ todo \in Seq(Task) /\ Head(todo) \in Task /\ Tail(todo) \in Seq(Task)
    BY <1>4, TasksHeadTail DEF Evict, Release, Talk, TypeOK
  <2>2. Head(todo).who \in SUBSET Client
    BY <2>1 DEF Task
  <2>3. CASE Evict
    <3>1. PICK c \in Head(todo).who :
              todo' = (IF c \in clients THEN Releasing(c) ELSE <<>>)
                      \o Evicting(Head(todo).who \ {c}) \o Tail(todo)
      BY <2>3 DEF Evict
    <3>2. c \in Client /\ Head(todo).who \ {c} \in SUBSET Client
      BY <2>2
    <3>3. /\ (IF c \in clients THEN Releasing(c) ELSE <<>>) \in Seq(Task)
          /\ Evicting(Head(todo).who \ {c}) \in Seq(Task)
      BY <3>2, TasksTyped, Zenon
    <3>4. ((IF c \in clients THEN Releasing(c) ELSE <<>>) \o Evicting(Head(todo).who \ {c}))
              \o Tail(todo) \in Seq(Task)
      BY <1>0, <2>1, <3>3, Zenon
    <3> QED BY <3>1, <3>4, Zenon
  <2>4. CASE Release
    <3>1. todo' = TalkAndUsers \o Tail(todo)
      BY <2>4 DEF Release
    <3>2. TalkAndUsers \o Tail(todo) \in Seq(Task)
      BY <1>0, <2>1, TasksTyped, Zenon
    <3> QED BY <3>1, <3>2, Zenon
  <2>5. CASE Talk
    <3>1. PICK stale \in SUBSET clients : todo' = Evicting(stale) \o Tail(todo)
      BY <2>5 DEF Talk
    <3>2. stale \in SUBSET Client
      BY DEF TypeOK
    <3>3. Evicting(stale) \in Seq(Task)
      BY <3>2, TasksTyped
    <3>4. Evicting(stale) \o Tail(todo) \in Seq(Task)
      BY <1>0, <2>1, <3>3, Zenon
    <3> QED BY <3>1, <3>4, Zenon
  <2> QED BY <1>4, <2>3, <2>4, <2>5
<1>5. ~Busy(Hub) /\ revision' = revision /\ snap' = snap
  BY DEF Change, Register, Unregister, Start, Stop, Relay, Evict, Release, Talk
<1>6. /\ clients' \in SUBSET Client /\ speaker' \in Client \cup {Nobody}
      /\ reading' \in SUBSET Client
  BY DEF TypeOK, Change, Register, Unregister, Start, Stop, Relay, Evict, Release, Talk
<1>7. \/ changes' = changes /\ announced' = announced
      \/ changes' = changes + 1 /\ announced' = announced
      \/ changes' = changes + 1 /\ announced' = changes + 1
  BY DEF Change, Register, Unregister, Start, Stop, Relay, Evict, Release, Talk
<1>8. \/ UNCHANGED told
      \/ \E c \in Client : /\ cast' = [cast EXCEPT ![c] = None]
                          /\ answer' = [answer EXCEPT ![c] = None]
                          /\ latest' = [latest EXCEPT ![c] = None]
  BY DEF Change, Register, Unregister, Start, Stop, Relay, Evict, Release, Talk
<1> QED BY <1>1, <1>2, <1>3, <1>4, <1>5, <1>6, <1>7, <1>8 DEF Change

\* Whenever clients are to be told of a change, the hub has a list of users to
\* broadcast; it evicts nobody whom it has not condemned.
LEMMA LatestChange == ASSUME TypeOK, LatestInv, Change PROVE LatestInv'
<1>0. todo \in Seq(Task) /\ todo' \in Seq(Task) /\ ~Busy(Hub)
  BY ChangeEffect DEF TypeOK
<1>1. ASSUME Tell("room_users") \in Tasks(todo') PROVE LatestInv'
  BY <1>1, TasksOf DEF LatestInv, WillTell
<1>2. ForChange \in Seq(Task) /\ TalkAndUsers \in Seq(Task)
  BY TasksTyped
<1>3. ASSUME NEW c \in Client, Register(c) \/ Start(c) PROVE LatestInv'
  BY <1>1, <1>3, TasksOf DEF Register, Start
<1>4. CASE Stop
  BY <1>1, <1>4, TasksOf DEF Stop
<1>5. ASSUME NEW c \in Client, Unregister(c) PROVE LatestInv'
  <2>1. CASE c \in clients
    <3>1. todo' = Releasing(c) \o ForChange
      BY <1>5, <2>1 DEF Unregister
    <3> QED BY <1>1, <1>2, <3>1, TasksTyped, TasksJoined, TasksOf
  <2>2. CASE c \notin clients
    <3>1. /\ clients' = clients /\ UNCHANGED <<announced, todo, latest, snap>>
      BY <1>5, <2>2 DEF Unregister
    <3> QED BY <3>1 DEF LatestInv, WillTell, Condemned, Busy, ListOf
  <2> QED BY <2>1, <2>2
<1>6. CASE Relay
  <2>1. todo = <<>> /\ clients' = clients /\ announced' = announced /\ latest' = latest
    BY <1>6 DEF Relay, MayChange, Quiet
  <2>2. \A c \in clients : latest[c].by = Hub => latest[c].at >= announced
    BY <1>0, <2>1, TasksOf DEF LatestInv, WillTell, Condemned
  <2> QED BY <2>1, <2>2 DEF LatestInv
<1>7. CASE Evict
  <2>1. PICK c \in Head(todo).who :
            /\ clients' = clients \ {c}
            /\ todo' = (IF c \in clients THEN Releasing(c) ELSE <<>>)
                       \o Evicting(Head(todo).who \ {c}) \o Tail(todo)
    BY <1>7 DEF Evict
  <2>2. /\ todo # <<>> /\ Head(todo).do = "evict" /\ announced' = announced /\ latest' = latest
    BY <1>7 DEF Evict, Silent
  <2>3. /\ Head(todo) \in Task /\ Tail(todo) \in Seq(Task)
        /\ Tasks(todo) = {Head(todo)} \cup Tasks(Tail(todo))
    BY <1>0, <2>2, TasksHeadTail
  <2> DEFINE others == Head(todo).who \ {c}
             freed == IF c \in clients THEN Releasing(c) ELSE <<>>
  <2>4. others \in SUBSET Client /\ c \in Client
    BY <2>3 DEF Task
  <2>5. freed \in Seq(Task) /\ Evicting(others) \in Seq(Task)
    BY <2>4, TasksTyped
  <2>6. Tasks(todo') = Tasks(freed) \cup Tasks(Evicting(others)) \cup Tasks(Tail(todo))
    <3>1. freed \o Evicting(others) \in Seq(Task)
      BY <2>5, TasksJoined
    <3>2. Tasks(freed \o Evicting(others)) = Tasks(freed) \cup Tasks(Evicting(others))
      BY <2>5, TasksJoined
    <3>3. todo' = (freed \o Evicting(others)) \o Tail(todo)
      BY <2>1
    <3> HIDE DEF freed, others
    <3>4. Tasks(todo') = Tasks(freed \o Evicting(others)) \cup Tasks(Tail(todo))
      BY <2>3, <3>1, <3>3, TasksJoined
    <3> QED BY <3>2, <3>4
  <2>7. others # {} => [do |-> "evict", who |-> others] \in Tasks(Evicting(others))
    BY <2>4, TasksOf
  <2> SUFFICES ASSUME NEW d \in clients', latest[d].by = Hub, ~(latest[d].at >= announced)
               PROVE  WillTell' \/ Condemned(d)'
    BY <2>2 DEF LatestInv
  <2>8. d \in clients /\ d # c
    BY <2>1
  <2>9. WillTell \/ Condemned(d)
    BY <2>8 DEF LatestInv
  <2>10. CASE WillTell
    <3>1. PICK t \in Tasks(todo) : t.do = "room_users"
      BY <1>0, <2>10 DEF WillTell
    <3>2. t \in Tasks(Tail(todo))
      BY <2>2, <2>3, <3>1
    <3> HIDE DEF freed, others
    <3>3. t \in Tasks(todo')
      BY <2>6, <3>2
    <3> QED BY <3>1, <3>3 DEF WillTell
  <2>11. CASE Condemned(d)
    <3>1. PICK t \in Tasks(todo) : t.do = "evict" /\ d \in t.who
      BY <2>11 DEF Condemned
    <3>2. CASE t = Head(todo)
      <4>1. d \in others
        BY <2>8, <3>1, <3>2
      <4> HIDE DEF freed, others
      <4>2. [do |-> "evict", who |-> others] \in Tasks(todo')
        BY <2>6, <2>7, <4>1
      <4> QED BY <4>1, <4>2 DEF Condemned
    <3>3. CASE t \in Tasks(Tail(todo))
      <4> HIDE DEF freed, others
      <4>1. t \in Tasks(todo')
        BY <2>6, <3>3
      <4> QED BY <3>1, <4>1 DEF Condemned
    <3> QED BY <2>3, <3>2, <3>3
  <2> QED BY <2>9, <2>10, <2>11
<1>8. CASE Release
  <2>1. todo # <<>> /\ todo' = TalkAndUsers \o Tail(todo)
    BY <1>8 DEF Release
  <2>2. Tasks(todo') = Tasks(TalkAndUsers) \cup Tasks(Tail(todo))
    BY <1>0, <1>2, <2>1, TasksHeadTail, TasksJoined
  <2> QED BY <1>1, <2>2, TasksOf
<1>9. CASE Talk
  <2>1. PICK stale \in SUBSET clients : todo' = Evicting(stale) \o Tail(todo)
    BY <1>9 DEF Talk
  <2>2. /\ todo # <<>> /\ Head(todo).do = "talk" /\ UNCHANGED <<clients, announced, latest>>
    BY <1>9 DEF Talk
  <2>3. Evicting(stale) \in Seq(Task)
    BY TasksTyped DEF TypeOK
  <2>4. /\ Tasks(todo) = {Head(todo)} \cup Tasks(Tail(todo))
        /\ Tasks(Tail(todo)) \subseteq Tasks(todo')
    <3>1. Tail(todo) \in Seq(Task) /\ Tasks(todo) = {Head(todo)} \cup Tasks(Tail(todo))
      BY <1>0, <2>2, TasksHeadTail
    <3>2. Tasks(todo') = Tasks(Evicting(stale)) \cup Tasks(Tail(todo))
      BY <2>1, <2>3, <3>1, TasksJoined, Zenon
    <3> QED BY <3>1, <3>2
  <2>5. WillTell => WillTell'
    <3>1. WillTell => \E t \in Tasks(todo') : t.do = "room_users"
      BY <1>0, <2>2, <2>4 DEF WillTell
    <3> QED BY <3>1 DEF WillTell
  <2>6. \A d : Condemned(d) => Condemned(d)'
    BY <2>2, <2>4 DEF Condemned
  <2> QED BY <2>2, <2>5, <2>6 DEF LatestInv
<1> QED BY <1>3, <1>4, <1>5, <1>6, <1>7, <1>8, <1>9 DEF Change

\* The handlers change the room only while the hub has no list under way, and
\* owe its clients a list of users from then on, unless the change is told to nobody.
LEMMA InvChange == ASSUME Inv, Change
                   PROVE  Inv'
<1> USE DEF Inv
<1>1. /\ ~Busy(Hub) /\ revision' = revision /\ snap' = snap
      /\ todo' \in Seq(Task)
  BY ChangeEffect
<1>2. /\ clients' \in SUBSET Client /\ speaker' \in Client \cup {Nobody}
      /\ reading' \in SUBSET Client
  BY ChangeEffect
<1>0. \/ changes' = changes /\ announced' = announced
      \/ changes' = changes + 1 /\ announced' = announced
      \/ changes' = changes + 1 /\ announced' = changes + 1
  BY ChangeEffect
<1>3. \/ UNCHANGED told
      \/ \E c \in Client : /\ cast' = [cast EXCEPT ![c] = None]
                          /\ answer' = [answer EXCEPT ![c] = None]
                          /\ latest' = [latest EXCEPT ![c] = None]
  BY ChangeEffect
<1>4. TypeOK'
  <2>1. /\ cast' \in [Client -> Snapshot] /\ answer' \in [Client -> Snapshot]
        /\ latest' \in [Client -> Snapshot]
    BY <1>3, NoneIsSnapshot DEF TypeOK
  <2>2. \A c \in Client : latest'[c] = latest[c] \/ latest'[c].seen = {}
    BY <1>3 DEF TypeOK, None
  <2>3. \A c \in Client : Cardinality(latest'[c].seen) <= MaxRoomUsers
    <3>1. Cardinality({}) = 0 /\ 0 <= MaxRoomUsers
      BY FS_EmptySet
    <3> QED
      BY <2>2, <3>1 DEF TypeOK
  <2> QED
    BY <1>0, <1>1, <1>2, <2>1, <2>3 DEF TypeOK
<1>5. \A c \in Client : /\ cast'[c] \in {cast[c], None} /\ answer'[c] \in {answer[c], None}
                       /\ (cast'[c] = cast[c] \/ (cast'[c] = None /\ answer'[c] = None))
  <2>1. CASE UNCHANGED told
    BY <2>1
  <2>2. ASSUME NEW d \in Client, cast' = [cast EXCEPT ![d] = None],
               answer' = [answer EXCEPT ![d] = None]
        PROVE  \A c \in Client :
                   /\ cast'[c] \in {cast[c], None} /\ answer'[c] \in {answer[c], None}
                   /\ (cast'[c] = cast[c] \/ (cast'[c] = None /\ answer'[c] = None))
    BY <2>2 DEF TypeOK
  <2> QED
    BY <1>3, <2>1, <2>2
<1>6. PastInv'
  <2>1. revision \in Nat /\ changes \in Nat /\ None.at = 0 /\ None.rev = 0
    BY DEF TypeOK, None
  <2>2. \A t \in Takers : snap[t].list.at \in Nat /\ snap[t].list.rev \in Nat
    BY DEF TypeOK, Snapshot
  <2>3. \A c \in Client : cast[c].at \in Nat /\ answer[c].at \in Nat
    BY DEF TypeOK, Snapshot
  <2>0. changes <= changes' /\ announced' <= changes' /\ changes' \in Nat
    BY <1>0, <2>1 DEF PastInv, TypeOK
  <2>4. \A c \in Client : /\ cast'[c].at <= changes' /\ cast'[c].rev <= revision
                         /\ answer'[c].at <= changes' /\ answer'[c].rev <= revision
    BY <1>5, <2>0, <2>1, <2>3 DEF PastInv
  <2>5. \A t \in Takers : snap[t].list.at <= changes' /\ snap[t].list.rev <= revision
    BY <2>0, <2>1, <2>2 DEF PastInv, ListOf
  <2> QED
    BY <1>1, <2>0, <2>4, <2>5 DEF PastInv, ListOf
<1>7. ListInv' /\ HubListInv'
  BY <1>1 DEF ListInv, HubListInv, ListOf, Busy
<1>8. LowerIsOlder'
  <2> SUFFICES ASSUME NEW c \in Client
               PROVE  /\ answer'[c].rev < cast'[c].rev => answer'[c].at <= cast'[c].at
                      /\ Numbered(c)' /\ snap'[c].list.rev < cast'[c].rev
                             => snap'[c].list.at <= cast'[c].at
    BY DEF LowerIsOlder
  <2>1. /\ answer[c].rev \in Nat /\ snap[c].list.rev \in Nat
        /\ None.rev = 0 /\ None.at = 0 /\ answer[c].at \in Nat
    BY DEF TypeOK, Snapshot, None, Takers
  <2>2. CASE cast'[c] = cast[c]
    <3>1. cast[c].rev \in Nat /\ cast[c].at \in Nat
      BY DEF TypeOK, Snapshot
    <3>2. CASE answer'[c] = answer[c]
      BY <1>1, <2>2, <3>2 DEF LowerIsOlder, Numbered
    <3>3. CASE answer'[c] = None
      BY <1>1, <2>1, <2>2, <3>1, <3>3 DEF LowerIsOlder, Numbered
    <3> QED
      BY <1>5, <3>2, <3>3
  <2>3. CASE cast'[c] = None /\ answer'[c] = None
    BY <1>1, <2>1, <2>3 DEF Numbered
  <2> QED
    BY <1>5, <2>2, <2>3
<1>9. LatestInv'
  BY LatestChange
<1> QED
  BY <1>4, <1>6, <1>7, <1>8, <1>9

\* What all steps that put a list together leave alone and keep.
LEMMA SnapTyped == ASSUME TypeOK, NEW t \in Takers, NEW step \in Steps, NEW list \in Snapshot,
                          UNCHANGED <<room, told>>, reading' \in SUBSET Client,
                          revision' \in Nat, todo' \in Seq(Task),
                          snap' = [snap EXCEPT ![t] = [step |-> step, list |-> list]]
                   PROVE  TypeOK'
<1>1. snap' \in [Takers -> [step: Steps, list: Snapshot]]
  BY DEF TypeOK
<1> QED
  BY <1>1 DEF TypeOK

\* A list that has just been read is the room as it is.
LEMMA InvRead == ASSUME Inv, NEW t \in Takers, NEW kind \in Kinds, ReadRoom(t, kind), ~Busy(t),
                        UNCHANGED <<room, reading, revision, told>>,
                        IF t = Hub THEN /\ todo' = Tail(todo)
                                        /\ todo # <<>> /\ Head(todo).do = kind
                                   ELSE todo' = todo
                 PROVE  Inv'
<1> USE DEF Inv
<1>1. PICK s \in Selections(kind) :
          snap' = [snap EXCEPT ![t] =
            [step |-> "number",
             list |-> [kind |-> kind, by |-> t, seen |-> s,
                       mark |-> IF speaker \in s THEN speaker ELSE Nobody,
                       at |-> changes, rev |-> 0, cut |-> FALSE]]]
  BY DEF ReadRoom
<1> DEFINE list == [kind |-> kind, by |-> t, seen |-> s,
                    mark |-> IF speaker \in s THEN speaker ELSE Nobody,
                    at |-> changes, rev |-> 0, cut |-> FALSE]
<1>2. snap' = [snap EXCEPT ![t] = [step |-> "number", list |-> list]]
  BY <1>1
<1>3. /\ s \in SUBSET clients
      /\ kind = "room_users" => Cardinality(s) <= MaxRoomUsers
  BY Selected
<1>4. list \in Snapshot
  BY <1>3 DEF TypeOK, Snapshot
<1>0. todo' \in Seq(Task)
  BY TasksHeadTail DEF TypeOK
<1>5. TypeOK'
  BY <1>0, <1>2, <1>4, SnapTyped DEF Steps, TypeOK
<1>6. /\ snap'[t] = [step |-> "number", list |-> list]
      /\ \A u \in Takers \ {t} : snap'[u] = snap[u]
  BY <1>2 DEF TypeOK
<1> HIDE DEF list
<1>7. /\ list.kind = kind /\ list.by = t /\ list.seen = s /\ list.at = changes
      /\ list.rev = 0 /\ (speaker \in s => list.mark = speaker)
  BY DEF list
<1>8. PastInv'
  BY <1>6, <1>7 DEF PastInv, ListOf, TypeOK
<1>9. ListInv'
  BY <1>3, <1>6, <1>7 DEF ListInv, ListOf, Busy
<1>10. HubListInv'
  <2>1. CASE t = Hub
    BY <2>1, <1>6, <1>7 DEF HubListInv, ListOf, Busy, Selections
  <2>2. CASE t # Hub
    BY <2>2, <1>6 DEF HubListInv, ListOf, Busy, Selections, TooMany, Takers
  <2> QED
    BY <2>1, <2>2
<1>11. LowerIsOlder'
  BY <1>6 DEF LowerIsOlder, Numbered, Takers
<1>12. LatestInv'
  <2>1. CASE t = Hub
    <3>1. CASE kind = "room_users"
      BY <2>1, <3>1, <1>6, <1>7 DEF LatestInv, WillTell, ListOf, Busy
    <3>2. CASE kind # "room_users"
      <4>1. /\ Tasks(todo) = {Head(todo)} \cup Tasks(Tail(todo)) /\ ~Busy(Hub)
            /\ todo' = Tail(todo) /\ Head(todo).do = kind
        <5>1. ~Busy(Hub)
          BY <2>1 DEF Busy
        <5> QED
          BY <2>1, <5>1, TasksHeadTail DEF TypeOK
      <4>2. WillTell => WillTell'
        BY <3>2, <4>1 DEF WillTell
      <4>3. \A c : Condemned(c) => Condemned(c)'
        <5>1. Head(todo).do # "evict"
          BY <4>1 DEF Kinds
        <5> QED
          BY <4>1, <5>1 DEF Condemned
      <4> QED
        BY <4>2, <4>3 DEF LatestInv
    <3> QED
      BY <3>1, <3>2
  <2>2. CASE t # Hub
    BY <2>2, <1>6 DEF LatestInv, WillTell, Condemned, ListOf, Busy, Takers
  <2> QED
    BY <2>1, <2>2
<1> QED
  BY <1>5, <1>8, <1>9, <1>10, <1>11, <1>12

\* A number that is drawn is higher than any drawn before.
LEMMA InvDraw == ASSUME Inv, NEW t \in Takers, DrawNumber(t)
                 PROVE  Inv'
<1> USE DEF Inv
<1> DEFINE step == IF snap[t].list.kind = "room_users" THEN "count" ELSE "queue"
           list == [snap[t].list EXCEPT !.rev = revision + 1]
<1>1. snap' = [snap EXCEPT ![t] = [step |-> step, list |-> list]]
  BY DEF DrawNumber
<1>2. snap[t].list \in Snapshot /\ revision \in Nat /\ snap[t].step = "number"
  BY DEF TypeOK, DrawNumber
<1>0. revision' = revision + 1 /\ UNCHANGED <<room, reading, todo, told>>
  BY DEF DrawNumber
<1>3. list \in Snapshot /\ step \in Steps
  BY <1>2 DEF Snapshot, Steps
<1>4. TypeOK'
  BY <1>0, <1>1, <1>2, <1>3, SnapTyped DEF TypeOK
<1>5. /\ list.kind = snap[t].list.kind /\ list.by = snap[t].list.by
      /\ list.seen = snap[t].list.seen /\ list.at = snap[t].list.at
      /\ list.rev = revision + 1 /\ list.mark = snap[t].list.mark
      /\ step # "idle" /\ (list.kind = "room_users" => step = "count")
  BY <1>2 DEF Snapshot
<1>6. /\ snap'[t] = [step |-> step, list |-> list]
      /\ \A u \in Takers \ {t} : snap'[u] = snap[u]
  BY <1>1 DEF TypeOK
<1> HIDE DEF list, step
<1>7. PastInv'
  <2>1. \A u \in Takers : snap'[u].list.at <= changes /\ snap'[u].list.rev <= revision + 1
    <3> TAKE u \in Takers
    <3>1. snap[u].list.rev \in Nat
      BY DEF TypeOK, Snapshot
    <3>2. CASE u = t
      BY <3>2, <1>2, <1>5, <1>6 DEF PastInv, ListOf
    <3>3. CASE u # t
      BY <3>1, <3>3, <1>2, <1>6 DEF PastInv, ListOf
    <3> QED
      BY <3>2, <3>3
  <2>2. \A c \in Client : cast[c].rev \in Nat /\ answer[c].rev \in Nat
    BY DEF TypeOK, Snapshot
  <2> QED
    BY <1>0, <1>2, <2>1, <2>2 DEF PastInv, ListOf
<1>8. ListInv'
  BY <1>0, <1>2, <1>5, <1>6 DEF ListInv, ListOf, Busy
<1>9. HubListInv'
  BY <1>0, <1>2, <1>5, <1>6 DEF HubListInv, ListOf, Busy, Selections, TooMany, Takers
<1>10. LowerIsOlder'
  <2>1. \A c \in Client : cast[c].rev \in Nat /\ cast[c].rev <= revision
    BY DEF TypeOK, Snapshot, PastInv
  <2> QED
    BY <1>0, <1>2, <1>5, <1>6, <2>1 DEF LowerIsOlder, Numbered, Takers
<1>11. LatestInv'
  BY <1>0, <1>2, <1>5, <1>6 DEF LatestInv, WillTell, Condemned, ListOf, Busy, Takers
<1> QED
  BY <1>4, <1>7, <1>8, <1>9, <1>10, <1>11

\* Counting the room changes nothing but "truncated".
LEMMA InvCount == ASSUME Inv, NEW t \in Takers, Count(t)
                  PROVE  Inv'
<1> USE DEF Inv
<1> DEFINE list == [snap[t].list EXCEPT !.cut = TooMany]
<1>1. snap' = [snap EXCEPT ![t] = [step |-> "queue", list |-> list]]
  BY DEF Count
<1>2. snap[t].list \in Snapshot /\ snap[t].step = "count" /\ TooMany \in BOOLEAN
  BY DEF TypeOK, TooMany, Count
<1>0. UNCHANGED <<room, reading, revision, todo, told>>
  BY DEF Count
<1>3. list \in Snapshot
  BY <1>2 DEF Snapshot
<1>4. TypeOK'
  BY <1>0, <1>1, <1>3, SnapTyped DEF TypeOK, Steps
<1>5. /\ list.kind = snap[t].list.kind /\ list.by = snap[t].list.by
      /\ list.seen = snap[t].list.seen /\ list.at = snap[t].list.at
      /\ list.rev = snap[t].list.rev /\ list.mark = snap[t].list.mark
      /\ list.cut = TooMany
  BY <1>2 DEF Snapshot
<1>6. /\ snap'[t] = [step |-> "queue", list |-> list]
      /\ \A u \in Takers \ {t} : snap'[u] = snap[u]
  BY <1>1 DEF TypeOK
<1> HIDE DEF list
<1>7. PastInv'
  BY <1>0, <1>5, <1>6 DEF PastInv, ListOf
<1>8. ListInv'
  BY <1>0, <1>2, <1>5, <1>6 DEF ListInv, ListOf, Busy
<1>9. HubListInv'
  BY <1>0, <1>2, <1>5, <1>6 DEF HubListInv, ListOf, Busy, Selections, TooMany, Takers
<1>10. LowerIsOlder'
  BY <1>0, <1>2, <1>5, <1>6 DEF LowerIsOlder, Numbered, Takers
<1>11. LatestInv'
  BY <1>0, <1>2, <1>5, <1>6 DEF LatestInv, WillTell, Condemned, ListOf, Busy, Takers
<1> QED
  BY <1>4, <1>7, <1>8, <1>9, <1>10, <1>11

\* A broadcast is as new as the room, so that nothing older than it is newer.
LEMMA InvBroadcast == ASSUME Inv, Broadcast
                      PROVE  Inv'
<1> USE DEF Inv
<1> DEFINE list == snap[Hub].list
<1>1. /\ list \in Snapshot /\ snap[Hub].step = "queue" /\ clients \in SUBSET Client
      /\ UNCHANGED <<room, reading, revision, answer>> /\ Busy(Hub)
  BY DEF Broadcast, TypeOK, Busy, Takers
<1>2. PICK stale \in SUBSET clients :
      /\ cast' = [c \in Client |-> IF c \in clients \ stale THEN list ELSE cast[c]]
      /\ latest' = [c \in Client |-> IF c \in clients \ stale /\ list.kind = "room_users"
                                     THEN list ELSE latest[c]]
      /\ todo' = Evicting(stale) \o todo
      /\ snap' = [snap EXCEPT ![Hub] = [step |-> "idle", list |-> None]]
  BY DEF Broadcast, Done
<1>3. list.at = changes /\ list.rev <= revision
  BY <1>1 DEF HubListInv, ListOf, PastInv, Takers
<1>4. /\ snap'[Hub] = [step |-> "idle", list |-> None]
      /\ \A u \in Client : snap'[u] = snap[u]
  BY <1>2 DEF TypeOK, Takers
<1>0. /\ todo' \in Seq(Task)
      /\ Tasks(todo') = Tasks(Evicting(stale)) \cup Tasks(todo)
  <2>1. Evicting(stale) \in Seq(Task)
    BY <1>1, TasksTyped
  <2> QED BY <1>2, <2>1, TasksJoined DEF TypeOK
<1> HIDE DEF list
<1>5. TypeOK'
  <2>1. snap' \in [Takers -> [step: Steps, list: Snapshot]]
    BY <1>2, NoneIsSnapshot DEF TypeOK, Steps
  <2>2. cast' \in [Client -> Snapshot] /\ latest' \in [Client -> Snapshot]
    BY <1>1, <1>2 DEF TypeOK
  <2>3. list.kind = "room_users" => Cardinality(list.seen) <= MaxRoomUsers
    BY DEF list, ListInv, ListOf, Takers
  <2>4. \A c \in Client : Cardinality(latest'[c].seen) <= MaxRoomUsers
    BY <1>2, <2>3 DEF TypeOK
  <2> QED
    BY <1>0, <1>1, <2>1, <2>2, <2>4 DEF TypeOK
<1>6. Cardinality(None.seen) <= MaxRoomUsers /\ None.rev = 0 /\ None.at = 0
  <2>1. Cardinality({}) = 0 /\ None.seen = {}
    BY FS_EmptySet DEF None
  <2> QED
    BY <2>1 DEF None
<1>7. PastInv'
  <2>1. revision \in Nat /\ changes \in Nat
    BY DEF TypeOK
  <2> QED
    BY <1>1, <1>2, <1>3, <1>4, <1>6, <2>1 DEF PastInv, ListOf, Takers
<1>8. ListInv' /\ HubListInv'
  BY <1>4, <1>6 DEF ListInv, HubListInv, ListOf, Busy, Takers
<1>9. LowerIsOlder'
  <2> SUFFICES ASSUME NEW c \in Client
               PROVE  /\ answer'[c].rev < cast'[c].rev => answer'[c].at <= cast'[c].at
                      /\ Numbered(c)' /\ snap'[c].list.rev < cast'[c].rev
                             => snap'[c].list.at <= cast'[c].at
    BY DEF LowerIsOlder
  <2>1. answer[c].at <= changes /\ snap[c].list.at <= changes
    BY DEF PastInv, ListOf, Takers
  <2>2. CASE cast'[c] = list
    BY <1>1, <1>3, <1>4, <2>1, <2>2
  <2>3. CASE cast'[c] = cast[c]
    BY <1>1, <1>4, <2>3 DEF LowerIsOlder, Numbered
  <2> QED
    BY <1>2, <2>2, <2>3
<1>10. LatestInv'
  <2> SUFFICES ASSUME NEW c \in clients, latest'[c].by = Hub, ~(latest'[c].at >= announced)
               PROVE  WillTell' \/ Condemned(c)'
    BY <1>1 DEF LatestInv
  <2>1. CASE c \in stale
    <3>1. [do |-> "evict", who |-> stale] \in Tasks(todo')
      BY <1>0, <1>1, <2>1, TasksOf
    <3> QED
      BY <2>1, <3>1 DEF Condemned
  <2>2. CASE c \notin stale /\ list.kind = "room_users"
    <3>1. latest'[c] = list
      BY <1>1, <1>2, <2>2
    <3>2. announced <= changes
      BY DEF PastInv
    <3> QED
      BY <1>3, <3>1, <3>2 DEF TypeOK
  <2>3. CASE c \notin stale /\ list.kind # "room_users"
    <3>1. latest'[c] = latest[c]
      BY <1>1, <1>2, <2>3
    <3>2. (\E t \in Tasks(todo) : t.do = "room_users") \/ Condemned(c)
      BY <2>3, <3>1 DEF LatestInv, WillTell, ListOf, list
    <3> QED
      BY <1>0, <3>2 DEF WillTell, Condemned
  <2> QED
    BY <2>1, <2>2, <2>3
<1> QED
  BY <1>5, <1>7, <1>8, <1>9, <1>10

\* An answer that is older than the last broadcast by its revision was so before
\* it was queued.
LEMMA InvAnswer == ASSUME Inv, NEW c \in Client, Answer(c)
                   PROVE  Inv'
<1> USE DEF Inv
<1> DEFINE list == snap[c].list
<1>1. /\ list \in Snapshot /\ snap[c].step = "queue" /\ c # Hub /\ list.by = c
      /\ UNCHANGED <<room, reading, revision, todo, cast>>
  BY DEF Answer, TypeOK, Takers, ListInv, ListOf, Busy
<1>2. /\ answer' = [answer EXCEPT ![c] = list]
      /\ latest' = [latest EXCEPT ![c] = IF list.kind = "room_users" THEN list ELSE latest[c]]
      /\ snap' = [snap EXCEPT ![c] = [step |-> "idle", list |-> None]]
  BY DEF Answer, Done, TypeOK
<1>3. /\ list.at <= changes /\ list.rev <= revision
      /\ (list.rev < cast[c].rev => list.at <= cast[c].at)
  BY <1>1 DEF LowerIsOlder, Numbered, ListOf, PastInv, Takers
<1>4. /\ snap'[c] = [step |-> "idle", list |-> None]
      /\ \A u \in Takers \ {c} : snap'[u] = snap[u]
  BY <1>2 DEF TypeOK, Takers
<1> HIDE DEF list
<1>5. TypeOK'
  <2>1. snap' \in [Takers -> [step: Steps, list: Snapshot]]
    BY <1>2, NoneIsSnapshot DEF TypeOK, Steps
  <2>2. answer' \in [Client -> Snapshot] /\ latest' \in [Client -> Snapshot]
    BY <1>1, <1>2 DEF TypeOK
  <2>3. list.kind = "room_users" => Cardinality(list.seen) <= MaxRoomUsers
    BY DEF list, ListInv, ListOf, Takers
  <2>4. \A d \in Client : Cardinality(latest'[d].seen) <= MaxRoomUsers
    BY <1>2, <2>3 DEF TypeOK
  <2> QED
    BY <1>1, <2>1, <2>2, <2>4 DEF TypeOK
<1>6. Cardinality(None.seen) <= MaxRoomUsers /\ None.rev = 0 /\ None.at = 0
  <2>1. Cardinality({}) = 0 /\ None.seen = {}
    BY FS_EmptySet DEF None
  <2> QED
    BY <2>1 DEF None
<1>7. PastInv'
  <2>1. revision \in Nat /\ changes \in Nat
    BY DEF TypeOK
  <2>2. \A t \in Takers : ListOf(t)'.at <= changes /\ ListOf(t)'.rev <= revision
    BY <1>4, <1>6, <2>1 DEF PastInv, ListOf
  <2>3. \A d \in Client : answer'[d].at <= changes /\ answer'[d].rev <= revision
    BY <1>2, <1>3 DEF PastInv, TypeOK
  <2> QED
    BY <1>1, <2>2, <2>3 DEF PastInv
<1>8. ListInv'
  BY <1>4, <1>6 DEF ListInv, ListOf, Busy
<1>9. HubListInv'
  BY <1>1, <1>4 DEF HubListInv, ListOf, Busy, Selections, TooMany, Takers
<1>10. LowerIsOlder'
  <2>1. ~Numbered(c)' /\ answer'[c] = list
    BY <1>2, <1>4 DEF Numbered, TypeOK
  <2>2. \A d \in Client \ {c} : answer'[d] = answer[d] /\ snap'[d] = snap[d]
    BY <1>2, <1>4 DEF TypeOK, Takers
  <2> QED
    BY <1>1, <1>3, <2>1, <2>2 DEF LowerIsOlder, Numbered
<1>11. LatestInv'
  <2>1. WillTell' = WillTell
    BY <1>1, <1>4 DEF WillTell, ListOf, Busy, Takers
  <2>2. \A d \in clients : latest'[d].by = Hub => latest'[d] = latest[d]
    BY <1>1, <1>2 DEF TypeOK
  <2> QED
    BY <1>1, <2>1, <2>2 DEF LatestInv, Condemned
<1> QED
  BY <1>5, <1>7, <1>8, <1>9, <1>10, <1>11

\* An answer that is lost has told nobody anything.
LEMMA InvAnswerLost == ASSUME Inv, NEW c \in Client, AnswerLost(c)
                       PROVE  Inv'
<1> USE DEF Inv
<1>1. /\ c # Hub /\ UNCHANGED <<room, revision, todo, told>> /\ reading' \in SUBSET Client
      /\ snap' = [snap EXCEPT ![c] = [step |-> "idle", list |-> None]]
  BY DEF AnswerLost, Done, TypeOK
<1>2. /\ snap'[c] = [step |-> "idle", list |-> None]
      /\ \A u \in Takers \ {c} : snap'[u] = snap[u]
  BY <1>1 DEF TypeOK, Takers
<1>3. Cardinality(None.seen) <= MaxRoomUsers /\ None.rev = 0 /\ None.at = 0
  <2>1. Cardinality({}) = 0 /\ None.seen = {}
    BY FS_EmptySet DEF None
  <2> QED
    BY <2>1 DEF None
<1>4. TypeOK'
  <2>1. snap' \in [Takers -> [step: Steps, list: Snapshot]]
    BY <1>1, NoneIsSnapshot DEF TypeOK, Steps
  <2> QED
    BY <1>1, <2>1 DEF TypeOK
<1>5. PastInv'
  <2>1. revision \in Nat /\ changes \in Nat
    BY DEF TypeOK
  <2>2. \A t \in Takers : ListOf(t)'.at <= changes /\ ListOf(t)'.rev <= revision
    BY <1>2, <1>3, <2>1 DEF PastInv, ListOf
  <2> QED
    BY <1>1, <2>2 DEF PastInv
<1>6. ListInv'
  BY <1>2, <1>3 DEF ListInv, ListOf, Busy
<1>7. HubListInv'
  BY <1>1, <1>2 DEF HubListInv, ListOf, Busy, Selections, TooMany, Takers
<1>8. LowerIsOlder'
  <2>1. ~Numbered(c)'
    BY <1>2 DEF Numbered
  <2>2. \A d \in Client \ {c} : snap'[d] = snap[d]
    BY <1>2 DEF Takers
  <2> QED
    BY <1>1, <2>1, <2>2 DEF LowerIsOlder, Numbered
<1>9. LatestInv'
  <2>1. WillTell' = WillTell
    BY <1>1, <1>2 DEF WillTell, ListOf, Busy, Takers
  <2> QED
    BY <1>1, <2>1 DEF LatestInv, Condemned
<1> QED
  BY <1>4, <1>5, <1>6, <1>7, <1>8, <1>9

\* Every step keeps the invariant.
LEMMA InvNext == ASSUME Inv, [Next]_vars
                 PROVE  Inv'
<1>1. CASE Call
  <2>1. PICK kind \in Kinds : kind = Head(todo).do
    BY <1>1 DEF Call
  <2>2. /\ ReadRoom(Hub, kind) /\ todo # <<>> /\ todo' = Tail(todo) /\ ~Busy(Hub)
        /\ UNCHANGED <<room, reading, revision, told>>
    BY <1>1, <2>1 DEF Call
  <2>3. IF Hub = Hub THEN todo' = Tail(todo) /\ todo # <<>> /\ Head(todo).do = kind
                     ELSE todo' = todo
    BY <2>1, <2>2
  <2>4. Hub \in Takers
    BY DEF Takers
  <2> QED
    BY <2>2, <2>3, <2>4, InvRead
<1>2. ASSUME NEW c \in Client, NEW kind \in Kinds, Ask(c, kind)
      PROVE  Inv'
  BY <1>2, InvRead DEF Ask, Takers
<1>3. ASSUME NEW t \in Takers, Take(t)
      PROVE  Inv'
  BY <1>3, InvDraw, InvCount DEF Take
<1>4. CASE UNCHANGED vars
  BY <1>4 DEF Inv, TypeOK, PastInv, ListInv, HubListInv, LowerIsOlder, LatestInv, WillTell,
              Condemned, ListOf, Busy, Numbered, Selections, TooMany
<1>5. Hub \in Takers /\ Client \subseteq Takers
  BY DEF Takers
<1> QED
  BY <1>1, <1>2, <1>3, <1>4, <1>5, InvChange, InvBroadcast, InvAnswer,
     InvAnswerLost DEF Next

\* The invariant holds in every state.
LEMMA SnapshotsInvariant == Spec => []Inv
BY InvInit, InvNext, PTL DEF Spec

\* Lists, revisions and the handlers' remaining work keep to their types, and no
\* list of users is longer than maxRoomUsers.
THEOREM SnapshotsTypeCorrect == Spec => []TypeOK
<1>1. Inv => TypeOK
  BY DEF Inv
<1> QED
  BY <1>1, SnapshotsInvariant, PTL

\* A broadcast list is the room as it is, and says truthfully whether it was cut.
THEOREM BroadcastsAreExact == Spec => []BroadcastsExact
<1>1. Inv => BroadcastsExact
  <2> SUFFICES ASSUME Inv, Busy(Hub)
               PROVE  /\ snap[Hub].list.at = changes
                      /\ snap[Hub].list.kind = "room_users" /\ snap[Hub].step = "queue" =>
                            /\ snap[Hub].list.cut <=> snap[Hub].list.seen # clients
                            /\ speaker \in snap[Hub].list.seen => snap[Hub].list.mark = speaker
    BY DEF BroadcastsExact
  <2>1. snap[Hub].list.kind \in Kinds
    BY DEF Inv, TypeOK, Snapshot, Takers
  <2>2. snap[Hub].list.kind = "room_users" => (TooMany <=> snap[Hub].list.seen # clients)
    BY <2>1, Selected DEF Inv, HubListInv, ListOf
  <2> QED
    BY <2>2, Zenon DEF Inv, HubListInv, ListOf
<1> QED
  BY <1>1, SnapshotsInvariant, PTL

\* A list with a lower revision than a broadcast is not newer than it.
THEOREM LowerRevisionsAreOlder == Spec => []LowerIsOlder
<1>1. Inv => LowerIsOlder
  BY DEF Inv
<1> QED
  BY <1>1, SnapshotsInvariant, PTL

\* Between two handlers a client's list is overtaken by nothing but evictions that are told
\* to nobody (hub.go:770-776), unless its own reader has given it the list.
THEOREM OnlyAnswersAreStale == Spec => []OnlyAnswersStale
<1>1. Inv => OnlyAnswersStale
  <2>1. todo = <<>> => Tasks(todo) = {}
    BY DEF Tasks
  <2> QED
    BY <2>1 DEF Inv, LatestInv, WillTell, Condemned, OnlyAnswersStale, Quiet
<1> QED
  BY <1>1, SnapshotsInvariant, PTL
=============================================================================
