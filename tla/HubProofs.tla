----------------------------- MODULE HubProofs -----------------------------
(***************************************************************************)
(* Proofs about Hub, for any connections, rooms, capacities and timeout.   *)
(***************************************************************************)
EXTENDS HubInv, FiniteSetTheorems, SequenceTheorems, TLAPS

-----------------------------------------------------------------------------
(* The stack.                                                              *)

\* The calls on a stack made of two parts.
LEMMA TasksConcat ==
  ASSUME NEW S, NEW s \in Seq(S), NEW t \in Seq(S)
  PROVE  /\ s \o t \in Seq(S)
         /\ Tasks(s \o t) = Tasks(s) \union Tasks(t)
<1>1. s \o t \in Seq(S) /\ Len(s \o t) = Len(s) + Len(t)
  OBVIOUS
<1>2. Tasks(s \o t) \subseteq Tasks(s) \union Tasks(t)
  BY <1>1 DEF Tasks
<1>3. Tasks(s) \subseteq Tasks(s \o t)
  <2> SUFFICES ASSUME NEW i \in DOMAIN s PROVE s[i] \in Tasks(s \o t)
    BY DEF Tasks
  <2>1. i \in DOMAIN (s \o t) /\ (s \o t)[i] = s[i]
    BY <1>1
  <2> QED BY <2>1 DEF Tasks
<1>4. Tasks(t) \subseteq Tasks(s \o t)
  <2> SUFFICES ASSUME NEW i \in DOMAIN t PROVE t[i] \in Tasks(s \o t)
    BY DEF Tasks
  <2>1. Len(s) + i \in DOMAIN (s \o t) /\ (s \o t)[Len(s) + i] = t[i]
    BY <1>1
  <2> QED BY <2>1 DEF Tasks
<1> QED BY <1>1, <1>2, <1>3, <1>4

\* The innermost call and the rest.
LEMMA TasksHeadTail ==
  ASSUME NEW S, NEW s \in Seq(S), s # <<>>
  PROVE  /\ Head(s) \in S
         /\ Tail(s) \in Seq(S)
         /\ Tasks(s) = {Head(s)} \union Tasks(Tail(s))
<1>1. Head(s) \in S /\ Tail(s) \in Seq(S) /\ Len(s) > 0 /\ Head(s) = s[1]
      /\ Len(Tail(s)) = Len(s) - 1
  OBVIOUS
<1>2. Tasks(s) \subseteq {Head(s)} \union Tasks(Tail(s))
  <2> SUFFICES ASSUME NEW i \in DOMAIN s, i # 1 PROVE s[i] \in Tasks(Tail(s))
    BY <1>1 DEF Tasks
  <2>1. i - 1 \in DOMAIN Tail(s) /\ Tail(s)[i - 1] = s[i]
    BY <1>1
  <2> QED BY <2>1 DEF Tasks
<1>3. Tasks(Tail(s)) \subseteq Tasks(s)
  <2> SUFFICES ASSUME NEW i \in DOMAIN Tail(s) PROVE Tail(s)[i] \in Tasks(s)
    BY DEF Tasks
  <2>1. i + 1 \in DOMAIN s /\ Tail(s)[i] = s[i + 1]
    BY <1>1
  <2> QED BY <2>1 DEF Tasks
<1>4. Head(s) \in Tasks(s)
  BY <1>1 DEF Tasks
<1> QED BY <1>1, <1>2, <1>3, <1>4

\* A call made on top of a stack.
LEMMA TasksPush ==
  ASSUME NEW S, NEW x \in S, NEW s \in Seq(S)
  PROVE  /\ <<x>> \o s \in Seq(S)
         /\ <<x>> \o s # <<>>
         /\ Head(<<x>> \o s) = x
         /\ Tail(<<x>> \o s) = s
         /\ Tasks(<<x>> \o s) = {x} \union Tasks(s)
<1> DEFINE t == <<x>> \o s
<1>1. t \in Seq(S) /\ Len(t) = Len(s) + 1 /\ t[1] = x
  OBVIOUS
<1>2. t # <<>> /\ Head(t) = x
  BY <1>1
<1>3. Tail(t) = s
  BY <1>1
<1>4. Tasks(t) = {x} \union Tasks(s)
  BY <1>1, <1>2, <1>3, TasksHeadTail
<1> QED BY <1>1, <1>2, <1>3, <1>4

\* Every kind of call is a task, and the conditional ones are at most one.
LEMMA TaskTypes ==
  /\ \A S \in SUBSET Client : Evict(S) \in Task
  /\ \A c \in Client : Release(c) \in Task
  /\ \A R \in SUBSET Room : Released(R) \in Task
  /\ \A c \in Client, r \in Room : Talking(c, r) \in Task
  /\ \A r \in Room : Users(r) \in Task
  /\ List \in Task
<1>1. \A S \in SUBSET Client : Evict(S) \in Task
  BY DEF Task
<1>2. \A c \in Client : Release(c) \in Task
  BY DEF Task
<1>3. \A R \in SUBSET Room : Released(R) \in Task
  BY DEF Task
<1>4. \A c \in Client, r \in Room : Talking(c, r) \in Task
  BY DEF Task
<1>5. (\A r \in Room : Users(r) \in Task) /\ List \in Task
  BY DEF Task
<1> QED BY <1>1, <1>2, <1>3, <1>4, <1>5

\* What the calls are made on.
LEMMA TaskFields ==
  \A t \in Task : /\ t.who \subseteq Client /\ t.rooms \subseteq Room
                  /\ t.op = "users" => \E r \in Room : t.rooms = {r}
BY DEF Task, Evict, Release, Released, Talking, Users, List

\* Two parts of the hub's stack.
LEMMA StackConcat ==
  \A s, t \in Seq(Task) : /\ s \o t \in Seq(Task)
                          /\ Tasks(s \o t) = Tasks(s) \union Tasks(t)
BY TasksConcat

\* One call on top of the hub's stack.
LEMMA StackPush ==
  \A x \in Task, s \in Seq(Task) :
     /\ <<x>> \o s \in Seq(Task)
     /\ <<x>> \o s # <<>>
     /\ Head(<<x>> \o s) = x
     /\ Tail(<<x>> \o s) = s
     /\ Tasks(<<x>> \o s) = {x} \union Tasks(s)
BY TasksPush

\* An empty stack holds no call.
LEMMA EmptyTasks == Tasks(<<>>) = {}
BY DEF Tasks

\* A stack of one call holds that call.
LEMMA OneTask == ASSUME NEW S, NEW x \in S
                 PROVE  <<x>> \in Seq(S) /\ Tasks(<<x>>) = {x}
BY DEF Tasks

\* The evictions of a broadcast are one call, or none.
LEMMA EvictingTasks ==
  ASSUME NEW S \in SUBSET Client
  PROVE  /\ Evicting(S) \in Seq(Task)
         /\ Tasks(Evicting(S)) = IF S = {} THEN {} ELSE {Evict(S)}
<1>1. CASE S = {}
  BY <1>1, EmptyTasks DEF Evicting
<1>2. CASE S # {}
  <2>1. Evict(S) \in Task
    BY TaskTypes
  <2>2. <<Evict(S)>> \in Seq(Task) /\ Tasks(<<Evict(S)>>) = {Evict(S)}
    BY <2>1, OneTask
  <2> QED BY <1>2, <2>2 DEF Evicting
<1> QED BY <1>1, <1>2

\* So is the release of some rooms.
LEMMA ReleasingTasks ==
  ASSUME NEW R \in SUBSET Room
  PROVE  /\ Releasing(R) \in Seq(Task)
         /\ Tasks(Releasing(R)) = IF R = {} THEN {} ELSE {Released(R)}
<1>1. CASE R = {}
  BY <1>1, EmptyTasks DEF Releasing
<1>2. CASE R # {}
  <2>1. Released(R) \in Task
    BY TaskTypes
  <2>2. <<Released(R)>> \in Seq(Task) /\ Tasks(<<Released(R)>>) = {Released(R)}
    BY <2>1, OneTask
  <2> QED BY <1>2, <2>2 DEF Releasing
<1> QED BY <1>1, <1>2

\* What a step that makes the calls p on top of the rest of the stack leaves.
LEMMA StackAfter ==
  ASSUME TypeOK, todo # <<>>, NEW p \in Seq(Task)
  PROVE  /\ Head(todo) \in Task
         /\ Tail(todo) \in Seq(Task)
         /\ p \o Tail(todo) \in Seq(Task)
         /\ Pending = {Head(todo)} \union Tasks(Tail(todo))
         /\ Tasks(p \o Tail(todo)) = Tasks(p) \union Tasks(Tail(todo))
<1>1. todo \in Seq(Task)
  BY DEF TypeOK
<1>2. Head(todo) \in Task /\ Tail(todo) \in Seq(Task)
      /\ Tasks(todo) = {Head(todo)} \union Tasks(Tail(todo))
  BY <1>1, TasksHeadTail
<1> QED BY <1>2, TasksConcat DEF Pending

-----------------------------------------------------------------------------
(* Type correctness.                                                       *)

\* The clients of a room can be counted.
LEMMA MembersCount ==
  ASSUME TypeOK, NEW r \in Room
  PROVE  Cardinality(Members(r)) \in Nat
<1>1. Members(r) \subseteq Client /\ IsFiniteSet(Client)
  BY HubAssumption DEF Members, TypeOK
<1> QED BY <1>1, FS_Subset, FS_CardinalityType

\* The variables begin in their types.
LEMMA TypeInit == Init => TypeOK
<1> SUFFICES ASSUME Init PROVE TypeOK
  OBVIOUS
<1> USE HubAssumption
<1>1. reader \in [Client -> [at : Phases, room : Room]]
  BY DEF Init, Phases
<1>2. 0 \in 0 .. IdleTicks + 1
  OBVIOUS
<1>3. /\ todo \in Seq(Task) /\ broadcast \in Seq(Room)
      /\ audioFrame \in Seq([sender : Client, valid : BOOLEAN])
      /\ Len(audioFrame) <= AudioCap /\ Len(broadcast) <= ChatCap
  BY DEF Init
<1> QED BY <1>1, <1>2, <1>3 DEF Init, TypeOK

\* Every step keeps the variables in their types.
LEMMA TypeStep == TypeOK /\ [Next]_vars => TypeOK'
<1> SUFFICES ASSUME TypeOK, [Next]_vars PROVE TypeOK'
  OBVIOUS
<1> USE HubAssumption
<1>a. ASSUME NEW c \in Client, NEW ph \in Phases, NEW r \in Room, Goes(c, ph, r)
      PROVE  reader' \in [Client -> [at : Phases, room : Room]]
  BY <1>a DEF Goes, TypeOK
<1>b. \A c \in Client : RoomOf[c] \in Room
  OBVIOUS
<1>c. {"new", "register", "read", "start", "stop", "unregister", "gone"} = Phases
  BY DEF Phases
<1>1. ASSUME NEW c \in Client, Request(c) PROVE TypeOK'
  <2>1. CASE Connect(c)
    BY <2>1, <1>a, <1>b, <1>c DEF Connect, TypeOK, hub, chans, told
  <2>2. CASE \E r \in Room : PressTalk(c, r) \/ ReleaseTalk(c, r)
    BY <2>2, <1>a, <1>b, <1>c DEF PressTalk, ReleaseTalk, TypeOK, hub, chans, told
  <2>3. CASE \E r \in Room : SendChat(c, r)
    <3> PICK r \in Room : SendChat(c, r)
      BY <2>3
    <3>1. broadcast' \in Seq(Room) /\ Len(broadcast') <= ChatCap
      BY DEF SendChat, TypeOK
    <3> QED BY <3>1 DEF SendChat, TypeOK, hub, told
  <2>4. CASE \E valid \in BOOLEAN : SendAudio(c, valid)
    <3> PICK valid \in BOOLEAN : SendAudio(c, valid)
      BY <2>4
    <3>0. [sender |-> c, valid |-> valid] \in [sender : Client, valid : BOOLEAN]
      OBVIOUS
    <3>1. /\ audioFrame' \in Seq([sender : Client, valid : BOOLEAN])
          /\ Len(audioFrame') <= AudioCap
      BY <3>0 DEF SendAudio, TypeOK
    <3> QED BY <3>1 DEF SendAudio, TypeOK, hub, told
  <2>5. CASE ReadFails(c)
    BY <2>5, <1>a, <1>b, <1>c DEF ReadFails, TypeOK, hub, chans, told
  <2> QED BY <1>1, <2>1, <2>2, <2>3, <2>4, <2>5 DEF Request
<1>2. ASSUME NEW c \in Client, Serve(c) PROVE TypeOK'
  <2>a. /\ <<List, Users(RoomOf[c])>> \in Seq(Task)
        /\ <<Release(c)>> \in Seq(Task)
        /\ \A r \in Room : <<Talking(c, r), Users(r)>> \in Seq(Task)
        /\ \A R \in SUBSET Room : Releasing(R) \in Seq(Task)
    BY TaskTypes, ReleasingTasks, <1>b
  <2>b. <<Release(c)>> \o Snapshots(RoomOf[c]) \in Seq(Task)
    BY <2>a DEF Snapshots
  <2>1. CASE HubRegister(c)
    BY <2>1, <2>a, <1>a, <1>b, <1>c DEF HubRegister, Snapshots, TypeOK, chans, told
  <2>2. CASE HubUnregister(c)
    BY <2>2, <2>b, <1>a, <1>b, <1>c DEF HubUnregister, Remove, TypeOK, chans, told
  <2>3. CASE HubStart(c)
    <3>1. reader' \in [Client -> [at : Phases, room : Room]]
      BY <2>3, <1>a, <1>b, <1>c DEF HubStart, GrantCalls
    <3>2. reader[c].room \in Room
      BY DEF TypeOK
    <3>3. 0 \in 0 .. IdleTicks + 1
      OBVIOUS
    <3> DEFINE r == reader[c].room
    <3>6. CASE Grants(c, r)
      <4>1. /\ speakers' = [speakers EXCEPT ![r] = c]
            /\ idle' = [idle EXCEPT ![r] = 0]
            /\ audioStats' = [audioStats EXCEPT ![r] = c]
            /\ todo' = <<Talking(c, r), Users(r)>>
        BY <2>3, <3>6 DEF HubStart, GrantCalls
      <4>2. todo' \in Seq(Task)
        BY <4>1, <3>2, <2>a
      <4>3. /\ speakers' \in [Room -> Client \union {None}]
            /\ idle' \in [Room -> 0 .. IdleTicks + 1]
            /\ audioStats' \in [Room -> Client \union {None, Stray}]
        BY <4>1, <3>2, <3>3 DEF TypeOK
      <4> QED BY <2>3, <3>1, <4>2, <4>3 DEF HubStart, GrantCalls, TypeOK, chans, told
    <3>7. CASE ~Grants(c, r)
      <4>1. UNCHANGED <<speakers, idle, audioStats, todo>>
        BY <2>3, <3>7 DEF HubStart, GrantCalls
      <4> QED BY <2>3, <3>1, <4>1 DEF HubStart, GrantCalls, TypeOK, chans, told
    <3> QED BY <3>6, <3>7
  <2>4. CASE HubStop(c)
    <3>1. reader' \in [Client -> [at : Phases, room : Room]]
      BY <2>4, <1>a, <1>b, <1>c DEF HubStop, Stops
    <3>2. reader[c].room \in Room
      BY DEF TypeOK
    <3>3. 0 \in 0 .. IdleTicks + 1
      OBVIOUS
    <3> DEFINE r == reader[c].room
    <3>6. CASE speakers[r] = c
      <4>1. FreeFloors({r}) /\ todo' = Releasing({r})
        BY <2>4, <3>6 DEF HubStop, Stops
      <4>2. todo' \in Seq(Task)
        BY <4>1, <3>2, <2>a
      <4>3. /\ speakers' \in [Room -> Client \union {None}]
            /\ idle' \in [Room -> 0 .. IdleTicks + 1]
        BY <4>1, <3>3 DEF FreeFloors, TypeOK
      <4> QED BY <2>4, <3>1, <4>2, <4>3 DEF HubStop, Stops, TypeOK, chans, told
    <3>7. CASE speakers[r] # c
      <4>1. UNCHANGED <<speakers, idle, todo>>
        BY <2>4, <3>7 DEF HubStop, Stops
      <4> QED BY <2>4, <3>1, <4>1 DEF HubStop, Stops, TypeOK, chans, told
    <3> QED BY <3>6, <3>7
  <2> QED BY <1>2, <2>1, <2>2, <2>3, <2>4 DEF Serve
<1>3. CASE HubAudio
  <2> DEFINE frame == Head(audioFrame)
             r     == RoomOf[frame.sender]
  <2>0. /\ audioFrame \in Seq([sender : Client, valid : BOOLEAN])
        /\ audioFrame # <<>>
    BY <1>3 DEF HubAudio, Accepts, TypeOK
  <2>1. frame \in [sender : Client, valid : BOOLEAN] /\ r \in Room
    <3>1. frame \in [sender : Client, valid : BOOLEAN]
      BY <2>0, TasksHeadTail
    <3> QED BY <3>1
  <2>2. /\ audioFrame' \in Seq([sender : Client, valid : BOOLEAN])
        /\ Len(audioFrame') <= AudioCap
    BY <1>3 DEF HubAudio, Accepts, TypeOK
  <2>3. audioStats' \in [Room -> Client \union {None, Stray}]
    BY <1>3, <2>1 DEF HubAudio, Accepts, TypeOK
  <2>4. CASE frame.valid /\ speakers[r] = frame.sender
    <3> PICK full \in SUBSET (Slow \intersect (Members(r) \ {frame.sender})) :
               /\ idle' = [idle EXCEPT ![r] = 0]
               /\ played' = [c \in Client |->
                               IF c \in Members(r) \ ({frame.sender} \union full)
                                  THEN frame.sender ELSE played[c]]
               /\ todo' = Evicting(full)
      BY <1>3, <2>4 DEF HubAudio, Accepts
    <3>1. todo' \in Seq(Task)
      BY EvictingTasks
    <3>2. idle' \in [Room -> 0 .. IdleTicks + 1]
      BY <2>1 DEF TypeOK
    <3>3. played' \in [Client -> Client \union {None}]
      BY <2>1 DEF TypeOK
    <3> QED BY <1>3, <2>2, <2>3, <3>1, <3>2, <3>3 DEF HubAudio, Accepts, TypeOK
  <2>5. CASE ~(frame.valid /\ speakers[r] = frame.sender)
    <3>1. UNCHANGED <<idle, played, todo>>
      BY <1>3, <2>5 DEF HubAudio, Accepts
    <3> QED BY <1>3, <2>2, <2>3, <3>1 DEF HubAudio, Accepts, TypeOK
  <2> QED BY <2>4, <2>5
<1>4. CASE HubChat
  <2>1. broadcast' \in Seq(Room) /\ Len(broadcast') <= ChatCap
    BY <1>4 DEF HubChat, TypeOK
  <2>2. todo' \in Seq(Task)
    BY <1>4, EvictingTasks DEF HubChat
  <2> QED BY <1>4, <2>1, <2>2 DEF HubChat, TypeOK, hub, told
<1>5. CASE HubTick
  <2>1. PICK rooms \in SUBSET Room : FreeFloors(rooms) /\ todo' = Releasing(rooms)
    BY <1>5 DEF HubTick, Overdue
  <2>2. todo' \in Seq(Task)
    BY <2>1, ReleasingTasks
  <2>3. /\ speakers' \in [Room -> Client \union {None}]
        /\ idle' \in [Room -> 0 .. IdleTicks + 1]
    BY <2>1 DEF FreeFloors, TypeOK
  <2> QED BY <1>5, <2>2, <2>3 DEF HubTick, Overdue, TypeOK, told
<1>6. CASE HubStep
  <2>1. CASE DoEvict
    <3>1. PICK c \in Head(todo).who :
            todo' = IF c \in clients
                       THEN <<Release(c)>> \o (Evicting(Head(todo).who \ {c}) \o Tail(todo))
                       ELSE Evicting(Head(todo).who \ {c}) \o Tail(todo)
      BY <2>1 DEF DoEvict
    <3>2. Head(todo) \in Task /\ Tail(todo) \in Seq(Task)
      BY <2>1, StackAfter, EvictingTasks DEF DoEvict, Calls
    <3>3. c \in Client /\ Head(todo).who \ {c} \in SUBSET Client
      BY <3>2, TaskFields
    <3>4. Evicting(Head(todo).who \ {c}) \o Tail(todo) \in Seq(Task)
      BY <3>2, <3>3, EvictingTasks, TasksConcat
    <3>5. todo' \in Seq(Task)
      BY <3>1, <3>3, <3>4, TaskTypes, TasksPush
    <3>6. clients' \subseteq Client /\ closed' \subseteq Client
      BY <2>1, <3>2, TaskFields DEF DoEvict, Remove, TypeOK
    <3> QED BY <2>1, <3>5, <3>6 DEF DoEvict, TypeOK, chans, told
  <2>2. CASE DoRelease
    <3> DEFINE rooms == {r \in Room : speakers[r] \in Head(todo).who}
    <3>1. FreeFloors(rooms) /\ todo' = Releasing(rooms) \o Tail(todo)
      BY <2>2 DEF DoRelease, HeldBy
    <3>2. todo' \in Seq(Task)
      BY <2>2, <3>1, StackAfter, ReleasingTasks DEF DoRelease, HeldBy, Calls
    <3>3. 0 \in 0 .. IdleTicks + 1
      OBVIOUS
    <3>4. /\ speakers' \in [Room -> Client \union {None}]
          /\ idle' \in [Room -> 0 .. IdleTicks + 1]
      BY <3>1, <3>3 DEF FreeFloors, TypeOK
    <3> QED BY <2>2, <3>2, <3>4 DEF DoRelease, HeldBy, TypeOK, chans, told
  <2>3. CASE DoTalking
    <3>0. Head(todo) \in Task
      BY <2>3, StackAfter, EvictingTasks DEF DoTalking, Calls
    <3>1. PICK c \in Head(todo).who, r \in Head(todo).rooms :
            \E full \in SUBSET (Slow \intersect Members(r)) :
               Announce(r, full, c) /\ todo' = Evicting(full) \o Tail(todo)
      BY <2>3 DEF DoTalking
    <3>2. PICK full \in SUBSET (Slow \intersect Members(r)) :
             Announce(r, full, c) /\ todo' = Evicting(full) \o Tail(todo)
      BY <3>1
    <3>3. c \in Client /\ full \in SUBSET Client
      BY <3>0, TaskFields
    <3>4. todo' \in Seq(Task)
      BY <2>3, <3>2, <3>3, StackAfter, EvictingTasks DEF DoTalking, Calls
    <3>5. /\ heard' \in [Client -> Client \union {Unknown, Quiet}]
          /\ played' \in [Client -> Client \union {None}]
      BY <3>2, <3>3 DEF Announce, TypeOK
    <3> QED BY <2>3, <3>4, <3>5 DEF DoTalking, TypeOK, hub, chans
  <2>4. CASE DoReleased
    <3>0. Head(todo) \in Task /\ Tail(todo) \in Seq(Task)
      BY <2>4, StackAfter, EvictingTasks DEF DoReleased, LogAndForget, Calls
    <3>1. PICK r \in Head(todo).rooms :
            \E full \in SUBSET (Slow \intersect Members(r)) :
               /\ audioStats' = [audioStats EXCEPT ![r] = None]
               /\ Announce(r, full, Quiet)
               /\ todo' = Evicting(full) \o <<Users(r)>>
                            \o Releasing(Head(todo).rooms \ {r}) \o Tail(todo)
      BY <2>4 DEF DoReleased, LogAndForget
    <3>2. PICK full \in SUBSET (Slow \intersect Members(r)) :
               /\ audioStats' = [audioStats EXCEPT ![r] = None]
               /\ Announce(r, full, Quiet)
               /\ todo' = Evicting(full) \o <<Users(r)>>
                            \o Releasing(Head(todo).rooms \ {r}) \o Tail(todo)
      BY <3>1
    <3>3. r \in Room /\ full \in SUBSET Client /\ Head(todo).rooms \ {r} \in SUBSET Room
      BY <3>0, TaskFields
    <3>4. todo' \in Seq(Task)
      <4>1. <<Users(r)>> \in Seq(Task)
        BY <3>3, TaskTypes, OneTask
      <4>2. Evicting(full) \o <<Users(r)>> \in Seq(Task)
        BY <3>3, <4>1, EvictingTasks, TasksConcat
      <4>3. Releasing(Head(todo).rooms \ {r}) \in Seq(Task)
        BY <3>3, ReleasingTasks
      <4>4. Evicting(full) \o <<Users(r)>> \o Releasing(Head(todo).rooms \ {r})
              \in Seq(Task)
        BY <4>2, <4>3, TasksConcat
      <4> QED BY <3>0, <3>2, <4>4, TasksConcat
    <3>5. /\ heard' \in [Client -> Client \union {Unknown, Quiet}]
          /\ played' \in [Client -> Client \union {None}]
      BY <3>2 DEF Announce, TypeOK
    <3>6. audioStats' \in [Room -> Client \union {None, Stray}]
      BY <3>2 DEF TypeOK
    <3> QED BY <2>4, <3>4, <3>5, <3>6 DEF DoReleased, LogAndForget, TypeOK, chans
  <2>5. CASE DoUsers
    <3>0. Head(todo) \in Task
      BY <2>5, StackAfter, EvictingTasks DEF DoUsers, Calls
    <3>1. PICK r \in Head(todo).rooms, full \in SUBSET Client, list \in SUBSET Client :
            /\ roster' = [c \in Client |-> IF c \in Members(r) \ full
                                             THEN list ELSE roster[c]]
            /\ talker' = [c \in Client |-> IF c \in Members(r) \ full
                                             THEN IF speakers[r] \in list
                                                     THEN speakers[r] ELSE None
                                             ELSE talker[c]]
            /\ todo' = Evicting(full) \o Tail(todo)
      <4>1. PICK r \in Head(todo).rooms :
              \E full \in SUBSET (Slow \intersect Members(r)), list \in Listings(r) :
                /\ roster' = [c \in Client |-> IF c \in Members(r) \ full
                                                 THEN list ELSE roster[c]]
                /\ talker' = [c \in Client |-> IF c \in Members(r) \ full
                                                 THEN IF speakers[r] \in list
                                                         THEN speakers[r] ELSE None
                                                 ELSE talker[c]]
                /\ todo' = Evicting(full) \o Tail(todo)
        BY <2>5 DEF DoUsers
      <4>2. Members(r) \subseteq Client /\ Listings(r) \subseteq SUBSET Client
        BY DEF Listings, Members, TypeOK
      <4> QED BY <4>1, <4>2
    <3>2. todo' \in Seq(Task)
      BY <2>5, <3>1, StackAfter, EvictingTasks DEF DoUsers, Calls
    <3>3. /\ roster' \in [Client -> SUBSET Client]
          /\ talker' \in [Client -> Client \union {None}]
      BY <3>1 DEF TypeOK
    <3> QED BY <2>5, <3>2, <3>3 DEF DoUsers, TypeOK, hub, chans
  <2>6. CASE DoList
    <3>1. PICK full \in SUBSET Client :
            /\ lobby' = [c \in Client |-> IF c \in clients \ full
                           THEN Cardinality(Members(DefaultRoom)) ELSE lobby[c]]
            /\ todo' = Evicting(full) \o Tail(todo)
      BY <2>6 DEF DoList, TypeOK
    <3>2. todo' \in Seq(Task)
      BY <2>6, <3>1, StackAfter, EvictingTasks DEF DoList, Calls
    <3>3. lobby' \in [Client -> Nat]
      BY <3>1, MembersCount DEF TypeOK
    <3> QED BY <2>6, <3>2, <3>3 DEF DoList, TypeOK, hub, chans
  <2> QED BY <1>6, <2>1, <2>2, <2>3, <2>4, <2>5, <2>6 DEF HubStep
<1>7. CASE Elapse
  <2>1. idle' \in [Room -> 0 .. IdleTicks + 1]
    BY <1>7 DEF Elapse, TypeOK
  <2> QED BY <1>7, <2>1 DEF Elapse, TypeOK, told
<1>8. CASE UNCHANGED vars
  BY <1>8 DEF vars, hub, chans, told, TypeOK
<1> QED BY <1>1, <1>2, <1>3, <1>4, <1>5, <1>6, <1>7, <1>8 DEF Next, HubSelect

\* The variables always have their types (every variable of hub.go's Hub, the
\* channels, the readers and the hub's stack).
THEOREM TypeCorrect == Spec => []TypeOK
<1>1. Init => TypeOK
  BY TypeInit
<1>2. TypeOK /\ [Next]_vars => TypeOK'
  BY TypeStep
<1> QED BY <1>1, <1>2, PTL DEF Spec

-----------------------------------------------------------------------------
(* What the stack still has to do, before and after a step.                *)

\* The clients and rooms that the calls on the stack are still to deal with.
LEMMA PendingSets ==
  /\ \A c : c \in Doomed    <=> \E t \in Pending : t.op = "evict"    /\ c \in t.who
  /\ \A r : r \in Ending    <=> \E t \in Pending : t.op = "released" /\ r \in t.rooms
  /\ \A r : r \in Relisting <=> \E t \in Pending : t.op = "users"    /\ r \in t.rooms
BY DEF Doomed, Ending, Relisting

\* The same, after a step.
LEMMA PendingSetsPrime ==
  /\ \A c : c \in Doomed'    <=> \E t \in Pending' : t.op = "evict"    /\ c \in t.who
  /\ \A r : r \in Ending'    <=> \E t \in Pending' : t.op = "released" /\ r \in t.rooms
  /\ \A r : r \in Relisting' <=> \E t \in Pending' : t.op = "users"    /\ r \in t.rooms
BY DEF Doomed, Ending, Relisting

\* Between two handlers there is nothing left to deal with.
LEMMA NothingPending ==
  ASSUME todo = <<>>
  PROVE  Doomed = {} /\ Ending = {} /\ Relisting = {} /\ Leaving = {}
BY EmptyTasks, PendingSets DEF Pending, Leaving, Calls

\* A stack without a removal or an announcement in progress.
LEMMA PlainStack ==
  ASSUME todo' \in Seq(Task),
         \A t \in Tasks(todo') : t.op \notin {"release", "talking"}
  PROVE  /\ StackInv'
         /\ Leaving' = {}
         /\ Beginning' = {}
<1>1. CASE todo' = <<>>
  BY <1>1 DEF StackInv, Leaving, Beginning, Calls
<1>2. CASE todo' # <<>>
  <2>1. Tasks(todo') = {Head(todo')} \union Tasks(Tail(todo'))
    BY <1>2, TasksHeadTail
  <2>2. Head(todo').op \notin {"release", "talking"}
        /\ \A t \in Tasks(Tail(todo')) : t.op \notin {"release", "talking"}
    BY <2>1
  <2> QED BY <1>2, <2>2 DEF StackInv, Leaving, Beginning, Calls
<1> QED BY <1>1, <1>2

\* A broadcast from the select: its evictions are the only calls to make.
LEMMA AfterSend ==
  ASSUME TypeOK, todo = <<>>, NEW full \in SUBSET Client, todo' = Evicting(full)
  PROVE  /\ StackInv' /\ Leaving' = {} /\ Beginning' = {}
         /\ Doomed' = full /\ Ending' = {} /\ Relisting' = {}
<1>1. /\ todo' \in Seq(Task)
      /\ Pending' = IF full = {} THEN {} ELSE {Evict(full)}
  BY EvictingTasks DEF Pending
<1>2. \A t \in Pending' : t.op = "evict" /\ t.who = full /\ full # {}
  BY <1>1 DEF Evict
<1>3. StackInv' /\ Leaving' = {} /\ Beginning' = {}
  BY <1>1, <1>2, PlainStack DEF Pending
<1>4. Doomed' = full
  BY <1>1, <1>2, PendingSetsPrime
<1>5. Ending' = {} /\ Relisting' = {}
  BY <1>2, PendingSetsPrime
<1> QED BY <1>3, <1>4, <1>5

\* A talk ended from the select: its announcement is the only call to make.
LEMMA AfterFree ==
  ASSUME TypeOK, todo = <<>>, NEW rooms \in SUBSET Room, todo' = Releasing(rooms)
  PROVE  /\ StackInv' /\ Leaving' = {} /\ Beginning' = {}
         /\ Doomed' = {} /\ Ending' = rooms /\ Relisting' = {}
<1>1. /\ todo' \in Seq(Task)
      /\ Pending' = IF rooms = {} THEN {} ELSE {Released(rooms)}
  BY ReleasingTasks DEF Pending
<1>2. \A t \in Pending' : t.op = "released" /\ t.rooms = rooms /\ rooms # {}
  BY <1>1 DEF Released
<1>3. StackInv' /\ Leaving' = {} /\ Beginning' = {}
  BY <1>1, <1>2, PlainStack DEF Pending
<1>4. Ending' = rooms
  BY <1>1, <1>2, PendingSetsPrime
<1>5. Doomed' = {} /\ Relisting' = {}
  BY <1>2, PendingSetsPrime
<1> QED BY <1>3, <1>4, <1>5

\* A broadcast in the middle of a handler, replaced by its evictions.
LEMMA AfterBroadcast ==
  ASSUME TypeOK, StackInv, todo # <<>>, Head(todo).op \notin {"evict", "released"},
         NEW full \in SUBSET Client, todo' = Evicting(full) \o Tail(todo)
  PROVE  /\ StackInv' /\ Leaving' = {} /\ Beginning' = {}
         /\ Doomed' = Doomed \union full
         /\ Ending' = Ending
         /\ \A r \in Relisting :
               r \in Relisting' \/ (Head(todo).op = "users" /\ r \in Head(todo).rooms)
<1> DEFINE rest == Tasks(Tail(todo))
<1>1. /\ todo' \in Seq(Task)
      /\ Pending = {Head(todo)} \union rest
      /\ Pending' = (IF full = {} THEN {} ELSE {Evict(full)}) \union rest
  BY EvictingTasks, StackAfter DEF Pending
<1>2. \A t \in rest : t.op \notin {"release", "talking"}
  BY DEF StackInv
<1>3. Evict(full).op = "evict" /\ Evict(full).who = full
  BY DEF Evict
<1>4. StackInv' /\ Leaving' = {} /\ Beginning' = {}
  BY <1>1, <1>2, <1>3, PlainStack DEF Pending
<1>5. Doomed' = Doomed \union full
  BY <1>1, <1>3, PendingSets, PendingSetsPrime
<1>6. Ending' = Ending
  <2>1. \A r : r \in Ending' <=> r \in Ending
    BY <1>1, <1>3, PendingSets, PendingSetsPrime
  <2> QED BY <2>1
<1>7. \A r \in Relisting :
        r \in Relisting' \/ (Head(todo).op = "users" /\ r \in Head(todo).rooms)
  BY <1>1, <1>3, PendingSets, PendingSetsPrime
<1> QED BY <1>4, <1>5, <1>6, <1>7

\* The speakers of a removed client released in the middle of a handler.
LEMMA AfterRelease ==
  ASSUME TypeOK, StackInv, Calls("release"),
         NEW rooms \in SUBSET Room, todo' = Releasing(rooms) \o Tail(todo)
  PROVE  /\ StackInv' /\ Leaving' = {} /\ Beginning' = {}
         /\ Doomed' = Doomed
         /\ Ending' = Ending \union rooms
         /\ Relisting' = Relisting
<1> DEFINE rest == Tasks(Tail(todo))
<1>0. todo # <<>> /\ Head(todo).op = "release"
  BY DEF Calls
<1>1. /\ todo' \in Seq(Task)
      /\ Pending = {Head(todo)} \union rest
      /\ Pending' = (IF rooms = {} THEN {} ELSE {Released(rooms)}) \union rest
  BY <1>0, ReleasingTasks, StackAfter DEF Pending
<1>2. \A t \in rest : t.op \notin {"release", "talking"}
  BY <1>0 DEF StackInv
<1>3. Released(rooms).op = "released" /\ Released(rooms).rooms = rooms
  BY DEF Released
<1>4. StackInv' /\ Leaving' = {} /\ Beginning' = {}
  BY <1>1, <1>2, <1>3, PlainStack DEF Pending
<1>5. \A c : c \in Doomed' <=> c \in Doomed
  BY <1>0, <1>1, <1>3, PendingSets, PendingSetsPrime
<1>6. \A r : r \in Ending' <=> r \in Ending \union rooms
  BY <1>0, <1>1, <1>3, PendingSets, PendingSetsPrime
<1>7. \A r : r \in Relisting' <=> r \in Relisting
  BY <1>0, <1>1, <1>3, PendingSets, PendingSetsPrime
<1> QED BY <1>4, <1>5, <1>6, <1>7

\* One talk announced to be over.
LEMMA AfterReleased ==
  ASSUME TypeOK, StackInv, Calls("released"), NEW full \in SUBSET Client,
         NEW r \in Head(todo).rooms,
         todo' = Evicting(full) \o <<Users(r)>>
                   \o Releasing(Head(todo).rooms \ {r}) \o Tail(todo)
  PROVE  /\ StackInv' /\ Leaving' = {} /\ Beginning' = {}
         /\ Doomed' = Doomed \union full
         /\ Ending' \subseteq Ending
         /\ Ending \subseteq Ending' \union {r}
         /\ Relisting' = Relisting \union {r}
         /\ r \in Room
<1> DEFINE rest  == Tasks(Tail(todo))
           rooms == Head(todo).rooms \ {r}
           ev    == IF full = {} THEN {} ELSE {Evict(full)}
           more  == IF rooms = {} THEN {} ELSE {Released(rooms)}
<1>0. todo # <<>> /\ Head(todo).op = "released"
  BY DEF Calls
<1>1. /\ Head(todo) \in Task /\ Tail(todo) \in Seq(Task)
      /\ Pending = {Head(todo)} \union rest
  BY <1>0, StackAfter, EvictingTasks
<1>2. r \in Room /\ rooms \in SUBSET Room
  BY <1>1, TaskFields
<1>3. /\ todo' \in Seq(Task)
      /\ Pending' = ev \union {Users(r)} \union more \union rest
  <2>1. <<Users(r)>> \in Seq(Task) /\ Tasks(<<Users(r)>>) = {Users(r)}
    BY <1>2, TaskTypes, OneTask
  <2>2. Evicting(full) \in Seq(Task) /\ Tasks(Evicting(full)) = ev
    BY EvictingTasks
  <2>3. Releasing(rooms) \in Seq(Task) /\ Tasks(Releasing(rooms)) = more
    BY <1>2, ReleasingTasks
  <2>4. /\ Evicting(full) \o <<Users(r)>> \in Seq(Task)
        /\ Tasks(Evicting(full) \o <<Users(r)>>) = ev \union {Users(r)}
    BY <2>1, <2>2, StackConcat
  <2>5. /\ Evicting(full) \o <<Users(r)>> \o Releasing(rooms) \in Seq(Task)
        /\ Tasks(Evicting(full) \o <<Users(r)>> \o Releasing(rooms))
              = ev \union {Users(r)} \union more
    BY <2>3, <2>4, StackConcat
  <2> QED BY <1>1, <2>5, StackConcat DEF Pending
<1>4. \A t \in rest : t.op \notin {"release", "talking"}
  BY <1>0 DEF StackInv
<1>5. /\ Released(rooms).op = "released" /\ Released(rooms).rooms = rooms
      /\ Evict(full).op = "evict" /\ Evict(full).who = full
      /\ Users(r).op = "users" /\ Users(r).rooms = {r}
  BY DEF Released, Evict, Users
<1>6. StackInv' /\ Leaving' = {} /\ Beginning' = {}
  BY <1>3, <1>4, <1>5, PlainStack DEF Pending
<1>7. \A c : c \in Doomed' <=> c \in Doomed \union full
  BY <1>0, <1>1, <1>3, <1>5, PendingSets, PendingSetsPrime
<1>8. \A q : q \in Ending' => q \in Ending
  BY <1>0, <1>1, <1>3, <1>5, PendingSets, PendingSetsPrime
<1>9. \A q : q \in Ending => q \in Ending' \/ q = r
  BY <1>0, <1>1, <1>3, <1>5, PendingSets, PendingSetsPrime
<1>10. \A q : q \in Relisting' <=> q \in Relisting \/ q = r
  <2>1. /\ \A q : q \in Relisting  <=> \E t \in rest : t.op = "users" /\ q \in t.rooms
        /\ \A t \in more \union ev : t.op # "users"
    BY <1>0, <1>1, <1>5, PendingSets
  <2> QED BY <1>3, <1>5, <2>1, PendingSetsPrime
<1> QED BY <1>2, <1>6, <1>7, <1>8, <1>9, <1>10

\* One of the clients found full: removed, or found to be gone already.
LEMMA AfterEvict ==
  ASSUME TypeOK, StackInv, Calls("evict"), NEW c \in Head(todo).who, c \notin clients',
         \/ todo' = <<Release(c)>> \o (Evicting(Head(todo).who \ {c}) \o Tail(todo))
         \/ todo' = Evicting(Head(todo).who \ {c}) \o Tail(todo)
  PROVE  /\ StackInv' /\ Beginning' = {}
         /\ Doomed \subseteq Doomed' \union {c} /\ Doomed' \subseteq Doomed
         /\ Ending' = Ending
         /\ Relisting' = Relisting
         /\ Leaving' = IF todo' = Evicting(Head(todo).who \ {c}) \o Tail(todo)
                          THEN {} ELSE {c}
         /\ c \in Client
<1> DEFINE rest == Tasks(Tail(todo))
           who  == Head(todo).who \ {c}
           next == Evicting(who) \o Tail(todo)
           ev   == IF who = {} THEN {} ELSE {Evict(who)}
<1>0. todo # <<>> /\ Head(todo).op = "evict"
  BY DEF Calls
<1>1. /\ Head(todo) \in Task /\ Tail(todo) \in Seq(Task)
      /\ Pending = {Head(todo)} \union rest
  BY <1>0, StackAfter, EvictingTasks
<1>2. c \in Client /\ who \in SUBSET Client
  BY <1>1, TaskFields
<1>3. next \in Seq(Task) /\ Tasks(next) = ev \union rest
  <2>1. Evicting(who) \in Seq(Task) /\ Tasks(Evicting(who)) = ev
    BY <1>2, EvictingTasks
  <2> QED BY <1>1, <2>1, StackConcat
<1>4. Evict(who).op = "evict" /\ Evict(who).who = who
      /\ Release(c).op = "release" /\ Release(c).who = {c}
  BY DEF Evict, Release
<1>5. \A t \in Tasks(next) : t.op \notin {"release", "talking"}
  <2>1. \A t \in rest : t.op \notin {"release", "talking"}
    BY <1>0 DEF StackInv
  <2> QED BY <1>3, <1>4, <2>1
<1>6. CASE todo' = next
  <2>1. StackInv' /\ Leaving' = {} /\ Beginning' = {}
    BY <1>3, <1>5, <1>6, PlainStack
  <2>2. Pending' = ev \union rest
    BY <1>3, <1>6 DEF Pending
  <2>3. \A d : (d \in Doomed => d \in Doomed' \/ d = c) /\ (d \in Doomed' => d \in Doomed)
    BY <1>0, <1>1, <1>4, <2>2, PendingSets, PendingSetsPrime
  <2>4. \A r : r \in Ending' <=> r \in Ending
    BY <1>0, <1>1, <1>4, <2>2, PendingSets, PendingSetsPrime
  <2>5. \A r : r \in Relisting' <=> r \in Relisting
    BY <1>0, <1>1, <1>4, <2>2, PendingSets, PendingSetsPrime
  <2> QED BY <1>2, <1>6, <2>1, <2>3, <2>4, <2>5
<1>7. CASE todo' = <<Release(c)>> \o next /\ todo' # next
  <2>1. /\ Head(todo') = Release(c) /\ Tail(todo') = next /\ todo' # <<>>
        /\ Pending' = {Release(c)} \union ev \union rest
    <3> HIDE DEF next
    <3>1. Release(c) \in Task
      BY <1>2, TaskTypes
    <3>2. /\ Head(<<Release(c)>> \o next) = Release(c)
          /\ Tail(<<Release(c)>> \o next) = next
          /\ <<Release(c)>> \o next # <<>>
          /\ Tasks(<<Release(c)>> \o next) = {Release(c)} \union Tasks(next)
      BY <1>3, <3>1, StackPush
    <3> QED BY <1>3, <1>7, <3>2 DEF Pending
  <2>2. StackInv' /\ Leaving' = {c} /\ Beginning' = {}
    BY <1>2, <1>4, <1>5, <2>1 DEF StackInv, Leaving, Beginning, Calls
  <2>3. \A d : (d \in Doomed => d \in Doomed' \/ d = c) /\ (d \in Doomed' => d \in Doomed)
    BY <1>0, <1>1, <1>4, <2>1, PendingSets, PendingSetsPrime
  <2>4. \A r : r \in Ending' <=> r \in Ending
    BY <1>0, <1>1, <1>4, <2>1, PendingSets, PendingSetsPrime
  <2>5. \A r : r \in Relisting' <=> r \in Relisting
    BY <1>0, <1>1, <1>4, <2>1, PendingSets, PendingSetsPrime
  <2> QED BY <1>2, <1>7, <2>2, <2>3, <2>4, <2>5
<1> QED BY <1>6, <1>7

-----------------------------------------------------------------------------
(* The inductive invariant: initially, and kept by every step.             *)

\* The invariant holds at first: nobody is registered and no handler runs.
LEMMA InvInit == Init => IInv
<1> SUFFICES ASSUME Init PROVE IInv
  OBVIOUS
<1> USE HubAssumption
<1>1. TypeOK
  BY TypeInit
<1>2. StackInv /\ Ending = {} /\ Relisting = {} /\ Doomed = {} /\ Leaving = {}
  BY NothingPending DEF Init, StackInv
<1>3. ReaderInv /\ FloorInv /\ StatsInv
  BY <1>2 DEF Init, ReaderInv, FloorInv, StatsInv
<1>4. HeardInv /\ FreshInv /\ AudioInTalk /\ TalkerInv
  BY DEF Init, HeardInv, FreshInv, AudioInTalk, TalkerInv
<1> QED BY <1>1, <1>2, <1>3, <1>4 DEF IInv

\* A step that leaves the hub's own state and what clients were told alone.
LEMMA ReaderStep ==
  ASSUME IInv, TypeOK', ReaderInv', UNCHANGED <<hub, todo, told>>
  PROVE  IInv'
<1>1. UNCHANGED <<clients, closed, speakers, idle, audioStats, todo,
                  heard, played, roster, talker, lobby>>
  BY DEF hub, told
<1>2. StackInv'
  BY <1>1 DEF IInv, StackInv
<1>3. /\ Doomed' = Doomed /\ Ending' = Ending /\ Relisting' = Relisting
      /\ Leaving' = Leaving /\ Beginning' = Beginning
  BY <1>1 DEF Doomed, Ending, Relisting, Pending, Leaving, Beginning, Calls
<1>4. FloorInv' /\ StatsInv'
  BY <1>1, <1>3 DEF IInv, FloorInv, StatsInv
<1>5. HeardInv' /\ FreshInv' /\ AudioInTalk' /\ TalkerInv'
  <2>1. \A c \in clients : RoomOf[c] \in Room
    BY HubAssumption DEF IInv, TypeOK
  <2> QED BY <1>1, <1>3, <2>1 DEF IInv, HeardInv, FreshInv, AudioInTalk, TalkerInv
<1> QED BY <1>2, <1>4, <1>5 DEF IInv

\* What a reader asks of the hub changes nothing that the hub keeps.
LEMMA InvRequest ==
  ASSUME IInv, TypeOK', NEW c \in Client, Request(c)
  PROVE  IInv'
<1> USE DEF Goes, ReaderInv, TypeOK
<1>0. ReaderInv /\ TypeOK
  BY DEF IInv
<1>1. CASE Connect(c)
  <2>1. ReaderInv' /\ UNCHANGED <<hub, todo, told>>
    BY <1>0, <1>1 DEF Connect, hub
  <2> QED BY <2>1, ReaderStep
<1>2. CASE \E r \in Room : PressTalk(c, r)
  <2>1. ReaderInv' /\ UNCHANGED <<hub, todo, told>>
    BY <1>0, <1>2 DEF PressTalk, Reading, hub
  <2> QED BY <2>1, ReaderStep
<1>3. CASE \E r \in Room : ReleaseTalk(c, r)
  <2>1. ReaderInv' /\ UNCHANGED <<hub, todo, told>>
    BY <1>0, <1>3 DEF ReleaseTalk, Reading, hub
  <2> QED BY <2>1, ReaderStep
<1>4. CASE \E r \in Room : SendChat(c, r)
  <2>1. ReaderInv' /\ UNCHANGED <<hub, todo, told>>
    BY <1>0, <1>4 DEF SendChat, hub
  <2> QED BY <2>1, ReaderStep
<1>5. CASE \E valid \in BOOLEAN : SendAudio(c, valid)
  <2>1. ReaderInv' /\ UNCHANGED <<hub, todo, told>>
    BY <1>0, <1>5 DEF SendAudio, hub
  <2> QED BY <2>1, ReaderStep
<1>6. CASE ReadFails(c)
  <2>1. ReaderInv' /\ UNCHANGED <<hub, todo, told>>
    BY <1>0, <1>6 DEF ReadFails, Reading, hub
  <2> QED BY <2>1, ReaderStep
<1> QED BY <1>1, <1>2, <1>3, <1>4, <1>5, <1>6 DEF Request

\* Time only ages the floors that are held.
LEMMA InvElapse == ASSUME IInv, TypeOK', Elapse PROVE IInv'
<1>1. UNCHANGED <<reader, clients, closed, speakers, audioStats, todo,
                  heard, played, roster, talker, lobby>>
  BY DEF Elapse, told
<1>2. StackInv' /\ ReaderInv'
  BY <1>1 DEF IInv, StackInv, ReaderInv
<1>3. /\ Doomed' = Doomed /\ Ending' = Ending /\ Relisting' = Relisting
      /\ Leaving' = Leaving /\ Beginning' = Beginning
  BY <1>1 DEF Doomed, Ending, Relisting, Pending, Leaving, Beginning, Calls
<1>4. FloorInv'
  BY <1>1, <1>3 DEF IInv, FloorInv, Elapse
<1>5. StatsInv'
  BY <1>1, <1>3 DEF IInv, StatsInv
<1>6. HeardInv' /\ FreshInv' /\ AudioInTalk' /\ TalkerInv'
  <2>1. \A c \in clients : RoomOf[c] \in Room
    BY HubAssumption DEF IInv, TypeOK
  <2> QED BY <1>1, <1>3, <2>1 DEF IInv, HeardInv, FreshInv, AudioInTalk, TalkerInv
<1> QED BY <1>2, <1>4, <1>5, <1>6 DEF IInv

\* The stack that a handler of register, unregister or a granted start begins
\* with.
LEMMA AfterRegister ==
  ASSUME NEW r \in Room, todo' = <<List, Users(r)>>
  PROVE  /\ StackInv' /\ Leaving' = {} /\ Beginning' = {}
         /\ Doomed' = {} /\ Ending' = {} /\ Relisting' = {r}
<1>1. todo' \in Seq(Task) /\ Pending' = {List, Users(r)}
  BY TaskTypes DEF Pending, Tasks
<1>2. List.op = "list" /\ Users(r).op = "users" /\ Users(r).rooms = {r}
  BY DEF List, Users
<1>3. StackInv' /\ Leaving' = {} /\ Beginning' = {}
  BY <1>1, <1>2, PlainStack DEF Pending
<1>4. Doomed' = {} /\ Ending' = {} /\ Relisting' = {r}
  BY <1>1, <1>2, PendingSetsPrime
<1> QED BY <1>3, <1>4

\* An unregister removes its client and then releases its floors.
LEMMA AfterUnregister ==
  ASSUME NEW c \in Client, c \notin clients', NEW r \in Room,
         todo' = <<Release(c), List, Users(r)>>
  PROVE  /\ StackInv' /\ Leaving' = {c} /\ Beginning' = {}
         /\ Doomed' = {} /\ Ending' = {} /\ Relisting' = {r}
<1>1. /\ todo' # <<>> /\ Head(todo') = Release(c) /\ Tail(todo') = <<List, Users(r)>>
      /\ Pending' = {Release(c), List, Users(r)}
      /\ Tasks(Tail(todo')) = {List, Users(r)}
  BY TaskTypes DEF Pending, Tasks
<1>2. /\ Release(c).op = "release" /\ Release(c).who = {c}
      /\ List.op = "list" /\ Users(r).op = "users" /\ Users(r).rooms = {r}
  BY DEF Release, List, Users
<1>3. StackInv' /\ Leaving' = {c} /\ Beginning' = {}
  BY <1>1, <1>2 DEF StackInv, Leaving, Beginning, Calls
<1>4. Doomed' = {} /\ Ending' = {} /\ Relisting' = {r}
  BY <1>1, <1>2, PendingSetsPrime
<1> QED BY <1>3, <1>4

\* A granted start announces the talk before anything else.
LEMMA AfterGrant ==
  ASSUME NEW c \in clients', NEW r \in Room, speakers'[r] = c,
         todo' = <<Talking(c, r), Users(r)>>
  PROVE  /\ StackInv' /\ Leaving' = {} /\ Beginning' = {r}
         /\ Doomed' = {} /\ Ending' = {} /\ Relisting' = {r}
<1>1. /\ todo' # <<>> /\ Head(todo') = Talking(c, r) /\ Tail(todo') = <<Users(r)>>
      /\ Pending' = {Talking(c, r), Users(r)}
      /\ Tasks(Tail(todo')) = {Users(r)}
  BY TaskTypes DEF Pending, Tasks
<1>2. /\ Talking(c, r).op = "talking" /\ Talking(c, r).rooms = {r}
      /\ Users(r).op = "users" /\ Users(r).rooms = {r}
  BY DEF Talking, Users
<1>3. StackInv' /\ Leaving' = {} /\ Beginning' = {r}
  BY <1>1, <1>2 DEF StackInv, Leaving, Beginning, Calls
<1>4. Doomed' = {} /\ Ending' = {} /\ Relisting' = {r}
  BY <1>1, <1>2, PendingSetsPrime
<1> QED BY <1>3, <1>4

\* Floors become free between two handlers: the talks in them are Ending.
LEMMA FreeStep ==
  ASSUME IInv, TypeOK', todo = <<>>, ReaderInv', NEW rooms \in SUBSET Room,
         FreeFloors(rooms), todo' = Releasing(rooms),
         UNCHANGED <<clients, closed, audioStats, heard, played, roster, talker>>
  PROVE  IInv'
<1> USE HubAssumption
<1>a. TypeOK /\ FloorInv /\ StatsInv /\ HeardInv /\ FreshInv
      /\ AudioInTalk /\ TalkerInv
  BY DEF IInv
<1>c. Doomed = {} /\ Ending = {} /\ Relisting = {} /\ Leaving = {}
      /\ Beginning = {}
  BY NothingPending DEF Beginning, Calls
<1>1. /\ StackInv' /\ Leaving' = {} /\ Beginning' = {}
      /\ Doomed' = {} /\ Ending' = rooms /\ Relisting' = {}
  BY <1>a, AfterFree
<1>2. \A r \in Room : /\ r \in rooms => speakers'[r] = None /\ idle'[r] = 0
                      /\ r \notin rooms => speakers'[r] = speakers[r] /\ idle'[r] = idle[r]
  BY DEF FreeFloors
<1>3. FloorInv'
  BY <1>a, <1>c, <1>1, <1>2 DEF FloorInv
<1>4. StatsInv'
  BY <1>a, <1>c, <1>1, <1>2 DEF StatsInv
<1>5. HeardInv'
  BY <1>a, <1>c, <1>1, <1>2 DEF HeardInv, TypeOK
<1>6. AudioInTalk' /\ FreshInv'
  BY <1>a DEF AudioInTalk, FreshInv
<1>7. TalkerInv'
  BY <1>a, <1>c, <1>1, <1>2 DEF TalkerInv, TypeOK
<1> QED BY <1>1, <1>3, <1>4, <1>5, <1>6, <1>7 DEF IInv

\* What the hub receives from a blocked reader: register, unregister, start,
\* stop (hub.go:129-139, 163-167).
LEMMA InvServe ==
  ASSUME IInv, TypeOK', NEW c \in Client, Serve(c)
  PROVE  IInv'
<1> USE HubAssumption
<1>a. TypeOK /\ StackInv /\ ReaderInv /\ FloorInv /\ StatsInv /\ HeardInv
      /\ FreshInv /\ AudioInTalk /\ TalkerInv
  BY DEF IInv
<1>b. todo = <<>>
  BY DEF Serve, HubRegister, HubUnregister, Snapshots, HubStart, GrantCalls, HubStop, Stops,
         Selecting
<1>c. Doomed = {} /\ Ending = {} /\ Relisting = {} /\ Leaving = {}
      /\ Beginning = {}
  BY <1>b, NothingPending DEF Beginning, Calls
<1>d. \A d \in Client : RoomOf[d] \in Room
  OBVIOUS
<1>1. CASE HubRegister(c)
  <2>1. /\ clients' = clients \union {c}
        /\ UNCHANGED <<closed, speakers, idle, audioStats,
                       heard, played, roster, talker, lobby>>
        /\ c \notin clients \union closed
    BY <1>1, <1>a DEF HubRegister, Snapshots, ReaderInv, told
  <2>2. /\ StackInv' /\ Leaving' = {} /\ Beginning' = {}
        /\ Doomed' = {} /\ Ending' = {} /\ Relisting' = {RoomOf[c]}
    BY <1>1, <1>d, AfterRegister DEF HubRegister, Snapshots
  <2>3. ReaderInv'
    BY <1>1, <1>a, <2>1 DEF HubRegister, Snapshots, Goes, ReaderInv, TypeOK
  <2>4. FloorInv' /\ StatsInv'
    BY <1>a, <1>c, <2>1, <2>2 DEF FloorInv, StatsInv
  <2>5. HeardInv'
    <3>1. heard[c] = Unknown
      BY <1>a, <2>1 DEF FreshInv
    <3> QED BY <1>a, <1>c, <1>d, <2>1, <2>2, <3>1 DEF HeardInv
  <2>7. AudioInTalk' /\ FreshInv'
    BY <1>a, <2>1 DEF AudioInTalk, FreshInv
  <2>6. TalkerInv'
    BY <1>a, <1>c, <1>d, <2>1, <2>2 DEF TalkerInv
  <2> QED BY <2>2, <2>3, <2>4, <2>5, <2>6, <2>7 DEF IInv
<1>2. CASE HubUnregister(c)
  <2>0. UNCHANGED <<speakers, idle, audioStats, heard, played, roster, talker, lobby>>
    BY <1>2 DEF HubUnregister, Snapshots, told
  <2>1. CASE c \in clients
    <3>1. /\ clients' = clients \ {c} /\ closed' = closed \union {c}
          /\ todo' = <<Release(c), List, Users(RoomOf[c])>>
      BY <1>2, <2>1 DEF HubUnregister, Snapshots, Remove
    <3>2. /\ StackInv' /\ Leaving' = {c} /\ Beginning' = {}
          /\ Doomed' = {} /\ Ending' = {} /\ Relisting' = {RoomOf[c]}
      BY <3>1, <1>d, AfterUnregister
    <3>3. ReaderInv'
      BY <1>2, <1>a, <2>1, <3>1 DEF HubUnregister, Snapshots, Goes, ReaderInv, TypeOK
    <3>4. FloorInv' /\ StatsInv'
      BY <1>a, <1>c, <2>0, <3>1, <3>2 DEF FloorInv, StatsInv
    <3>5. HeardInv'
      BY <1>a, <1>c, <1>d, <2>0, <2>1, <3>1, <3>2 DEF HeardInv
    <3>7. AudioInTalk' /\ FreshInv'
      BY <1>a, <2>0, <3>1 DEF AudioInTalk, FreshInv
    <3>6. TalkerInv'
      BY <1>a, <1>c, <1>d, <2>0, <3>1, <3>2 DEF TalkerInv
    <3> QED BY <3>2, <3>3, <3>4, <3>5, <3>6, <3>7 DEF IInv
  <2>2. CASE c \notin clients
    <3>1. UNCHANGED <<hub, todo, told>>
      BY <1>2, <2>2 DEF HubUnregister, Snapshots, hub
    <3>2. ReaderInv'
      BY <1>2, <1>a, <2>2, <3>1 DEF HubUnregister, Snapshots, Goes, ReaderInv, TypeOK, hub
    <3> QED BY <3>1, <3>2, ReaderStep
  <2> QED BY <2>1, <2>2
<1>3. CASE HubStart(c)
  <2> DEFINE r == reader[c].room
  <2>0. /\ UNCHANGED <<clients, closed, heard, played, roster, talker, lobby>>
        /\ r \in Room
    BY <1>3, <1>a DEF HubStart, GrantCalls, told, TypeOK
  <2>r. ReaderInv'
    BY <1>3, <1>a, <2>0 DEF HubStart, GrantCalls, Goes, ReaderInv, TypeOK
  <2>1. CASE Grants(c, r)
    <3>1. /\ speakers' = [speakers EXCEPT ![r] = c]
          /\ idle' = [idle EXCEPT ![r] = 0]
          /\ audioStats' = [audioStats EXCEPT ![r] = c]
          /\ todo' = <<Talking(c, r), Users(r)>>
      BY <1>3, <2>1 DEF HubStart, GrantCalls
    <3>2. c \in clients /\ speakers[r] = None /\ c \in clients' /\ c # None
      BY <2>0, <2>1 DEF Grants
    <3> HIDE DEF r
    <3>3. speakers'[r] = c /\ \A q \in Room \ {r} : speakers'[q] = speakers[q]
      BY <1>a, <2>0, <3>1 DEF TypeOK
    <3>4. /\ StackInv' /\ Leaving' = {} /\ Beginning' = {r}
          /\ Doomed' = {} /\ Ending' = {} /\ Relisting' = {r}
      BY <2>0, <3>1, <3>2, <3>3, AfterGrant
    <3>5. FloorInv'
      BY <1>a, <1>c, <2>0, <3>1, <3>2, <3>3, <3>4 DEF FloorInv, TypeOK
    <3>6. StatsInv'
      BY <1>a, <1>c, <2>0, <3>1, <3>2, <3>3, <3>4 DEF StatsInv, TypeOK
    <3>7. HeardInv'
      <4>1. ASSUME NEW d \in clients', RoomOf[d] = r
            PROVE  heard[d] \in {Unknown, Quiet}
        BY <1>a, <1>c, <2>0, <3>2, <4>1 DEF HeardInv
      <4> QED BY <1>a, <1>c, <1>d, <2>0, <3>3, <3>4, <4>1 DEF HeardInv, TypeOK
    <3>8. AudioInTalk' /\ FreshInv'
      BY <1>a, <2>0 DEF AudioInTalk, FreshInv
    <3>9. TalkerInv'
      BY <1>a, <1>c, <1>d, <2>0, <3>3, <3>4 DEF TalkerInv, TypeOK
    <3> QED BY <2>r, <3>4, <3>5, <3>6, <3>7, <3>8, <3>9 DEF IInv
  <2>2. CASE ~Grants(c, r)
    <3>1. UNCHANGED <<hub, todo, told>>
      BY <1>3, <2>2 DEF HubStart, GrantCalls, hub
    <3> QED BY <3>1, <2>r, ReaderStep
  <2> QED BY <2>1, <2>2
<1>4. CASE HubStop(c)
  <2> DEFINE r == reader[c].room
  <2>0. /\ UNCHANGED <<clients, closed, audioStats, heard, played, roster, talker, lobby>>
        /\ r \in Room
    BY <1>4, <1>a DEF HubStop, Stops, told, TypeOK
  <2>r. ReaderInv'
    BY <1>4, <1>a, <2>0 DEF HubStop, Stops, Goes, ReaderInv, TypeOK
  <2>1. CASE speakers[r] = c
    <3>1. FreeFloors({r}) /\ todo' = Releasing({r})
      BY <1>4, <2>1 DEF HubStop, Stops
    <3> QED BY <1>a, <1>b, <2>0, <2>r, <3>1, FreeStep
  <2>2. CASE speakers[r] # c
    <3>1. UNCHANGED <<hub, todo, told>>
      BY <1>4, <2>2 DEF HubStop, Stops, hub
    <3> QED BY <3>1, <2>r, ReaderStep
  <2> QED BY <2>1, <2>2
<1> QED BY <1>1, <1>2, <1>3, <1>4 DEF Serve

\* Audio reaches the listeners only while they know who talks.
LEMMA InvAudio == ASSUME IInv, TypeOK', HubAudio PROVE IInv'
<1> USE HubAssumption
<1>a. TypeOK /\ ReaderInv /\ FloorInv /\ StatsInv /\ HeardInv
      /\ FreshInv /\ AudioInTalk /\ TalkerInv
  BY DEF IInv
<1>b. todo = <<>>
  BY DEF HubAudio, Accepts, Selecting
<1>c. Doomed = {} /\ Ending = {} /\ Relisting = {} /\ Leaving = {}
      /\ Beginning = {}
  BY <1>b, NothingPending DEF Beginning, Calls
<1> DEFINE s == Head(audioFrame).sender
           r == RoomOf[s]
<1>1. s \in Client /\ r \in Room
  <2>1. Head(audioFrame) \in [sender : Client, valid : BOOLEAN]
    BY <1>a, TasksHeadTail DEF HubAudio, Accepts, TypeOK
  <2> QED BY <2>1
<1>2. /\ UNCHANGED <<reader, clients, closed, speakers, heard, roster, talker>>
      /\ audioStats' = [audioStats EXCEPT ![r] = IF @ = None THEN Stray ELSE @]
  BY DEF HubAudio, Accepts
<1>3. PICK full \in SUBSET Client :
        /\ todo' = Evicting(full)
        /\ \A q \in Room : idle'[q] = 0 \/ idle'[q] = idle[q]
        /\ \A d \in Client :
             \/ played'[d] = played[d]
             \/ d \in clients /\ RoomOf[d] = r /\ speakers[r] = s /\ played'[d] = s
  <2>1. CASE Head(audioFrame).valid /\ speakers[r] = s
    <3>1. PICK full \in SUBSET (Slow \intersect (Members(r) \ {s})) :
            /\ idle' = [idle EXCEPT ![r] = 0]
            /\ played' = [d \in Client |-> IF d \in Members(r) \ ({s} \union full)
                                             THEN s ELSE played[d]]
            /\ todo' = Evicting(full)
      BY <2>1 DEF HubAudio, Accepts
    <3> QED BY <1>a, <2>1, <3>1 DEF Members, TypeOK
  <2>2. CASE ~(Head(audioFrame).valid /\ speakers[r] = s)
    <3>1. UNCHANGED <<idle, played, todo>>
      BY <2>2 DEF HubAudio, Accepts
    <3> QED BY <1>b, <3>1 DEF Evicting
  <2> QED BY <2>1, <2>2
<1>4. /\ StackInv' /\ Leaving' = {} /\ Beginning' = {}
      /\ Doomed' = full /\ Ending' = {} /\ Relisting' = {}
  BY <1>a, <1>b, <1>3, AfterSend
<1> HIDE DEF s, r
<1>5. ReaderInv'
  BY <1>a, <1>2 DEF ReaderInv
<1>6. FloorInv'
  BY <1>a, <1>c, <1>2, <1>3, <1>4 DEF FloorInv
<1>7. StatsInv'
  BY <1>a, <1>c, <1>1, <1>2, <1>4 DEF StatsInv, TypeOK
<1>8. HeardInv'
  BY <1>a, <1>c, <1>2, <1>4 DEF HeardInv
<1>9. AudioInTalk'
  <2>1. ASSUME NEW d \in clients, RoomOf[d] = r, speakers[r] = s
        PROVE  heard[d] \in {Unknown, s}
    BY <1>a, <1>c, <1>1, <2>1 DEF HeardInv, TypeOK
  <2> QED BY <1>a, <1>2, <1>3, <2>1 DEF AudioInTalk
<1>10. TalkerInv' /\ FreshInv'
  BY <1>a, <1>c, <1>2, <1>4 DEF TalkerInv, FreshInv
<1> QED BY <1>4, <1>5, <1>6, <1>7, <1>8, <1>9, <1>10 DEF IInv

\* A chat message only makes evictions (hub.go:141-161).
LEMMA InvChat == ASSUME IInv, TypeOK', HubChat PROVE IInv'
<1>a. TypeOK /\ ReaderInv /\ FloorInv /\ StatsInv /\ HeardInv
      /\ FreshInv /\ AudioInTalk /\ TalkerInv
  BY DEF IInv
<1>b. todo = <<>>
  BY DEF HubChat, Selecting
<1>c. Doomed = {} /\ Ending = {} /\ Relisting = {} /\ Leaving = {}
      /\ Beginning = {}
  BY <1>b, NothingPending DEF Beginning, Calls
<1>1. /\ UNCHANGED <<reader, clients, closed, speakers, idle, audioStats,
                     heard, played, roster, talker>>
  BY DEF HubChat, hub, told
<1>2. PICK full \in SUBSET Client : todo' = Evicting(full)
  BY HubAssumption DEF HubChat
<1>3. /\ StackInv' /\ Leaving' = {} /\ Beginning' = {}
      /\ Doomed' = full /\ Ending' = {} /\ Relisting' = {}
  BY <1>a, <1>b, <1>2, AfterSend
<1>4. ReaderInv' /\ FreshInv' /\ AudioInTalk'
  BY <1>a, <1>1 DEF ReaderInv, FreshInv, AudioInTalk
<1>5. FloorInv'
  BY <1>a, <1>c, <1>1, <1>3 DEF FloorInv
<1>6. StatsInv'
  BY <1>a, <1>c, <1>1, <1>3 DEF StatsInv
<1>7. HeardInv'
  BY <1>a, <1>c, <1>1, <1>3 DEF HeardInv
<1>8. TalkerInv'
  BY <1>a, <1>c, <1>1, <1>3 DEF TalkerInv
<1> QED BY <1>3, <1>4, <1>5, <1>6, <1>7, <1>8 DEF IInv

\* The timeout frees floors whose talks are then Ending (hub.go:678-721).
LEMMA InvTick == ASSUME IInv, TypeOK', HubTick PROVE IInv'
<1>1. PICK rooms \in SUBSET Room : FreeFloors(rooms) /\ todo' = Releasing(rooms)
  BY DEF HubTick, Overdue
<1>2. /\ UNCHANGED <<reader, clients, closed, audioStats, heard, played, roster, talker>>
      /\ todo = <<>>
  BY DEF HubTick, Overdue, Selecting, told
<1>3. ReaderInv'
  BY <1>2 DEF IInv, ReaderInv
<1> QED BY <1>1, <1>2, <1>3, FreeStep

-----------------------------------------------------------------------------
(* The calls of a handler keep the invariant.                              *)

\* An eviction removes its client, whose release is the next call.
LEMMA InvEvict == ASSUME IInv, TypeOK', DoEvict PROVE IInv'
<1>a. TypeOK /\ StackInv /\ ReaderInv /\ FloorInv /\ StatsInv /\ HeardInv
      /\ FreshInv /\ AudioInTalk /\ TalkerInv
  BY DEF IInv
<1>b. Calls("evict") /\ Leaving = {} /\ Beginning = {}
  BY DEF DoEvict, Calls, Leaving, Beginning
<1>0. PICK c \in Head(todo).who :
        LET rest == Evicting(Head(todo).who \ {c}) \o Tail(todo)
        IN  IF c \in clients
               THEN /\ Remove(c)
                    /\ todo' = <<Release(c)>> \o rest
               ELSE /\ UNCHANGED <<clients, closed>>
                    /\ todo' = rest
  BY DEF DoEvict
<1> DEFINE rest == Evicting(Head(todo).who \ {c}) \o Tail(todo)
<1>1. UNCHANGED <<reader, speakers, idle, audioStats, heard, played, roster, talker>>
  BY DEF DoEvict, told
<1>2. /\ clients' = clients \ {c}
      /\ c \in clients    => closed' = closed \union {c} /\ todo' = <<Release(c)>> \o rest
      /\ c \notin clients => closed' = closed /\ todo' = rest
  BY <1>0 DEF Remove
<1>3. /\ StackInv' /\ Beginning' = {}
      /\ Doomed \subseteq Doomed' \union {c}
      /\ Ending' = Ending /\ Relisting' = Relisting
      /\ c \in Client
      /\ Leaving' = IF todo' = rest THEN {} ELSE {c}
  BY <1>a, <1>b, <1>2, AfterEvict
<1>4. c \in clients => Leaving' = {c}
  <2> SUFFICES ASSUME c \in clients PROVE todo' # rest
    BY <1>3
  <2>1. rest \in Seq(Task)
    BY <1>a, <1>b, EvictingTasks, StackAfter, TaskFields DEF Calls
  <2>2. todo' = <<Release(c)>> \o rest
    BY <1>2
  <2> HIDE DEF rest
  <2> QED BY <2>1, <2>2
<1>5. ReaderInv'
  BY <1>a, <1>1, <1>2, <1>3 DEF ReaderInv
<1> HIDE DEF rest
<1>6. FloorInv'
  BY <1>a, <1>b, <1>1, <1>2, <1>3, <1>4 DEF FloorInv
<1>7. StatsInv'
  BY <1>a, <1>1, <1>3 DEF StatsInv
<1>8. HeardInv'
  BY <1>a, <1>b, <1>1, <1>2, <1>3 DEF HeardInv
<1>9. AudioInTalk' /\ FreshInv'
  BY <1>a, <1>1, <1>2 DEF AudioInTalk, FreshInv
<1>10. TalkerInv'
  BY <1>a, <1>1, <1>2, <1>3 DEF TalkerInv
<1> QED BY <1>3, <1>5, <1>6, <1>7, <1>8, <1>9, <1>10 DEF IInv

\* A removed client's floors are freed together: their talks are then Ending.
LEMMA InvRelease == ASSUME IInv, TypeOK', DoRelease PROVE IInv'
<1> USE HubAssumption
<1>a. TypeOK /\ StackInv /\ ReaderInv /\ FloorInv /\ StatsInv /\ HeardInv
      /\ FreshInv /\ AudioInTalk /\ TalkerInv
  BY DEF IInv
<1> DEFINE rooms == {r \in Room : speakers[r] \in Head(todo).who}
<1>0. /\ Calls("release") /\ FreeFloors(rooms) /\ todo' = Releasing(rooms) \o Tail(todo)
      /\ UNCHANGED <<reader, clients, closed, audioStats, heard, played, roster, talker>>
  BY DEF DoRelease, HeldBy, told
<1>b. Leaving = Head(todo).who /\ Beginning = {}
  BY <1>0 DEF Calls, Leaving, Beginning
<1>1. PICK c \in Client \ clients : Head(todo) = Release(c)
  BY <1>a, <1>0 DEF StackInv, Calls
<1>2. Leaving = {c} /\ rooms = {r \in Room : speakers[r] = c}
  BY <1>1, <1>b DEF Release
<1>3. /\ StackInv' /\ Leaving' = {} /\ Beginning' = {}
      /\ Doomed' = Doomed /\ Ending' = Ending \union rooms /\ Relisting' = Relisting
  BY <1>a, <1>0, AfterRelease
<1>4. \A r \in Room : /\ r \in rooms => speakers'[r] = None /\ idle'[r] = 0
                      /\ r \notin rooms => speakers'[r] = speakers[r] /\ idle'[r] = idle[r]
  BY <1>0 DEF FreeFloors
<1> HIDE DEF rooms
<1>5. ReaderInv' /\ FreshInv' /\ AudioInTalk'
  BY <1>a, <1>0 DEF ReaderInv, FreshInv, AudioInTalk
<1>6. FloorInv'
  <2>1. \A r \in Ending : r \in Room
    <3>1. \A t \in Pending : t \in Task
      BY <1>a DEF TypeOK, Pending, Tasks
    <3> QED BY <3>1, PendingSets, TaskFields
  <2> QED BY <1>a, <1>0, <1>1, <1>2, <1>3, <1>4, <2>1 DEF FloorInv, rooms
<1>7. StatsInv'
  BY <1>a, <1>0, <1>3, <1>4 DEF StatsInv
<1>8. HeardInv'
  BY <1>a, <1>b, <1>0, <1>3, <1>4 DEF HeardInv, TypeOK
<1>9. TalkerInv'
  BY <1>a, <1>0, <1>3, <1>4 DEF TalkerInv, TypeOK
<1> QED BY <1>3, <1>5, <1>6, <1>7, <1>8, <1>9 DEF IInv

\* The announcement of a new talk corrects what the room's clients were told,
\* but for those it finds full.
LEMMA InvTalking == ASSUME IInv, TypeOK', DoTalking PROVE IInv'
<1> USE HubAssumption
<1>a. TypeOK /\ StackInv /\ ReaderInv /\ FloorInv /\ StatsInv /\ HeardInv
      /\ FreshInv /\ AudioInTalk /\ TalkerInv
  BY DEF IInv
<1>0. /\ todo # <<>> /\ Head(todo).op = "talking"
      /\ UNCHANGED <<reader, clients, closed, speakers, idle, audioStats, roster, talker>>
  BY DEF DoTalking, Calls, hub
<1>1. PICK r \in Room : /\ speakers[r] \in clients
                       /\ todo = <<Talking(speakers[r], r), Users(r)>>
  BY <1>a, <1>0 DEF StackInv
<1>2. Head(todo).who = {speakers[r]} /\ Head(todo).rooms = {r}
  BY <1>1 DEF Talking
<1>3. PICK full \in SUBSET (Slow \intersect Members(r)) :
        Announce(r, full, speakers[r]) /\ todo' = Evicting(full) \o Tail(todo)
  BY <1>2 DEF DoTalking
<1>4. /\ StackInv' /\ Leaving' = {} /\ Beginning' = {}
      /\ Doomed' = Doomed \union full /\ Ending' = Ending
      /\ \A q \in Relisting : q \in Relisting'
  BY <1>a, <1>0, <1>3, AfterBroadcast
<1>5. Leaving = {} /\ Beginning = {r}
  BY <1>0, <1>2 DEF Leaving, Beginning, Calls
<1>6. \A d \in Client :
        /\ d \in clients /\ RoomOf[d] = r /\ d \notin full
              => heard'[d] = speakers[r] /\ played'[d] = None
        /\ d \notin clients \/ RoomOf[d] # r \/ d \in full
              => heard'[d] = heard[d] /\ played'[d] = played[d]
  BY <1>a, <1>3 DEF Announce, Members, TypeOK
<1>7. ReaderInv' /\ FreshInv'
  BY <1>a, <1>0, <1>6 DEF ReaderInv, FreshInv
<1>8. FloorInv'
  BY <1>a, <1>0, <1>4, <1>5 DEF FloorInv
<1>9. StatsInv'
  BY <1>a, <1>0, <1>4 DEF StatsInv
<1>10. HeardInv'
  BY <1>a, <1>0, <1>1, <1>4, <1>5, <1>6 DEF HeardInv, TypeOK
<1>11. AudioInTalk'
  BY <1>a, <1>6 DEF AudioInTalk
<1>12. TalkerInv'
  BY <1>a, <1>0, <1>4 DEF TalkerInv
<1> QED BY <1>4, <1>7, <1>8, <1>9, <1>10, <1>11, <1>12 DEF IInv

\* The end of a talk is announced and its statistics are dropped, room by room.
LEMMA InvReleased == ASSUME IInv, TypeOK', DoReleased PROVE IInv'
<1> USE HubAssumption
<1>a. TypeOK /\ StackInv /\ ReaderInv /\ FloorInv /\ StatsInv /\ HeardInv
      /\ FreshInv /\ AudioInTalk /\ TalkerInv
  BY DEF IInv
<1>0. /\ Calls("released") /\ todo # <<>> /\ Head(todo).op = "released"
      /\ UNCHANGED <<reader, clients, closed, speakers, idle, roster, talker>>
  BY DEF DoReleased, LogAndForget, Calls
<1>b. Leaving = {} /\ Beginning = {}
  BY <1>0 DEF Leaving, Beginning, Calls
<1>1. PICK r \in Head(todo).rooms :
        \E full \in SUBSET (Slow \intersect Members(r)) :
           /\ audioStats' = [audioStats EXCEPT ![r] = None]
           /\ Announce(r, full, Quiet)
           /\ todo' = Evicting(full) \o <<Users(r)>>
                        \o Releasing(Head(todo).rooms \ {r}) \o Tail(todo)
  BY DEF DoReleased, LogAndForget
<1>2. PICK full \in SUBSET (Slow \intersect Members(r)) :
           /\ audioStats' = [audioStats EXCEPT ![r] = None]
           /\ Announce(r, full, Quiet)
           /\ todo' = Evicting(full) \o <<Users(r)>>
                        \o Releasing(Head(todo).rooms \ {r}) \o Tail(todo)
  BY <1>1
<1>3. full \in SUBSET Client
  OBVIOUS
<1>4. /\ StackInv' /\ Leaving' = {} /\ Beginning' = {}
      /\ Doomed' = Doomed \union full
      /\ Ending' \subseteq Ending /\ Ending \subseteq Ending' \union {r}
      /\ Relisting' = Relisting \union {r}
      /\ r \in Room
  BY <1>a, <1>0, <1>2, <1>3, AfterReleased
<1>5. r \in Ending /\ speakers[r] = None
  <2>1. Head(todo) \in Pending
    BY <1>a, <1>0, TasksHeadTail DEF TypeOK, Pending
  <2> QED BY <1>a, <1>0, <2>1, PendingSets DEF FloorInv
<1>6. \A d \in Client :
        /\ d \in clients /\ RoomOf[d] = r /\ d \notin full
              => heard'[d] = Quiet /\ played'[d] = None
        /\ d \notin clients \/ RoomOf[d] # r \/ d \in full
              => heard'[d] = heard[d] /\ played'[d] = played[d]
  BY <1>2 DEF Announce, Members
<1>7. ReaderInv' /\ FreshInv'
  BY <1>a, <1>0, <1>6 DEF ReaderInv, FreshInv
<1>8. FloorInv'
  BY <1>a, <1>b, <1>0, <1>4 DEF FloorInv
<1>9. StatsInv'
  BY <1>a, <1>0, <1>2, <1>4, <1>5 DEF StatsInv, TypeOK
<1>10. HeardInv'
  <2> SUFFICES ASSUME NEW d \in clients, d \notin Doomed, d \notin full
               PROVE  \/ heard'[d] = Unknown
                      \/ heard'[d] = Quiet /\ speakers[RoomOf[d]] = None
                      \/ /\ heard'[d] \in Client
                         /\ heard'[d] = speakers[RoomOf[d]] \/ RoomOf[d] \in Ending'
    BY <1>0, <1>4 DEF HeardInv
  <2>1. CASE RoomOf[d] = r
    BY <1>a, <1>5, <1>6, <2>1 DEF TypeOK
  <2>2. CASE RoomOf[d] # r
    <3>1. heard'[d] = heard[d]
      BY <1>a, <1>6, <2>2 DEF TypeOK
    <3> QED BY <1>a, <1>b, <1>4, <2>2, <3>1 DEF HeardInv
  <2> QED BY <2>1, <2>2
<1>11. AudioInTalk'
  BY <1>a, <1>6 DEF AudioInTalk
<1>12. TalkerInv'
  BY <1>a, <1>0, <1>4 DEF TalkerInv
<1> QED BY <1>4, <1>7, <1>8, <1>9, <1>10, <1>11, <1>12 DEF IInv

\* The list of users shows the room's speaker to all but those it finds full.
LEMMA InvUsers == ASSUME IInv, TypeOK', DoUsers PROVE IInv'
<1> USE HubAssumption
<1>a. TypeOK /\ StackInv /\ ReaderInv /\ FloorInv /\ StatsInv /\ HeardInv
      /\ FreshInv /\ AudioInTalk /\ TalkerInv
  BY DEF IInv
<1>0. /\ todo # <<>> /\ Head(todo).op = "users"
      /\ UNCHANGED <<reader, clients, closed, speakers, idle, audioStats, heard, played>>
  BY DEF DoUsers, Calls, hub
<1>b. Leaving = {} /\ Beginning = {}
  BY <1>0 DEF Leaving, Beginning, Calls
<1>1. PICK r \in Head(todo).rooms :
        \E full \in SUBSET (Slow \intersect Members(r)), list \in Listings(r) :
          LET reached == Members(r) \ full
              shown   == IF speakers[r] \in list THEN speakers[r] ELSE None
          IN  /\ roster' = [c \in Client |-> IF c \in reached THEN list ELSE roster[c]]
              /\ talker' = [c \in Client |-> IF c \in reached THEN shown ELSE talker[c]]
              /\ todo' = Evicting(full) \o Tail(todo)
  BY DEF DoUsers
<1>2. PICK full \in SUBSET Client, list \in Listings(r) :
          LET reached == Members(r) \ full
              shown   == IF speakers[r] \in list THEN speakers[r] ELSE None
          IN  /\ roster' = [c \in Client |-> IF c \in reached THEN list ELSE roster[c]]
              /\ talker' = [c \in Client |-> IF c \in reached THEN shown ELSE talker[c]]
              /\ todo' = Evicting(full) \o Tail(todo)
  BY <1>1
<1>3. Head(todo).rooms = {r}
  <2>1. Head(todo) \in Task
    BY <1>a, <1>0, StackAfter, EvictingTasks
  <2> QED BY <1>0, <1>1, <2>1, TaskFields
<1>4. /\ StackInv' /\ Leaving' = {} /\ Beginning' = {}
      /\ Doomed' = Doomed \union full /\ Ending' = Ending
      /\ \A q \in Relisting : q \in Relisting' \/ q = r
  BY <1>a, <1>0, <1>2, <1>3, AfterBroadcast
<1>5. ReaderInv' /\ FreshInv' /\ AudioInTalk'
  BY <1>a, <1>0 DEF ReaderInv, FreshInv, AudioInTalk
<1>6. FloorInv'
  BY <1>a, <1>b, <1>0, <1>4 DEF FloorInv
<1>7. StatsInv'
  BY <1>a, <1>0, <1>4 DEF StatsInv
<1>8. HeardInv'
  BY <1>a, <1>b, <1>0, <1>4 DEF HeardInv
<1>9. TalkerInv'
  <2>1. \A d \in Client :
          /\ d \in clients /\ RoomOf[d] = r /\ d \notin full
                => roster'[d] = list
                   /\ talker'[d] = IF speakers[r] \in list THEN speakers[r] ELSE None
          /\ d \notin clients \/ RoomOf[d] # r \/ d \in full
                => roster'[d] = roster[d] /\ talker'[d] = talker[d]
    BY <1>2 DEF Members
  <2> QED BY <1>a, <1>0, <1>4, <2>1 DEF TalkerInv, TypeOK
<1> QED BY <1>4, <1>5, <1>6, <1>7, <1>8, <1>9 DEF IInv

\* The list of rooms says nothing of speakers.
LEMMA InvList == ASSUME IInv, TypeOK', DoList PROVE IInv'
<1> USE HubAssumption
<1>a. TypeOK /\ StackInv /\ ReaderInv /\ FloorInv /\ StatsInv /\ HeardInv
      /\ FreshInv /\ AudioInTalk /\ TalkerInv
  BY DEF IInv
<1>0. /\ todo # <<>> /\ Head(todo).op = "list"
      /\ UNCHANGED <<reader, clients, closed, speakers, idle, audioStats,
                     heard, played, roster, talker>>
  BY DEF DoList, Calls, hub
<1>b. Leaving = {} /\ Beginning = {}
  BY <1>0 DEF Leaving, Beginning, Calls
<1>1. PICK full \in SUBSET Client : todo' = Evicting(full) \o Tail(todo)
  BY DEF DoList
<1>4. /\ StackInv' /\ Leaving' = {} /\ Beginning' = {}
      /\ Doomed' = Doomed \union full /\ Ending' = Ending
      /\ \A q \in Relisting : q \in Relisting'
  BY <1>a, <1>0, <1>1, AfterBroadcast
<1>5. ReaderInv' /\ FreshInv' /\ AudioInTalk'
  BY <1>a, <1>0 DEF ReaderInv, FreshInv, AudioInTalk
<1>6. FloorInv'
  BY <1>a, <1>b, <1>0, <1>4 DEF FloorInv
<1>7. StatsInv'
  BY <1>a, <1>0, <1>4 DEF StatsInv
<1>8. HeardInv'
  BY <1>a, <1>b, <1>0, <1>4 DEF HeardInv
<1>9. TalkerInv'
  BY <1>a, <1>0, <1>4 DEF TalkerInv
<1> QED BY <1>4, <1>5, <1>6, <1>7, <1>8, <1>9 DEF IInv

\* Every step keeps the inductive invariant.
LEMMA InvStep == IInv /\ [Next]_vars => IInv'
<1> SUFFICES ASSUME IInv, [Next]_vars PROVE IInv'
  OBVIOUS
<1>0. TypeOK'
  BY TypeStep DEF IInv
<1>1. CASE \E c \in Client : Request(c)
  BY <1>0, <1>1, InvRequest
<1>2. CASE \E c \in Client : Serve(c)
  BY <1>0, <1>2, InvServe
<1>3. CASE HubAudio \/ HubChat \/ HubTick
  BY <1>0, <1>3, InvAudio, InvChat, InvTick
<1>4. CASE HubStep
  BY <1>0, <1>4, InvEvict, InvRelease, InvTalking, InvReleased, InvUsers, InvList
     DEF HubStep
<1>5. CASE Elapse
  BY <1>0, <1>5, InvElapse
<1>6. CASE UNCHANGED vars
  <2>1. UNCHANGED <<hub, todo, told>> /\ UNCHANGED <<reader, clients, closed>>
    BY <1>6 DEF vars, hub
  <2>2. ReaderInv'
    BY <2>1 DEF IInv, ReaderInv
  <2> QED BY <1>0, <2>1, <2>2, ReaderStep
<1> QED BY <1>1, <1>2, <1>3, <1>4, <1>5, <1>6 DEF Next, HubSelect

\* What the calls still on the stack will repair, in every reachable state
\* (hub.go:123-252, 563-789).
THEOREM HubInvariant == Spec => []IInv
<1>1. Init => IInv
  BY InvInit
<1>2. IInv /\ [Next]_vars => IInv'
  BY InvStep
<1> QED BY <1>1, <1>2, PTL DEF Spec

-----------------------------------------------------------------------------
(* The properties of the states between two handlers.                      *)

\* Every speaker is a registered client (hub.go:135-138, 770-776).
THEOREM SpeakersStayRegistered == Spec => []SpeakersRegistered
<1>1. IInv => SpeakersRegistered
  BY NothingPending DEF IInv, FloorInv, SpeakersRegistered, Selecting
<1> QED BY <1>1, HubInvariant, PTL

\* The hub neither sends on a closed queue nor closes one twice
\* (hub.go:778-789).
THEOREM QueuesStayOpen == Spec => []RegisteredQueuesOpen
<1>1. IInv => RegisteredQueuesOpen
  BY DEF IInv, ReaderInv, RegisteredQueuesOpen
<1> QED BY <1>1, HubInvariant, PTL

\* A room's statistics belong to the talk that holds its floor
\* (hub.go:207-223, 385-428).
THEOREM SegmentsFollowFloor == Spec => []StatsFollowFloor
<1>1. IInv => StatsFollowFloor
  BY NothingPending DEF IInv, StatsInv, StatsFollowFloor, Selecting
<1> QED BY <1>1, HubInvariant, PTL

\* What a registered client last heard of the talk in its room is true
\* (hub.go:231, 247, 673, 718, 723-755).
THEOREM ClientsHearTruth == Spec => []HeardTruth
<1>1. IInv => HeardTruth
  BY NothingPending DEF IInv, HeardInv, HeardTruth, Selecting, Beginning, Calls
<1> QED BY <1>1, HubInvariant, PTL

\* Audio reaches a client only within a talk that it knows of, or joined
\* (hub.go:275-310).
THEOREM AudioStaysInTalk == Spec => []AudioInTalk
<1>1. IInv => AudioInTalk
  BY DEF IInv
<1> QED BY <1>1, HubInvariant, PTL

\* The list of users a client was last sent shows the current speaker
\* (hub.go:530-574).
THEOREM RostersShowTalker == Spec => []RosterTalkerTruth
<1>1. IInv => RosterTalkerTruth
  BY NothingPending DEF IInv, TalkerInv, RosterTalkerTruth, Selecting
<1> QED BY <1>1, HubInvariant, PTL

\* A client hears the end of a talk before the beginning of the next one
\* (hub.go:231, 247, 723-755).
THEOREM TalksAlternate == Spec => TalkAlternates
<1> DEFINE Alternates == \A c \in Client :
             heard[c] \in Client => heard'[c] \in {heard[c], Quiet}
<1>1. IInv /\ [Next]_vars => [Alternates]_vars
  <2> SUFFICES ASSUME IInv, Next, NEW c \in Client, heard[c] \in Client
               PROVE  heard'[c] \in {heard[c], Quiet}
    OBVIOUS
  <2>a. TypeOK /\ StackInv /\ HeardInv
    BY DEF IInv
  <2>1. CASE UNCHANGED heard
    BY <2>1
  <2>2. CASE DoReleased
    <3>1. \E r, full : Announce(r, full, Quiet)
      BY <2>2 DEF DoReleased, LogAndForget
    <3> QED BY <2>a, <3>1 DEF Announce, TypeOK
  <2>3. CASE DoTalking
    <3>0. todo # <<>> /\ Head(todo).op = "talking"
      BY <2>3 DEF DoTalking, Calls
    <3>1. PICK r \in Room : /\ speakers[r] \in clients
                           /\ todo = <<Talking(speakers[r], r), Users(r)>>
      BY <2>a, <3>0 DEF StackInv
    <3>2. PICK full : Announce(r, full, speakers[r])
      <4>1. Head(todo).who = {speakers[r]} /\ Head(todo).rooms = {r}
        BY <3>1 DEF Talking
      <4> QED BY <2>3, <4>1 DEF DoTalking
    <3>3. Doomed = {} /\ Ending = {}
      <4>1. Pending = {Talking(speakers[r], r), Users(r)}
        BY <3>1 DEF Pending, Tasks
      <4>2. Talking(speakers[r], r).op = "talking" /\ Users(r).op = "users"
        BY DEF Talking, Users
      <4> QED BY <4>1, <4>2, PendingSets
    <3>4. CASE c \in clients /\ RoomOf[c] = r
      <4>1. heard[c] = speakers[r]
        BY <2>a, <3>3, <3>4, HubAssumption DEF HeardInv
      <4> QED BY <2>a, <3>2, <4>1 DEF Announce, TypeOK
    <3>5. CASE ~(c \in clients /\ RoomOf[c] = r)
      BY <2>a, <3>2, <3>5 DEF Announce, Members, TypeOK
    <3> QED BY <3>4, <3>5
  <2>4. \/ UNCHANGED heard \/ DoReleased \/ DoTalking
    <3>1. ASSUME NEW d \in Client, Request(d) PROVE UNCHANGED heard
      BY <3>1 DEF Request, Connect, PressTalk, ReleaseTalk, SendChat, SendAudio,
                  ReadFails, told
    <3>2. ASSUME NEW d \in Client, Serve(d) PROVE UNCHANGED heard
      BY <3>2 DEF Serve, HubRegister, HubUnregister, Snapshots, HubStart, GrantCalls,
                  HubStop, Stops, told
    <3>3. HubAudio \/ HubChat \/ HubTick \/ Elapse => UNCHANGED heard
      BY DEF HubAudio, Accepts, HubChat, HubTick, Overdue, Elapse, told
    <3>4. DoEvict \/ DoRelease \/ DoUsers \/ DoList => UNCHANGED heard
      BY DEF DoEvict, DoRelease, HeldBy, DoUsers, DoList, told
    <3> QED BY <3>1, <3>2, <3>3, <3>4 DEF Next, HubSelect, HubStep
  <2> QED BY <2>1, <2>2, <2>3, <2>4
<1> QED BY <1>1, HubInvariant, PTL DEF Spec, TalkAlternates

\* No speaker loses the floor to anybody else: only to its own stop, to the ticker, or
\* because it is no longer registered (hub.go:184-205, 237-246, 659-665, 688-704).
THEOREM FloorsStayKept == Spec => FloorsKept
<1> DEFINE Lost(r) == /\ speakers'[r] = None
                      /\ \/ GivesBack(speakers[r], r) \/ FallsSilent(r)
                         \/ speakers[r] \notin clients
           Kept == \A r \in Room : speakers[r] # None /\ speakers'[r] # speakers[r] =>
                     /\ speakers'[r] = None
                     /\ GivesBack(speakers[r], r) \/ FallsSilent(r) \/ speakers[r] \notin clients
<1>1. IInv /\ [Next]_vars => [Kept]_vars
  <2> SUFFICES ASSUME IInv, Next, NEW r \in Room, speakers[r] # None,
                      speakers'[r] # speakers[r]
               PROVE  Lost(r)
    OBVIOUS
  <2>a. TypeOK /\ StackInv
    BY DEF IInv
  <2>1. ASSUME NEW c \in Client, HubStart(c) PROVE UNCHANGED speakers[r]
    BY <2>1, <2>a DEF HubStart, Grants, TypeOK
  <2>2. ASSUME NEW c \in Client, HubStop(c) PROVE Lost(r)
    <3>1. speakers[r] = c /\ reader[c].room = r /\ speakers'[r] = None
      BY <2>2, <2>a DEF HubStop, Stops, FreeFloors, TypeOK
    <3>2. reader[c].at = "stop" /\ reader'[c].at = "read"
      BY <2>2, <2>a DEF HubStop, Goes, TypeOK
    <3> QED BY <3>1, <3>2 DEF GivesBack
  <2>3. CASE HubTick
    <3>1. PICK late \in SUBSET {q \in Room : idle[q] = IdleTicks} :
            FreeFloors({q \in Room : Overdue(q, late)})
      BY <2>3 DEF HubTick
    <3>2. Overdue(r, late) /\ speakers'[r] = None
      BY <3>1 DEF FreeFloors
    <3>3. idle[r] \in Int /\ IdleTicks \in Int
      BY <2>a, HubAssumption DEF TypeOK
    <3>4. idle[r] >= IdleTicks \/ speakers[r] \notin clients
      BY <3>2, <3>3 DEF Overdue
    <3> QED BY <2>3, <3>2, <3>4 DEF HubTick, FallsSilent
  <2>4. CASE DoRelease
    <3>1. PICK c \in Client \ clients : Head(todo) = Release(c)
      BY <2>4, <2>a DEF DoRelease, Calls, StackInv
    <3>2. FreeFloors(HeldBy({c}))
      <4>1. Head(todo).who = {c}
        BY <3>1 DEF Release
      <4> QED BY <2>4, <4>1 DEF DoRelease
    <3>3. r \in HeldBy({c})
      BY <2>4, <3>2 DEF FreeFloors
    <3> QED BY <3>1, <3>2, <3>3 DEF FreeFloors, HeldBy
  <2>5. ASSUME UNCHANGED speakers PROVE FALSE
    BY <2>5
  <2>6. ASSUME NEW c \in Client, Request(c) \/ HubRegister(c) \/ HubUnregister(c)
        PROVE  UNCHANGED speakers
    BY <2>6 DEF Request, Connect, PressTalk, ReleaseTalk, SendChat, SendAudio, ReadFails,
                HubRegister, HubUnregister, hub
  <2>7. HubAudio \/ HubChat \/ Elapse => UNCHANGED speakers
    BY DEF HubAudio, HubChat, Elapse, hub
  <2>8. DoEvict \/ DoTalking \/ DoReleased \/ DoUsers \/ DoList => UNCHANGED speakers
    BY DEF DoEvict, DoTalking, DoReleased, DoUsers, DoList, hub
  <2> QED BY <2>1, <2>2, <2>3, <2>4, <2>5, <2>6, <2>7, <2>8
          DEF Next, HubSelect, HubStep, Serve
<1> QED BY <1>1, HubInvariant, PTL DEF Spec, FloorsKept

-----------------------------------------------------------------------------
(* The hub implements the floor control.                                   *)

\* Every step of the hub, evictions and timeouts included, is a step of the
\* floor control of module Floor, or none (hub.go:123-252, 651-721, 770-789).
THEOREM HubImplementsFloor == Spec => FloorSpec
<1> USE HubAssumption
<1>1. Init => FloorOf!Init
  <2> SUFFICES ASSUME Init PROVE FloorOf!Init
    OBVIOUS
  <2>1. Leaving = {}
    BY NothingPending DEF Init
  <2> QED BY <2>1 DEF Init, FloorOf!Init
<1>2. IInv /\ IInv' /\ [Next]_vars => [FloorOf!Next]_FloorOf!vars
  <2> SUFFICES ASSUME IInv, IInv', [Next]_vars
               PROVE  [FloorOf!Next]_FloorOf!vars
    OBVIOUS
  <2>a. TypeOK /\ StackInv /\ StackInv' /\ FloorInv
    BY DEF IInv
  <2>b. Calls("release") \/ Leaving = {}
    BY DEF Leaving
  <2> DEFINE Same == UNCHANGED <<clients, speakers>> /\ Leaving' = Leaving
             Stutters == UNCHANGED FloorOf!vars
  <2>c. Same => Stutters
    BY DEF FloorOf!vars
  <2>1. ASSUME NEW c \in Client, Request(c) PROVE Same
    <3>1. UNCHANGED <<hub, todo>>
      BY <2>1 DEF Request, Connect, PressTalk, ReleaseTalk, SendChat, SendAudio, ReadFails
    <3> QED BY <3>1 DEF hub, Leaving, Calls
  <2>2. Elapse \/ UNCHANGED vars => Same
    BY DEF Elapse, vars, hub, Leaving, Calls
  <2>3. ASSUME NEW c \in Client, HubRegister(c) PROVE FloorOf!Join(c)
    <3>1. Leaving = {} /\ Leaving' = {}
      BY <2>3, NothingPending, AfterRegister DEF HubRegister, Snapshots, Selecting
    <3> QED BY <2>3, <3>1 DEF HubRegister, Snapshots, FloorOf!Join
  <2>4. ASSUME NEW c \in Client, HubUnregister(c) PROVE Stutters
    <3>0. Leaving = {} /\ UNCHANGED speakers
      BY <2>4, NothingPending DEF HubUnregister, Snapshots, Selecting
    <3>1. CASE c \in clients
      <4>1. clients' = clients \ {c} /\ todo' = <<Release(c), List, Users(RoomOf[c])>>
        BY <2>4, <3>1 DEF HubUnregister, Snapshots, Remove
      <4>2. Leaving' = {c}
        BY <4>1, AfterUnregister
      <4> QED BY <3>0, <3>1, <4>1, <4>2 DEF FloorOf!vars
    <3>2. CASE c \notin clients
      <4>1. UNCHANGED <<clients, todo>>
        BY <2>4, <3>2 DEF HubUnregister, Snapshots
      <4> QED BY <3>0, <4>1, <2>c DEF Leaving, Calls
    <3> QED BY <3>1, <3>2
  <2>5. ASSUME NEW c \in Client, HubStart(c)
        PROVE  FloorOf!Take(c, reader[c].room) \/ Stutters
    <3> DEFINE r == reader[c].room
    <3>0. Leaving = {} /\ UNCHANGED clients /\ r \in Room
      BY <2>5, <2>a, NothingPending DEF HubStart, GrantCalls, Selecting, TypeOK
    <3>1. CASE Grants(c, r)
      <4>1. /\ speakers' = [speakers EXCEPT ![r] = c]
            /\ todo' = <<Talking(c, r), Users(r)>>
        BY <2>5, <3>1 DEF HubStart, GrantCalls
      <4>2. c \in clients /\ speakers[r] = None
        BY <3>1 DEF Grants
      <4>3. speakers'[r] = c /\ c \in clients'
        BY <2>a, <3>0, <4>1, <4>2 DEF TypeOK
      <4>4. Leaving' = {}
        BY <3>0, <4>1, <4>3, AfterGrant
      <4> QED BY <3>0, <4>1, <4>2, <4>4 DEF FloorOf!Take
    <3>2. CASE ~Grants(c, r)
      <4>1. UNCHANGED <<speakers, todo>>
        BY <2>5, <3>2 DEF HubStart, GrantCalls
      <4> QED BY <3>0, <4>1, <2>c DEF Leaving, Calls
    <3> QED BY <3>1, <3>2
  <2>f. ASSUME NEW rooms \in SUBSET Room, todo = <<>>, FreeFloors(rooms),
               todo' = Releasing(rooms), UNCHANGED clients
        PROVE  FloorOf!Free(rooms)
    <3>1. Leaving = {} /\ Leaving' = {}
      BY <2>f, <2>a, NothingPending, AfterFree
    <3> QED BY <2>f, <3>1 DEF FreeFloors, FloorOf!Free
  <2>6. ASSUME NEW c \in Client, HubStop(c)
        PROVE  FloorOf!Free({reader[c].room}) \/ Stutters
    <3> DEFINE r == reader[c].room
    <3>0. todo = <<>> /\ UNCHANGED clients /\ r \in Room
      BY <2>6, <2>a DEF HubStop, Stops, Selecting, TypeOK
    <3>1. CASE speakers[r] = c
      <4>1. FreeFloors({r}) /\ todo' = Releasing({r})
        BY <2>6, <3>1 DEF HubStop, Stops
      <4> QED BY <3>0, <4>1, <2>f
    <3>2. CASE speakers[r] # c
      <4>1. UNCHANGED <<speakers, todo>>
        BY <2>6, <3>2 DEF HubStop, Stops
      <4> QED BY <3>0, <4>1, <2>c DEF Leaving, Calls
    <3> QED BY <3>1, <3>2
  <2>7. CASE HubTick
    <3>1. PICK rooms \in SUBSET Room : FreeFloors(rooms) /\ todo' = Releasing(rooms)
      BY <2>7 DEF HubTick, Overdue
    <3>2. FloorOf!Free(rooms)
      BY <2>7, <2>f, <3>1 DEF HubTick, Overdue, Selecting
    <3> QED BY <3>2 DEF FloorOf!Next
  <2>8. CASE HubAudio \/ HubChat
    <3>1. todo = <<>> /\ UNCHANGED <<clients, speakers>>
      BY <2>8 DEF HubAudio, Accepts, HubChat, Selecting, hub
    <3>2. \E full \in SUBSET Client : todo' = Evicting(full)
      <4>1. CASE HubChat
        BY <4>1 DEF HubChat
      <4>2. CASE HubAudio /\ UNCHANGED todo
        BY <4>2, <3>1 DEF Evicting
      <4>3. CASE HubAudio /\ ~UNCHANGED todo
        BY <4>3 DEF HubAudio, Accepts
      <4> QED BY <2>8, <4>1, <4>2, <4>3
    <3>3. Leaving = {} /\ Leaving' = {}
      BY <2>a, <3>1, <3>2, NothingPending, AfterSend
    <3> QED BY <3>1, <3>3, <2>c
  <2>9. CASE DoEvict
    <3>1. PICK c \in Head(todo).who :
            LET rest == Evicting(Head(todo).who \ {c}) \o Tail(todo)
            IN  IF c \in clients
                   THEN clients' = clients \ {c} /\ todo' = <<Release(c)>> \o rest
                   ELSE clients' = clients /\ todo' = rest
      BY <2>9 DEF DoEvict, Remove
    <3> DEFINE rest == Evicting(Head(todo).who \ {c}) \o Tail(todo)
    <3>2. UNCHANGED speakers /\ Calls("evict") /\ Leaving = {}
      BY <2>9 DEF DoEvict, Leaving, Calls
    <3>3. rest \in Seq(Task) /\ c \in Client
      BY <2>a, <3>2, EvictingTasks, StackAfter, TaskFields DEF Calls
    <3>4. CASE c \in clients
      <4>1. todo' # <<>> /\ Head(todo') = Release(c)
        <5>1. todo' = <<Release(c)>> \o rest
          BY <3>1, <3>4
        <5> HIDE DEF rest
        <5> QED BY <3>3, <5>1, TaskTypes, StackPush
      <4>2. Leaving' = {c}
        BY <4>1 DEF Leaving, Calls, Release
      <4> QED BY <3>1, <3>2, <3>4, <4>2 DEF FloorOf!vars
    <3>5. CASE c \notin clients
      <4>1. clients' = clients /\ todo' = rest
        BY <3>1, <3>5
      <4>2. Leaving' = {}
        BY <2>a, <3>2, <3>5, <4>1, AfterEvict
      <4> QED BY <3>2, <4>1, <4>2, <2>c
    <3> QED BY <3>4, <3>5
  <2>10. CASE DoRelease
    <3> DEFINE rooms == {r \in Room : speakers[r] \in Head(todo).who}
    <3>1. /\ Calls("release") /\ FreeFloors(rooms) /\ UNCHANGED clients
          /\ todo' = Releasing(rooms) \o Tail(todo)
      BY <2>10 DEF DoRelease, HeldBy
    <3>2. PICK c \in Client \ clients : Head(todo) = Release(c)
      BY <2>a, <3>1 DEF StackInv, Calls
    <3>3. Leaving = {c} /\ rooms = {r \in Room : speakers[r] = c}
      BY <3>1, <3>2 DEF Leaving, Release
    <3>4. Leaving' = {}
      BY <2>a, <3>1, AfterRelease
    <3>5. FloorOf!Leave(c)
      BY <2>a, <3>1, <3>2, <3>3, <3>4 DEF FreeFloors, FloorOf!Leave
    <3> QED BY <3>5 DEF FloorOf!Next
  <2>11. CASE DoTalking \/ DoReleased \/ DoUsers \/ DoList
    <3>1. UNCHANGED <<clients, speakers>> /\ Leaving = {}
      BY <2>11 DEF DoTalking, DoReleased, LogAndForget, DoUsers, DoList, hub, Leaving, Calls
    <3>2. CASE DoReleased
      <4>1. \E r \in Head(todo).rooms, full \in SUBSET Client :
               todo' = Evicting(full) \o <<Users(r)>>
                         \o Releasing(Head(todo).rooms \ {r}) \o Tail(todo)
        BY <3>2 DEF DoReleased, LogAndForget
      <4>2. Leaving' = {}
        BY <2>a, <3>2, <4>1, AfterReleased DEF DoReleased, LogAndForget
      <4> QED BY <3>1, <4>2, <2>c
    <3>3. CASE DoTalking \/ DoUsers \/ DoList
      <4>1. todo # <<>> /\ Head(todo).op \notin {"evict", "released"}
        BY <3>3 DEF DoTalking, DoUsers, DoList, Calls
      <4>2. \E full \in SUBSET Client : todo' = Evicting(full) \o Tail(todo)
        BY <3>3 DEF DoTalking, DoUsers, DoList
      <4>3. Leaving' = {}
        BY <2>a, <4>1, <4>2, AfterBroadcast
      <4> QED BY <3>1, <4>3, <2>c
    <3> QED BY <2>11, <3>2, <3>3
  <2>12. ASSUME NEW c \in Client, Serve(c) PROVE [FloorOf!Next]_FloorOf!vars
    <3>1. reader[c].room \in Room
      BY <2>a DEF TypeOK
    <3>2. CASE HubRegister(c)
      BY <2>3, <3>2 DEF FloorOf!Next
    <3>3. CASE HubUnregister(c)
      BY <2>4, <3>3
    <3>4. CASE HubStart(c)
      BY <2>5, <3>1, <3>4 DEF FloorOf!Next
    <3>5. CASE HubStop(c)
      BY <2>6, <3>1, <3>5 DEF FloorOf!Next
    <3> QED BY <2>12, <3>2, <3>3, <3>4, <3>5 DEF Serve
  <2>13. CASE \E c \in Client : Request(c)
    BY <2>1, <2>13, <2>c
  <2>14. CASE Elapse \/ UNCHANGED vars
    BY <2>2, <2>14, <2>c
  <2> QED BY <2>7, <2>8, <2>9, <2>10, <2>11, <2>12, <2>13, <2>14
          DEF Next, HubSelect, HubStep
<1> QED BY <1>1, <1>2, HubInvariant, PTL DEF Spec, FloorSpec, FloorOf!Spec

-----------------------------------------------------------------------------
(* The hub is what each of its connections takes it for.                   *)

\* A step that changes nothing between hub and connection.
LEMMA MembershipStays ==
  ASSUME NEW c \in Client, reader'[c].at = reader[c].at,
         c \in clients' <=> c \in clients, c \in closed' <=> c \in closed,
         c \in clients => (c \in Doomed' <=> c \in Doomed)
  PROVE  UNCHANGED MembershipOf(c)!vars
<1>1. ReaderOf(c)' = ReaderOf(c)
  BY DEF ReaderOf
<1>2. MemberOf(c)' = MemberOf(c)
  BY DEF MemberOf
<1>3. (c \in clients \intersect Doomed)' = (c \in clients \intersect Doomed)
  OBVIOUS
<1> QED BY <1>1, <1>2, <1>3, Zenon DEF MembershipOf!vars

\* A send that finds some queues full condemns their clients, and nobody else.
LEMMA MembershipCondemns ==
  ASSUME IInv, NEW c \in Client, NEW full \in SUBSET clients, Doomed' = Doomed \union full,
         UNCHANGED <<reader, clients, closed>>
  PROVE  [MembershipOf(c)!Next]_(MembershipOf(c)!vars)
<1>1. CASE c \in full
  <2>1. c \in clients \ closed /\ reader[c].at \in {"read", "start", "stop", "unregister"}
    BY <1>1 DEF IInv, ReaderInv, TypeOK, Phases
  <2>2. MemberOf(c) = "yes" /\ MemberOf(c)' = MemberOf(c)
    BY <2>1 DEF MemberOf
  <2>3. ReaderOf(c) \in {"free", "blocked", "unregister"} /\ ReaderOf(c)' = ReaderOf(c)
    BY <2>1 DEF ReaderOf
  <2>4. (c \in clients \intersect Doomed)' = TRUE
    BY <1>1, <2>1
  <2> QED BY <2>2, <2>3, <2>4, Zenon DEF MembershipOf!Next, MembershipOf!Condemn
<1>2. CASE c \notin full
  BY <1>2, MembershipStays
<1> QED BY <1>1, <1>2

\* What the hub receives finds nobody condemned and condemns nobody.
LEMMA ServeDoomsNobody ==
  ASSUME IInv, NEW c \in Client, Serve(c)
  PROVE  Doomed = {} /\ Doomed' = {}
<1>0. TypeOK
  BY DEF IInv
<1>1. Doomed = {} /\ todo = <<>>
  BY NothingPending
     DEF Serve, HubRegister, HubUnregister, HubStart, HubStop, Stops, Selecting
<1>2. Doomed' = {}
  <2>1. RoomOf[c] \in Room /\ reader[c].room \in Room
    BY <1>0, HubAssumption DEF TypeOK
  <2>2. CASE HubRegister(c)
    BY <2>1, <2>2, AfterRegister DEF HubRegister, Snapshots
  <2>3. CASE HubUnregister(c) /\ c \in clients
    <3>1. c \notin clients' /\ todo' = <<Release(c), List, Users(RoomOf[c])>>
      BY <2>3 DEF HubUnregister, Snapshots, Remove
    <3> QED BY <2>1, <3>1, AfterUnregister
  <2>4. CASE HubStart(c) /\ Grants(c, reader[c].room)
    <3> DEFINE r == reader[c].room
    <3>1. /\ speakers' = [speakers EXCEPT ![r] = c] /\ clients' = clients
          /\ todo' = <<Talking(c, r), Users(r)>>
      BY <2>4 DEF HubStart, GrantCalls
    <3>2. speakers'[r] = c /\ c \in clients'
      BY <1>0, <2>1, <2>4, <3>1 DEF TypeOK, Grants
    <3> QED BY <2>1, <3>1, <3>2, AfterGrant
  <2>5. CASE HubStop(c) /\ speakers[reader[c].room] = c
    <3>1. todo' = Releasing({reader[c].room})
      BY <2>5 DEF HubStop, Stops
    <3> QED BY <1>0, <1>1, <2>1, <3>1, AfterFree
  <2>6. CASE \/ HubUnregister(c) /\ c \notin clients
             \/ HubStart(c) /\ ~Grants(c, reader[c].room)
             \/ HubStop(c) /\ speakers[reader[c].room] # c
    <3>1. todo' = <<>>
      BY <1>1, <2>6 DEF HubUnregister, HubStart, HubStop, Stops
    <3> QED BY <3>1, EmptyTasks, PendingSetsPrime DEF Pending
  <2> QED BY <2>2, <2>3, <2>4, <2>5, <2>6 DEF Serve<1> QED BY <1>1, <1>2

\* What the hub receives when nothing is left to be done, and what a reader does.
LEMMA MembershipMoves ==
  ASSUME IInv, NEW c \in Client, Serve(c) \/ Request(c)
  PROVE  [MembershipOf(c)!Next]_(MembershipOf(c)!vars)
<1> DEFINE at  == reader[c].at
           due == c \in clients \intersect Doomed
<1>0. /\ reader \in [Client -> [at : Phases, room : Room]]
      /\ at \in {"new", "register"} <=> c \notin clients \union closed
      /\ clients \intersect closed = {} /\ TypeOK
  BY DEF IInv, TypeOK, ReaderInv
<1>1. ASSUME NEW p, NEW r, Goes(c, p, r) PROVE reader'[c].at = p
  BY <1>0, <1>1 DEF Goes
<1>2. CASE Serve(c)
  <2>1. Doomed = {} /\ Doomed' = {}
    BY <1>2, ServeDoomsNobody
  <2>3. due' = due /\ due = FALSE
    BY <2>1
  <2>4. CASE HubRegister(c)
    <3>1. /\ at = "register" /\ reader'[c].at = "read"
          /\ clients' = clients \union {c} /\ closed' = closed
      BY <1>1, <2>4 DEF HubRegister
    <3>2. ReaderOf(c) = "register" /\ ReaderOf(c)' = "free"
      BY <3>1 DEF ReaderOf
    <3>3. MemberOf(c) = "no" /\ MemberOf(c)' = "yes"
      BY <1>0, <3>1 DEF MemberOf
    <3> QED BY <2>3, <3>2, <3>3, Zenon DEF MembershipOf!Next, MembershipOf!Register
  <2>5. CASE HubUnregister(c)
    <3>1. /\ at = "unregister" /\ reader'[c].at = "gone"
          /\ \/ c \in clients /\ clients' = clients \ {c} /\ closed' = closed \union {c}
             \/ c \notin clients /\ clients' = clients /\ closed' = closed
      BY <1>1, <2>5 DEF HubUnregister, Remove
    <3>2. ReaderOf(c) = "unregister" /\ ReaderOf(c)' = "done"
      BY <3>1 DEF ReaderOf
    <3>3. MemberOf(c)' = "removed"
      BY <1>0, <3>1 DEF MemberOf
    <3> QED BY <2>3, <3>2, <3>3, Zenon DEF MembershipOf!Next, MembershipOf!Unregister
  <2>6. CASE HubStart(c) \/ HubStop(c)
    <3>1. /\ at \in {"start", "stop"} /\ reader'[c].at = "read"
          /\ UNCHANGED <<clients, closed>>
      BY <1>1, <2>6 DEF HubStart, HubStop, Stops
    <3>2. ReaderOf(c) = "blocked" /\ ReaderOf(c)' = "free"
      BY <3>1 DEF ReaderOf
    <3>3. MemberOf(c)' = MemberOf(c)
      BY <3>1 DEF MemberOf
    <3> QED BY <2>3, <3>2, <3>3, Zenon DEF MembershipOf!Next, MembershipOf!Receive
  <2> QED BY <1>2, <2>4, <2>5, <2>6 DEF Serve
<1>3. CASE Request(c)
  <2>1. UNCHANGED <<clients, closed, todo>>
    BY <1>3 DEF Request, Connect, PressTalk, ReleaseTalk, SendChat, SendAudio, ReadFails, hub
  <2>2. MemberOf(c)' = MemberOf(c)
    BY <2>1 DEF MemberOf
  <2>3. Doomed' = Doomed
    BY <2>1 DEF Doomed, Pending
  <2>4. due' = due
    BY <2>1, <2>3
  <2>5. \/ at = "new" /\ reader'[c].at = "register"
        \/ at = "read" /\ reader'[c].at \in {"start", "stop", "unregister"}
        \/ reader'[c].at = at
    BY <1>1, <1>3 DEF Request, Connect, PressTalk, ReleaseTalk, SendChat, SendAudio,
                      ReadFails, Reading
  <2>6. CASE (at = "new" /\ reader'[c].at = "register") \/ reader'[c].at = at
    <3>1. ReaderOf(c)' = ReaderOf(c)
      BY <2>6 DEF ReaderOf
    <3> QED BY <2>2, <2>4, <3>1, Zenon DEF MembershipOf!vars
  <2>7. CASE at = "read" /\ reader'[c].at \in {"start", "stop"}
    <3>1. ReaderOf(c) = "free" /\ ReaderOf(c)' = "blocked"
      BY <2>7 DEF ReaderOf
    <3> QED BY <2>2, <2>4, <3>1, Zenon DEF MembershipOf!Next, MembershipOf!Ask
  <2>8. CASE at = "read" /\ reader'[c].at = "unregister"
    <3>1. ReaderOf(c) = "free" /\ ReaderOf(c)' = "unregister"
      BY <2>8 DEF ReaderOf
    <3> QED BY <2>2, <2>4, <3>1, Zenon DEF MembershipOf!Next, MembershipOf!Fail
  <2> QED BY <2>5, <2>6, <2>7, <2>8
<1> QED BY <1>2, <1>3

\* The rest of a handler: it condemns, and it evicts.
LEMMA MembershipHandled ==
  ASSUME IInv, NEW c \in Client, HubStep
  PROVE  [MembershipOf(c)!Next]_(MembershipOf(c)!vars)
<1>0. TypeOK /\ StackInv /\ reader' = reader /\ clients \intersect closed = {}
  BY DEF IInv, ReaderInv, HubStep, DoEvict, DoRelease, DoTalking, DoReleased, DoUsers, DoList
<1>1. CASE DoEvict
  <2>1. PICK b \in Head(todo).who :
          LET rest == Evicting(Head(todo).who \ {b}) \o Tail(todo)
          IN  IF b \in clients
                 THEN Remove(b) /\ todo' = <<Release(b)>> \o rest
                 ELSE UNCHANGED <<clients, closed>> /\ todo' = rest
    BY <1>1 DEF DoEvict
  <2>2. Calls("evict") /\ Head(todo) \in Task
    BY <1>0, <1>1, StackAfter, EvictingTasks DEF DoEvict, Calls
  <2>3. b \notin clients'
    BY <2>1 DEF Remove
  <2>4. Doomed \subseteq Doomed' \union {b} /\ Doomed' \subseteq Doomed
    BY <1>0, <2>1, <2>2, <2>3, AfterEvict
  <2>5. b \in Doomed
    BY <2>2, <1>0, StackAfter, EvictingTasks, PendingSets DEF Calls
  <2>6. CASE c = b /\ c \in clients
    <3>1. clients' = clients \ {c} /\ closed' = closed \union {c}
      BY <2>1, <2>6 DEF Remove
    <3>2. MemberOf(c)' = "removed" /\ ReaderOf(c)' = ReaderOf(c)
      BY <1>0, <3>1 DEF MemberOf, ReaderOf
    <3>3. c \in clients \intersect Doomed /\ (c \in clients \intersect Doomed)' = FALSE
      BY <2>5, <2>6, <3>1
    <3> QED BY <3>2, <3>3, Zenon DEF MembershipOf!Next, MembershipOf!Evict
  <2>7. CASE ~(c = b /\ c \in clients)
    <3>1. c \in clients' <=> c \in clients
      BY <2>1, <2>7 DEF Remove
    <3>2. c \in closed' <=> c \in closed
      BY <2>1, <2>7 DEF Remove
    <3>3. c \in clients => (c \in Doomed' <=> c \in Doomed)
      BY <2>4, <2>7
    <3> QED BY <1>0, <3>1, <3>2, <3>3, MembershipStays
  <2> QED BY <2>6, <2>7
<1>2. CASE DoRelease
  <2>1. /\ Calls("release") /\ UNCHANGED <<clients, closed>>
        /\ todo' = Releasing(HeldBy(Head(todo).who)) \o Tail(todo)
        /\ HeldBy(Head(todo).who) \in SUBSET Room
    BY <1>2 DEF DoRelease, HeldBy
  <2>2. Doomed' = Doomed
    BY <1>0, <2>1, AfterRelease
  <2> QED BY <1>0, <2>1, <2>2, MembershipStays
<1>3. CASE DoReleased
  <2> DEFINE Rest(r, full) == Evicting(full) \o <<Users(r)>>
                                \o Releasing(Head(todo).rooms \ {r}) \o Tail(todo)
  <2>0. PICK r \in Head(todo).rooms :
           \E full \in SUBSET (Slow \intersect Members(r)) : todo' = Rest(r, full)
    BY <1>3 DEF DoReleased, LogAndForget
  <2>1. PICK full \in SUBSET (Slow \intersect Members(r)) : todo' = Rest(r, full)
    BY <2>0
  <2>2. full \in SUBSET clients /\ full \in SUBSET Client
    BY <1>0 DEF Members, TypeOK
  <2>3. Calls("released") /\ UNCHANGED <<clients, closed>>
    BY <1>3 DEF DoReleased
  <2>4. Doomed' = Doomed \union full
    BY <1>0, <2>1, <2>2, <2>3, AfterReleased
  <2> QED BY <1>0, <2>2, <2>3, <2>4, MembershipCondemns
<1>4. CASE DoTalking \/ DoUsers \/ DoList
  <2>1. /\ todo # <<>> /\ Head(todo).op \notin {"evict", "released"}
        /\ UNCHANGED <<clients, closed>>
    BY <1>4 DEF DoTalking, DoUsers, DoList, Calls, hub
  <2>2. PICK full \in SUBSET clients : todo' = Evicting(full) \o Tail(todo)
    BY <1>4 DEF DoTalking, DoUsers, DoList, Members
  <2>3. full \in SUBSET Client
    BY <1>0 DEF TypeOK
  <2>4. Doomed' = Doomed \union full
    BY <1>0, <2>1, <2>2, <2>3, AfterBroadcast
  <2> QED BY <1>0, <2>1, <2>4, MembershipCondemns
<1> QED BY <1>1, <1>2, <1>3, <1>4 DEF HubStep

\* Frames, chat, timeouts and the clock: nobody is registered or removed.
LEMMA MembershipIdle ==
  ASSUME IInv, NEW c \in Client, HubAudio \/ HubChat \/ HubTick \/ Elapse
  PROVE  [MembershipOf(c)!Next]_(MembershipOf(c)!vars)
<1>0. TypeOK /\ UNCHANGED <<reader, clients, closed>>
  BY DEF IInv, HubAudio, HubChat, HubTick, Elapse, hub, Accepts
<1>1. CASE HubAudio \/ HubChat
  <2>1. PICK full \in SUBSET clients : todo' = Evicting(full)
    <3>1. CASE HubChat
      BY <3>1 DEF HubChat, Members
    <3>2. CASE HubAudio /\ todo' = todo
      BY <3>2 DEF HubAudio, Selecting, Evicting
    <3>3. CASE HubAudio /\ todo' # todo
      BY <3>3 DEF HubAudio, Accepts, Members
    <3> QED BY <1>1, <3>1, <3>2, <3>3
  <2>2. todo = <<>> /\ full \in SUBSET Client
    BY <1>0, <1>1 DEF HubAudio, HubChat, Selecting, TypeOK
  <2>3. Doomed' = Doomed \union full
    BY <1>0, <2>1, <2>2, NothingPending, AfterSend
  <2> QED BY <1>0, <2>3, MembershipCondemns
<1>2. CASE HubTick
  <2>1. PICK rooms \in SUBSET Room : todo' = Releasing(rooms)
    BY <1>2 DEF HubTick, Overdue
  <2>2. todo = <<>>
    BY <1>2 DEF HubTick, Selecting
  <2>3. Doomed' = {} /\ Doomed = {}
    BY <1>0, <2>1, <2>2, NothingPending, AfterFree
  <2> QED BY <1>0, <2>3, MembershipStays
<1>3. CASE Elapse
  <2>1. todo' = todo
    BY <1>3 DEF Elapse
  <2>2. Doomed' = Doomed
    BY <2>1 DEF Doomed, Pending
  <2> QED BY <1>0, <2>2, MembershipStays
<1> QED BY <1>1, <1>2, <1>3

\* A step is one of a connection's own, or leaves it alone, or is the hub's.
LEMMA MembershipStep ==
  ASSUME IInv, NEW c \in Client, [Next]_vars
  PROVE  [MembershipOf(c)!Next]_(MembershipOf(c)!vars)
<1>0. reader \in [Client -> [at : Phases, room : Room]]
  BY DEF IInv, TypeOK
<1>1. ASSUME NEW b \in Client, Serve(b) \/ Request(b), b # c
      PROVE  [MembershipOf(c)!Next]_(MembershipOf(c)!vars)
  <2>1. reader'[c].at = reader[c].at
    <3>1. \/ reader' = reader
          \/ \E p, r : Goes(b, p, r)
      BY <1>1 DEF Serve, HubRegister, HubUnregister, HubStart, HubStop, Stops, Request, Connect,
                  PressTalk, ReleaseTalk, SendChat, SendAudio, ReadFails
    <3> QED BY <1>0, <1>1, <3>1 DEF Goes
  <2>2. (c \in clients' <=> c \in clients) /\ (c \in closed' <=> c \in closed)
    <3>1. CASE Serve(b)
      BY <1>1, <3>1 DEF Serve, HubRegister, HubUnregister, Remove, HubStart, HubStop, Stops
    <3>2. CASE Request(b)
      BY <3>2 DEF Request, Connect, PressTalk, ReleaseTalk, SendChat, SendAudio, ReadFails, hub
    <3> QED BY <1>1, <3>1, <3>2
  <2>3. Doomed' = Doomed
    <3>1. CASE Serve(b)
      BY <3>1, ServeDoomsNobody
    <3>2. CASE Request(b)
      <4>1. todo' = todo
        BY <3>2 DEF Request, Connect, PressTalk, ReleaseTalk, SendChat, SendAudio, ReadFails
      <4> QED BY <4>1 DEF Doomed, Pending
    <3> QED BY <1>1, <3>1, <3>2
  <2> QED BY <2>1, <2>2, <2>3, MembershipStays
<1>2. CASE UNCHANGED vars
  <2>1. reader' = reader /\ clients' = clients /\ closed' = closed /\ todo' = todo
    BY <1>2 DEF vars, hub
  <2>2. Doomed' = Doomed
    BY <2>1 DEF Doomed, Pending
  <2> QED BY <2>1, <2>2, MembershipStays
<1> QED BY <1>1, <1>2, MembershipMoves, MembershipHandled, MembershipIdle
        DEF Next, HubSelect

\* For every connection the hub is what module Membership says, whatever it does for
\* the others meanwhile (client.go:97-101, hub.go:123-252, 770-789): with
\* ConnectionIsMember, what Connection assumes of the hub is what Hub does.
THEOREM HubServesConnections ==
  Spec => ConnectionsServed /\ \A c \in Client : MembershipOf(c)!Spec
<1>1. ASSUME NEW c \in Client PROVE Init => MembershipOf(c)!Init
  <2> SUFFICES ASSUME Init PROVE MembershipOf(c)!Init
    OBVIOUS
  <2>1. ReaderOf(c) = "register" /\ MemberOf(c) = "no"
        /\ (c \in clients \intersect Doomed) = FALSE
    BY DEF Init, ReaderOf, MemberOf
  <2> QED BY <2>1, Zenon DEF MembershipOf!Init
<1>2. ASSUME NEW c \in Client PROVE Spec => MembershipOf(c)!Spec
  <2>1. Init => MembershipOf(c)!Init
    BY <1>1
  <2>2. IInv /\ [Next]_vars => [MembershipOf(c)!Next]_(MembershipOf(c)!vars)
    BY MembershipStep
  <2> QED BY <2>1, <2>2, HubInvariant, PTL DEF Spec, MembershipOf!Spec
<1>3. Spec => ConnectionsServed
  <2>1. Init => \A c \in Client : MembershipOf(c)!Init
    BY <1>1
  <2>2. IInv /\ [Next]_vars =>
           [\A c \in Client : [MembershipOf(c)!Next]_(MembershipOf(c)!vars)]_vars
    BY MembershipStep
  <2> QED BY <2>1, <2>2, HubInvariant, PTL DEF Spec, ConnectionsServed
<1> QED BY <1>2, <1>3
=============================================================================
