--------------------------- MODULE HubListsProofs ---------------------------
(***************************************************************************)
(* Proof that nobody is missing from the lists the clients have            *)
(* (ListsMissNobody), for any connections, rooms, capacities and limit.    *)
(***************************************************************************)
EXTENDS HubProofs

\* What a client was told of its room is right, apart from evicted clients.
Listed(c) ==
    /\ roster[c] \subseteq Members(RoomOf[c]) \union Slow
    /\ \/ Members(RoomOf[c]) \subseteq roster[c]
       \/ Cardinality(roster[c]) = MaxRoomUsers

Lobbied(c) == Cardinality(Members(DefaultRoom)) <= lobby[c]

\* In the middle of a handler: only clients that may be slow are to be evicted, and
\* whose list is wrong is among them, or its list is still to be sent.
ListsInv ==
    /\ Doomed \subseteq Slow
    /\ \A c \in clients \ Doomed : RoomOf[c] \in Relisting \/ Listed(c)
    /\ \A c \in clients \ Doomed : List \in Pending \/ Lobbied(c)

\* Nobody is registered at first, and nothing is to be done.
LEMMA ListsInit == Init => ListsInv
<1> SUFFICES ASSUME Init PROVE ListsInv
  OBVIOUS
<1>1. clients = {} /\ todo = <<>>
  BY DEF Init
<1>2. Doomed = {}
  BY <1>1, NothingPending
<1> QED BY <1>1, <1>2 DEF ListsInv

\* A room that has lost clients has fewer.
LEMMA FewerMembers ==
  ASSUME TypeOK, clients' \subseteq clients, NEW r \in Room
  PROVE  /\ Members(r)' \subseteq Members(r)
         /\ Cardinality(Members(r)') <= Cardinality(Members(r))
         /\ Cardinality(Members(r)') \in Nat /\ Cardinality(Members(r)) \in Nat
<1>1. Members(r)' \subseteq Members(r)
  BY DEF Members
<1>2. IsFiniteSet(Members(r))
  <2>1. Members(r) \subseteq Client /\ IsFiniteSet(Client)
    BY HubAssumption DEF Members, TypeOK
  <2> QED BY <2>1, FS_Subset
<1> QED BY <1>1, <1>2, FS_Subset, FS_CardinalityType

\* Slow clients may go without a word, as long as what is to be sent still is.
LEMMA ListsKept ==
  ASSUME ListsInv, TypeOK, NEW gone \in SUBSET Slow, clients' = clients \ gone,
         roster' = roster, lobby' = lobby,
         Doomed' \subseteq Slow, Doomed \subseteq Doomed' \union gone,
         Relisting \subseteq Relisting',
         List \in Pending => List \in Pending'
  PROVE  ListsInv'
<1> USE HubAssumption
<1>1. ASSUME NEW c \in clients' \ Doomed' PROVE c \in clients \ Doomed /\ c \in Client
  BY <1>1 DEF TypeOK
<1>2. ASSUME NEW c \in clients' \ Doomed' PROVE RoomOf[c] \in Relisting' \/ Listed(c)'
  <2>1. RoomOf[c] \in Relisting \/ Listed(c)
    BY <1>1, <1>2 DEF ListsInv
  <2>2. /\ Members(RoomOf[c]) \subseteq Members(RoomOf[c])' \union Slow
        /\ Members(RoomOf[c])' \subseteq Members(RoomOf[c])
    BY DEF Members
  <2> QED BY <2>1, <2>2 DEF Listed
<1>3. ASSUME NEW c \in clients' \ Doomed' PROVE List \in Pending' \/ Lobbied(c)'
  <2>1. List \in Pending \/ Lobbied(c)
    BY <1>1, <1>3 DEF ListsInv
  <2>2. /\ Cardinality(Members(DefaultRoom)') <= Cardinality(Members(DefaultRoom))
        /\ Cardinality(Members(DefaultRoom)') \in Nat
        /\ Cardinality(Members(DefaultRoom)) \in Nat
    BY FewerMembers
  <2>3. lobby'[c] = lobby[c] /\ lobby[c] \in Nat
    BY <1>1, <1>3 DEF TypeOK
  <2> QED BY <2>1, <2>2, <2>3 DEF Lobbied
<1> QED BY <1>2, <1>3 DEF ListsInv

\* A step that leaves the stack and the lists alone.
LEMMA ListsUnchanged ==
  ASSUME ListsInv, TypeOK, UNCHANGED <<clients, roster, lobby, todo>>
  PROVE  ListsInv'
<1>1. Doomed' = Doomed /\ Relisting' = Relisting /\ Pending' = Pending
  BY DEF Doomed, Relisting, Pending
<1>2. clients' = clients \ {} /\ {} \in SUBSET Slow
  OBVIOUS
<1>3. Doomed \subseteq Slow
  BY DEF ListsInv
<1> QED BY <1>1, <1>2, <1>3, ListsKept

\* A handler that begins without lists to send, when nothing else is to be done.
LEMMA ListsBegin ==
  ASSUME ListsInv, TypeOK, todo = <<>>, Doomed' \subseteq Slow,
         UNCHANGED <<clients, roster, lobby>>
  PROVE  ListsInv'
<1>1. Doomed = {} /\ Relisting = {} /\ Pending = {}
  BY NothingPending, EmptyTasks DEF Pending
<1>2. clients' = clients \ {} /\ {} \in SUBSET Slow
  OBVIOUS
<1> QED BY <1>1, <1>2, ListsKept

\* Calls made in the place of the innermost one leave the list of rooms to be sent.
LEMMA ListStays ==
  ASSUME TypeOK, todo # <<>>, Head(todo).op # "list", NEW p \in Seq(Task),
         todo' = p \o Tail(todo), List \in Pending
  PROVE  List \in Pending'
<1>1. /\ Pending = {Head(todo)} \union Tasks(Tail(todo))
      /\ Pending' = Tasks(p) \union Tasks(Tail(todo))
  BY StackAfter DEF Pending
<1>2. List # Head(todo)
  BY DEF List
<1> QED BY <1>1, <1>2

-----------------------------------------------------------------------------
(* The hub receives a request.                                             *)

\* Who registers or unregisters, or a talk that begins or ends.
LEMMA ListsServe ==
  ASSUME IInv, TypeOK', ListsInv, NEW c \in Client, Serve(c)
  PROVE  ListsInv'
<1> USE HubAssumption
<1>a. TypeOK /\ ReaderInv
  BY DEF IInv
<1>b. todo = <<>> /\ roster' = roster /\ lobby' = lobby
  BY DEF Serve, HubRegister, HubUnregister, HubStart, HubStop, Stops, Selecting, told
<1>d. RoomOf[c] \in Room
  OBVIOUS
<1>1. CASE todo' = <<List, Users(RoomOf[c])>> /\ HubRegister(c)
  <2>1. Doomed' = {} /\ Relisting' = {RoomOf[c]}
    BY <1>1, <1>d, AfterRegister
  <2>2. List \in Pending'
    BY <1>1, TaskTypes DEF Pending, Tasks
  <2>3. ASSUME NEW d \in clients', RoomOf[d] # RoomOf[c] PROVE Listed(d)'
    <3>1. d \in clients /\ clients' = clients \union {c}
      BY <1>1, <2>3 DEF HubRegister
    <3>2. Members(RoomOf[d])' = Members(RoomOf[d])
      BY <2>3, <3>1 DEF Members
    <3>3. Listed(d)
      BY <1>b, <3>1, NothingPending DEF ListsInv
    <3> QED BY <1>b, <3>2, <3>3 DEF Listed
  <2> QED BY <2>1, <2>2, <2>3 DEF ListsInv
<1>2. CASE HubRegister(c)
  BY <1>1, <1>2 DEF HubRegister, Snapshots
<1>3. CASE HubUnregister(c)
  <2>1. CASE c \in clients
    <3>1. /\ clients' = clients \ {c}
          /\ todo' = <<Release(c), List, Users(RoomOf[c])>>
      BY <1>3, <2>1 DEF HubUnregister, Snapshots, Remove
    <3>2. Doomed' = {} /\ Relisting' = {RoomOf[c]}
      BY <1>d, <3>1, AfterUnregister
    <3>3. List \in Pending'
      BY <3>1, TaskTypes DEF Pending, Tasks
    <3>4. ASSUME NEW d \in clients', RoomOf[d] # RoomOf[c] PROVE Listed(d)'
      <4>1. Members(RoomOf[d])' = Members(RoomOf[d]) /\ d \in clients
        BY <3>1, <3>4 DEF Members
      <4>2. Listed(d)
        BY <1>b, <3>4, <4>1, NothingPending DEF ListsInv
      <4> QED BY <1>b, <4>1, <4>2 DEF Listed
    <3> QED BY <3>2, <3>3, <3>4 DEF ListsInv
  <2>2. CASE c \notin clients
    BY <1>a, <1>b, <1>3, <2>2, ListsUnchanged DEF HubUnregister
  <2> QED BY <2>1, <2>2
<1>4. CASE HubStart(c)
  <2> DEFINE r == reader[c].room
  <2>0. clients' = clients /\ r \in Room
    BY <1>4, <1>a DEF HubStart, TypeOK
  <2>1. CASE Grants(c, r)
    <3>1. /\ speakers' = [speakers EXCEPT ![r] = c]
          /\ todo' = <<Talking(c, r), Users(r)>>
      BY <1>4, <2>1 DEF HubStart, GrantCalls
    <3>2. speakers'[r] = c /\ c \in clients'
      BY <1>a, <2>0, <2>1, <3>1 DEF Grants, TypeOK
    <3>3. Doomed' = {}
      <4> HIDE DEF r
      <4> QED BY <2>0, <3>1, <3>2, AfterGrant
    <3> QED BY <1>a, <1>b, <2>0, <3>3, ListsBegin
  <2>2. CASE ~Grants(c, r)
    BY <1>a, <1>b, <1>4, <2>0, <2>2, ListsUnchanged DEF HubStart
  <2> QED BY <2>1, <2>2
<1>5. CASE HubStop(c)
  <2> DEFINE r == reader[c].room
  <2>0. clients' = clients /\ {r} \in SUBSET Room
    BY <1>5, <1>a DEF HubStop, Stops, TypeOK
  <2>1. CASE speakers[r] = c
    <3>1. todo' = Releasing({r})
      BY <1>5, <2>1 DEF HubStop, Stops
    <3>2. Doomed' = {}
      BY <1>a, <1>b, <2>0, <3>1, AfterFree
    <3> QED BY <1>a, <1>b, <2>0, <3>2, ListsBegin
  <2>2. CASE speakers[r] # c
    BY <1>a, <1>b, <1>5, <2>0, <2>2, ListsUnchanged DEF HubStop, Stops
  <2> QED BY <2>1, <2>2
<1> QED BY <1>2, <1>3, <1>4, <1>5 DEF Serve

\* Messages are relayed, and silent floors are freed.
LEMMA ListsRelay ==
  ASSUME IInv, ListsInv, HubAudio \/ HubChat \/ HubTick
  PROVE  ListsInv'
<1>a. TypeOK /\ todo = <<>> /\ UNCHANGED <<clients, roster, lobby>>
  BY DEF IInv, HubAudio, HubChat, HubTick, Selecting, hub, told
<1>b. Slow \subseteq Client
  BY HubAssumption
<1>1. CASE \E full \in SUBSET Slow : todo' = Evicting(full)
  <2>1. PICK full \in SUBSET Slow : todo' = Evicting(full)
    BY <1>1
  <2>2. Doomed' = full
    BY <1>a, <1>b, <2>1, AfterSend
  <2> QED BY <1>a, <2>1, <2>2, ListsBegin
<1>2. CASE \E rooms \in SUBSET Room : todo' = Releasing(rooms)
  <2>1. PICK rooms \in SUBSET Room : todo' = Releasing(rooms)
    BY <1>2
  <2>2. Doomed' = {}
    BY <1>a, <2>1, AfterFree
  <2> QED BY <1>a, <2>2, ListsBegin
<1>3. CASE todo' = todo
  BY <1>a, <1>3, ListsUnchanged
<1>4. CASE HubAudio
  BY <1>1, <1>3, <1>4 DEF HubAudio
<1>5. CASE HubChat
  BY <1>1, <1>5 DEF HubChat
<1>6. CASE HubTick
  BY <1>2, <1>6 DEF HubTick
<1> QED BY <1>4, <1>5, <1>6

-----------------------------------------------------------------------------
(* The calls of a handler.                                                 *)

\* An eviction: its client was slow.
LEMMA ListsEvict ==
  ASSUME IInv, ListsInv, DoEvict
  PROVE  ListsInv'
<1>a. TypeOK /\ StackInv
  BY DEF IInv
<1>0. PICK c \in Head(todo).who :
        /\ clients' = clients \ {c}
        /\ \/ todo' = <<Release(c)>> \o (Evicting(Head(todo).who \ {c}) \o Tail(todo))
           \/ todo' = Evicting(Head(todo).who \ {c}) \o Tail(todo)
  BY DEF DoEvict, Remove
<1> DEFINE who == Head(todo).who \ {c}
           ev  == IF who = {} THEN {} ELSE {Evict(who)}
           rest == Tasks(Tail(todo))
<1>1. /\ todo # <<>> /\ Head(todo).op = "evict" /\ Calls("evict")
      /\ roster' = roster /\ lobby' = lobby
  BY DEF DoEvict, Calls, told
<1>2. /\ Head(todo) \in Task /\ Tail(todo) \in Seq(Task)
      /\ Pending = {Head(todo)} \union rest
  BY <1>a, <1>1, StackAfter, EvictingTasks
<1>3. c \in Client /\ who \in SUBSET Client
  BY <1>2, TaskFields
<1>4. Evicting(who) \in Seq(Task) /\ Tasks(Evicting(who)) = ev
  BY <1>3, EvictingTasks
<1>5. /\ Evicting(who) \o Tail(todo) \in Seq(Task)
      /\ Tasks(Evicting(who) \o Tail(todo)) = ev \union rest
  BY <1>2, <1>4, StackConcat
<1>6. ev \union rest \subseteq Pending' /\ Pending' \subseteq {Release(c)} \union ev \union rest
  <2> DEFINE next == Evicting(who) \o Tail(todo)
  <2>1. Release(c) \in Task
    BY <1>3, TaskTypes
  <2> HIDE DEF next
  <2>2. Tasks(<<Release(c)>> \o next) = {Release(c)} \union Tasks(next)
    BY <1>5, <2>1, StackPush DEF next
  <2> QED BY <1>0, <1>5, <2>2 DEF Pending, next
<1>7. Evict(who).op = "evict" /\ Evict(who).who = who /\ Release(c).op = "release"
      /\ List.op = "list"
  BY DEF Evict, Release, List
<1>8. Head(todo).who \subseteq Doomed /\ Doomed \subseteq Slow
  BY <1>1, <1>2, PendingSets DEF ListsInv
<1>9. Doomed' \subseteq Doomed
  <2>1. \A d : d \in Doomed' => d \in Doomed
    BY <1>1, <1>2, <1>6, <1>7, PendingSets, PendingSetsPrime
  <2> QED BY <2>1
<1>10. List \in Pending => List \in Pending'
  BY <1>1, <1>2, <1>6, <1>7
<1>11. Doomed \subseteq Doomed' \union {c} /\ Relisting' = Relisting
  BY <1>a, <1>0, <1>1, AfterEvict
<1>12. {c} \in SUBSET Slow
  BY <1>8
<1> HIDE DEF who, ev, rest
<1> QED BY <1>a, <1>0, <1>1, <1>8, <1>9, <1>10, <1>11, <1>12, ListsKept

\* Floors freed and announcements: the lists that are to be sent still are, and only
\* slow clients are found full.
LEMMA ListsTalk ==
  ASSUME IInv, ListsInv, DoRelease \/ DoTalking \/ DoReleased
  PROVE  ListsInv'
<1> USE HubAssumption
<1>a. TypeOK /\ StackInv /\ UNCHANGED <<clients, roster, lobby>> /\ todo # <<>>
      /\ Head(todo).op # "list"
  BY DEF IInv, DoRelease, DoTalking, DoReleased, Calls, hub, told
<1>b. clients' = clients \ {} /\ {} \in SUBSET Slow /\ Doomed \subseteq Slow
  BY <1>a DEF ListsInv
<1>1. CASE DoRelease
  <2>1. PICK rooms \in SUBSET Room : todo' = Releasing(rooms) \o Tail(todo)
    BY <1>1 DEF DoRelease, HeldBy
  <2>2. Calls("release")
    BY <1>1 DEF DoRelease
  <2>3. Doomed' = Doomed /\ Relisting' = Relisting
    BY <1>a, <2>1, <2>2, AfterRelease
  <2>4. Releasing(rooms) \in Seq(Task)
    BY ReleasingTasks
  <2>5. List \in Pending => List \in Pending'
    BY <1>a, <2>1, <2>4, ListStays
  <2> QED BY <1>a, <1>b, <2>3, <2>5, ListsKept
<1>2. CASE DoTalking
  <2>1. PICK full \in SUBSET Slow : todo' = Evicting(full) \o Tail(todo)
    BY <1>2 DEF DoTalking
  <2>2. Head(todo).op = "talking" /\ full \in SUBSET Client
    BY <1>2 DEF DoTalking, Calls
  <2>3. Doomed' = Doomed \union full /\ Relisting \subseteq Relisting'
    BY <1>a, <2>1, <2>2, AfterBroadcast
  <2>4. Evicting(full) \in Seq(Task)
    BY <2>2, EvictingTasks
  <2>5. List \in Pending => List \in Pending'
    BY <1>a, <2>1, <2>4, ListStays
  <2> QED BY <1>a, <1>b, <2>3, <2>5, ListsKept
<1>3. CASE DoReleased
  <2>1. PICK r \in Head(todo).rooms, full \in SUBSET Slow :
          todo' = Evicting(full) \o <<Users(r)>>
                    \o Releasing(Head(todo).rooms \ {r}) \o Tail(todo)
    BY <1>3 DEF DoReleased
  <2>2. Calls("released") /\ full \in SUBSET Client
    BY <1>3 DEF DoReleased
  <2>3. /\ Doomed' = Doomed \union full /\ Relisting' = Relisting \union {r}
        /\ r \in Room
    BY <1>a, <2>1, <2>2, AfterReleased
  <2> DEFINE p == Evicting(full) \o <<Users(r)>> \o Releasing(Head(todo).rooms \ {r})
  <2>4. p \in Seq(Task)
    <3>1. Head(todo).rooms \ {r} \in SUBSET Room
      BY <1>a, StackAfter, TaskFields, EvictingTasks
    <3>2. Evicting(full) \in Seq(Task) /\ Releasing(Head(todo).rooms \ {r}) \in Seq(Task)
      BY <2>2, <3>1, EvictingTasks, ReleasingTasks
    <3>3. <<Users(r)>> \in Seq(Task)
      BY <2>3, TaskTypes
    <3> QED BY <3>2, <3>3, StackConcat
  <2>5. todo' = p \o Tail(todo)
    BY <2>1
  <2> HIDE DEF p
  <2>6. List \in Pending => List \in Pending'
    BY <1>a, <2>4, <2>5, ListStays
  <2> QED BY <1>a, <1>b, <2>3, <2>6, ListsKept
<1> QED BY <1>1, <1>2, <1>3

\* A list of users is sent to all in the room that are not slow.
LEMMA ListsUsers ==
  ASSUME IInv, ListsInv, DoUsers
  PROVE  ListsInv'
<1> USE HubAssumption
<1>a. TypeOK /\ StackInv /\ todo # <<>> /\ Head(todo).op = "users"
      /\ UNCHANGED <<clients, lobby>>
  BY DEF IInv, DoUsers, Calls, hub
<1>0. PICK r \in Head(todo).rooms :
        \E full \in SUBSET Slow, list \in Listings(r) :
          /\ roster' = [c \in Client |-> IF c \in Members(r) \ full THEN list ELSE roster[c]]
          /\ todo' = Evicting(full) \o Tail(todo)
  BY DEF DoUsers
<1>1. PICK full \in SUBSET Slow, list \in Listings(r) :
        /\ roster' = [c \in Client |-> IF c \in Members(r) \ full THEN list ELSE roster[c]]
        /\ todo' = Evicting(full) \o Tail(todo)
  BY <1>0
<1>2. Head(todo).rooms = {r}
  <2>1. Head(todo) \in Task
    BY <1>a, StackAfter, EvictingTasks
  <2> QED BY <1>a, <1>1, <2>1, TaskFields
<1>3. /\ Doomed' = Doomed \union full
      /\ \A q \in Relisting : q \in Relisting' \/ q = r
  BY <1>a, <1>1, <1>2, AfterBroadcast
<1>4. List \in Pending => List \in Pending'
  <2>1. Evicting(full) \in Seq(Task)
    BY EvictingTasks
  <2> QED BY <1>a, <1>1, <2>1, ListStays
<1>5. Doomed' \subseteq Slow
  BY <1>3 DEF ListsInv
<1>6. ASSUME NEW c \in clients' \ Doomed' PROVE RoomOf[c] \in Relisting' \/ Listed(c)'
  <2>1. c \in clients \ Doomed /\ c \in Client /\ c \notin full
    BY <1>a, <1>3, <1>6 DEF TypeOK
  <2>2. \A q : Members(q)' = Members(q)
    BY <1>a DEF Members
  <2>3. CASE RoomOf[c] = r
    <3>1. roster'[c] = list
      BY <1>1, <2>1, <2>3 DEF Members
    <3>2. list \subseteq Members(r) /\ (list = Members(r) \/ Cardinality(list) = MaxRoomUsers)
      BY DEF Listings
    <3> QED BY <2>2, <2>3, <3>1, <3>2 DEF Listed
  <2>4. CASE RoomOf[c] # r
    <3>1. roster'[c] = roster[c]
      BY <1>1, <2>1, <2>4 DEF Members
    <3>2. RoomOf[c] \in Relisting \/ Listed(c)
      BY <2>1 DEF ListsInv
    <3> QED BY <1>3, <2>2, <2>4, <3>1, <3>2 DEF Listed
  <2> QED BY <2>3, <2>4
<1>7. ASSUME NEW c \in clients' \ Doomed' PROVE List \in Pending' \/ Lobbied(c)'
  <2>1. List \in Pending \/ Lobbied(c)
    BY <1>a, <1>3, <1>7 DEF ListsInv
  <2>2. Members(DefaultRoom)' = Members(DefaultRoom)
    BY <1>a DEF Members
  <2> QED BY <1>a, <1>4, <2>1, <2>2 DEF Lobbied
<1> QED BY <1>5, <1>6, <1>7 DEF ListsInv

\* The list of rooms is sent to all that are not slow.
LEMMA ListsLobby ==
  ASSUME IInv, ListsInv, DoList
  PROVE  ListsInv'
<1> USE HubAssumption
<1>a. TypeOK /\ StackInv /\ todo # <<>> /\ Head(todo).op = "list"
      /\ UNCHANGED <<clients, roster>>
  BY DEF IInv, DoList, Calls, hub
<1>1. PICK full \in SUBSET Slow :
        /\ lobby' = [c \in Client |-> IF c \in clients \ full
                       THEN Cardinality(Members(DefaultRoom)) ELSE lobby[c]]
        /\ todo' = Evicting(full) \o Tail(todo)
  BY DEF DoList
<1>2. Doomed' = Doomed \union full /\ Relisting \subseteq Relisting'
  BY <1>a, <1>1, AfterBroadcast
<1>3. Doomed' \subseteq Slow
  BY <1>2 DEF ListsInv
<1>4. ASSUME NEW c \in clients' \ Doomed' PROVE RoomOf[c] \in Relisting' \/ Listed(c)'
  <2>1. RoomOf[c] \in Relisting \/ Listed(c)
    BY <1>a, <1>2, <1>4 DEF ListsInv
  <2>2. \A q : Members(q)' = Members(q)
    BY <1>a DEF Members
  <2> QED BY <1>a, <1>2, <2>1, <2>2 DEF Listed
<1>5. ASSUME NEW c \in clients' \ Doomed' PROVE Lobbied(c)'
  <2>1. c \in Client /\ c \in clients \ full
    BY <1>a, <1>2, <1>5 DEF TypeOK
  <2>2. lobby'[c] = Cardinality(Members(DefaultRoom))
    BY <1>1, <2>1
  <2>3. Members(DefaultRoom)' = Members(DefaultRoom) /\ Cardinality(Members(DefaultRoom)) \in Nat
    BY <1>a, MembersCount DEF Members
  <2> QED BY <2>2, <2>3 DEF Lobbied
<1> QED BY <1>3, <1>4, <1>5 DEF ListsInv

-----------------------------------------------------------------------------
\* Every step keeps it.
LEMMA ListsStep == IInv /\ IInv' /\ ListsInv /\ [Next]_vars => ListsInv'
<1> SUFFICES ASSUME IInv, IInv', ListsInv, [Next]_vars PROVE ListsInv'
  OBVIOUS
<1>0. TypeOK /\ TypeOK'
  BY DEF IInv
<1>1. CASE \E c \in Client : Request(c)
  <2>1. UNCHANGED <<clients, roster, lobby, todo>>
    BY <1>1 DEF Request, Connect, PressTalk, ReleaseTalk, SendChat, SendAudio, ReadFails,
                hub, told
  <2> QED BY <1>0, <2>1, ListsUnchanged
<1>2. CASE \E c \in Client : Serve(c)
  BY <1>0, <1>2, ListsServe
<1>3. CASE HubAudio \/ HubChat \/ HubTick
  BY <1>3, ListsRelay
<1>4. CASE HubStep
  BY <1>4, ListsEvict, ListsTalk, ListsUsers, ListsLobby DEF HubStep
<1>5. CASE Elapse
  <2>1. UNCHANGED <<clients, roster, lobby, todo>>
    BY <1>5 DEF Elapse, told
  <2> QED BY <1>0, <2>1, ListsUnchanged
<1>6. CASE UNCHANGED vars
  <2>1. UNCHANGED <<clients, roster, lobby, todo>>
    BY <1>6 DEF vars, hub, told
  <2> QED BY <1>0, <2>1, ListsUnchanged
<1> QED BY <1>1, <1>2, <1>3, <1>4, <1>5, <1>6 DEF Next, HubSelect

\* Nobody is missing from the lists that a client was last told between two handlers,
\* and only clients whose queue may be full are too many in them (hub.go:563-621).
THEOREM ListsStayComplete == Spec => []ListsMissNobody
<1>1. Init => IInv /\ ListsInv
  BY InvInit, ListsInit
<1>2. IInv /\ ListsInv /\ [Next]_vars => IInv' /\ ListsInv'
  BY InvStep, ListsStep
<1>3. ListsInv => ListsMissNobody
  <2> SUFFICES ASSUME ListsInv, todo = <<>>, NEW c \in clients
               PROVE  Listed(c) /\ Lobbied(c)
    BY DEF ListsMissNobody, Selecting, Listed, Lobbied
  <2>1. Doomed = {} /\ Relisting = {} /\ Pending = {}
    BY NothingPending, EmptyTasks DEF Pending
  <2> QED BY <2>1 DEF ListsInv
<1> QED BY <1>1, <1>2, <1>3, PTL DEF Spec
=============================================================================
