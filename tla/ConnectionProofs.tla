-------------------------- MODULE ConnectionProofs --------------------------
(***************************************************************************)
(* Proofs about Connection: its variables keep to their types, and the hub *)
(* holds a connection exactly while its reader will still unregister it,   *)
(* for queues and networks of every capacity.                              *)
(***************************************************************************)
EXTENDS Connection, TLAPS

Inv == TypeOK /\ MemberHasReader

USE DEF ConnectionAssumption, hub, vars

\* A connection starts outside the hub, its reader about to register it.
LEMMA InvInit == Init => Inv
<1> SUFFICES ASSUME Init PROVE Inv
  OBVIOUS
<1>1. panicked \in BOOLEAN /\ condemned \in BOOLEAN /\ ~condemned
  BY ZenonT(10) DEF Init
<1>2. queue \in 0 .. SendCap /\ net \in 0 .. NetCap
  BY ConnectionAssumption DEF Init
<1> QED
  BY <1>1, <1>2, ZenonT(10) DEF Init, Inv, TypeOK, MemberHasReader

\* What the hub does to a connection: only an eviction that a full queue has
\* brought about and the reader's own unregister remove it.
LEMMA InvHub == ASSUME Inv, HubSend \/ HubEvict \/ Hub
                PROVE  Inv'
<1> USE ConnectionAssumption DEF Inv, TypeOK, MemberHasReader
<1>1. CASE HubSend
  <2>1. queue' \in 0 .. SendCap
    BY <1>1 DEF HubSend
  <2>2. condemned' \in BOOLEAN /\ member = "yes" /\ UNCHANGED <<reader, member>>
    BY <1>1, ZenonT(10) DEF HubSend
  <2> QED
    BY <1>1, <2>1, <2>2, ZenonT(10) DEF HubSend
<1>2. CASE HubEvict
  BY <1>2 DEF HubEvict
<1>3. CASE HubRegister
  BY <1>3 DEF HubRegister
<1>4. CASE HubReceive
  BY <1>4 DEF HubReceive
<1>5. CASE HubUnregister
  BY <1>5 DEF HubUnregister
<1> QED
  BY <1>1, <1>2, <1>3, <1>4, <1>5 DEF Hub

\* The reader leaves the hub before it closes the connection, also when an
\* answer to a closed queue ends it.
LEMMA InvReader == ASSUME Inv, Reader
                   PROVE  Inv'
<1> USE ConnectionAssumption DEF Inv, TypeOK, MemberHasReader
<1>1. CASE StartPumps
  BY <1>1 DEF StartPumps
<1>2. CASE ReadForHub
  BY <1>2 DEF ReadForHub
<1>3. CASE ReadAndReply
  <2>1. queue' \in 0 .. SendCap
    BY <1>3 DEF ReadAndReply
  <2>2. panicked' \in BOOLEAN /\ reader' \in {"read", "unregister"}
    BY <1>3, ZenonT(10) DEF ReadAndReply
  <2> QED
    BY <1>3, <2>1, <2>2, ZenonT(10) DEF ReadAndReply
<1>4. CASE ReadFails
  BY <1>4 DEF ReadFails
<1>5. CASE ReaderCloses
  BY <1>5 DEF ReaderCloses
<1> QED
  BY <1>1, <1>2, <1>3, <1>4, <1>5 DEF Reader

\* The writer and the peer leave the hub and the reader's place alone.
LEMMA InvOthers == ASSUME Inv, Writer \/ Peer
                   PROVE  Inv'
<1> USE ConnectionAssumption DEF Inv, TypeOK, MemberHasReader
<1>1. CASE TakeMessage
  BY <1>1 DEF TakeMessage
<1>2. CASE TakeEnd
  BY <1>2 DEF TakeEnd
<1>3. CASE Ping
  BY <1>3 DEF Ping
<1>4. CASE WriteSucceeds
  BY <1>4 DEF WriteSucceeds, Written
<1>5. CASE WriteFails
  BY <1>5 DEF WriteFails
<1>6. CASE WriteClose
  BY <1>6 DEF WriteClose, Written
<1>7. CASE WriterCloses
  BY <1>7 DEF WriterCloses
<1>8. CASE Peer
  BY <1>8 DEF Peer, PeerStopsReading, PeerLost
<1> QED
  BY <1>1, <1>2, <1>3, <1>4, <1>5, <1>6, <1>7, <1>8 DEF Writer, WriteEnds

\* Both hold together in every state of a connection.
LEMMA ConnectionInvariant == Spec => []Inv
<1>1. Inv /\ UNCHANGED vars => Inv'
  BY DEF Inv, TypeOK, MemberHasReader
<1>2. Inv /\ [Next]_vars => Inv'
  BY <1>1, InvHub, InvReader, InvOthers DEF Next
<1> QED
  BY InvInit, <1>2, PTL DEF Spec

\* The queue and what the network holds keep within their capacities, and each
\* goroutine within its phases.
THEOREM ConnectionTypeCorrect == Spec => []TypeOK
<1>1. Inv => TypeOK
  BY DEF Inv
<1> QED
  BY <1>1, ConnectionInvariant, PTL

\* The hub never keeps a connection whose reader is done with it, and none that
\* it is about to evict has a reader that has left (client.go:97-101).
THEOREM MembersHaveReaders == Spec => []MemberHasReader
<1>1. Inv => MemberHasReader
  BY DEF Inv
<1> QED
  BY <1>1, ConnectionInvariant, PTL

-----------------------------------------------------------------------------
(* The connection is what the hub takes it for.                            *)

\* What a step leaves alone or does, as the hub sees it.
LEMMA Stutters ==
  ASSUME reader' = reader, UNCHANGED hub
  PROVE  UNCHANGED MembershipOf!vars
BY DEF MembershipOf!vars, ReaderStage

\* The hub's own steps: what it finds full it evicts, and then receives again.
LEMMA HubAsMembership ==
  ASSUME Inv, HubSend \/ HubEvict \/ Hub
  PROVE  [MembershipOf!Next]_(MembershipOf!vars)
<1> USE DEF Inv, MemberHasReader, ReaderStage
<1>0. reader \in {"register", "start", "read", "send", "unregister", "close", "gone"}
  BY DEF TypeOK
<1>1. CASE HubSend
  <2>1. member = "yes" /\ UNCHANGED <<reader, member>>
    BY <1>1, ZenonT(10) DEF HubSend
  <2>2. condemned' = condemned \/ condemned' = TRUE
    BY <1>1, ZenonT(10) DEF HubSend
  <2>3. ReaderStage \in {"free", "blocked", "unregister"} /\ UNCHANGED ReaderStage
    BY <1>0, <2>1
  <2>4. CASE condemned' = condemned
    BY <2>1, <2>4, Stutters, ZenonT(10) DEF hub
  <2>5. CASE condemned' = TRUE
    BY <2>1, <2>3, <2>5, ZenonT(10) DEF MembershipOf!Next, MembershipOf!Condemn
  <2> QED BY <2>2, <2>4, <2>5
<1>2. CASE HubEvict
  <2>1. UNCHANGED ReaderStage
    BY <1>2 DEF HubEvict
  <2> QED BY <1>2, <2>1, ZenonT(10) DEF HubEvict, MembershipOf!Next, MembershipOf!Evict
<1>3. CASE HubRegister
  <2>1. ReaderStage = "register" /\ ReaderStage' = "free" /\ member = "no"
    BY <1>3 DEF HubRegister
  <2> QED BY <1>3, <2>1, ZenonT(10) DEF HubRegister, MembershipOf!Next, MembershipOf!Register
<1>4. CASE HubReceive
  <2>1. ReaderStage = "blocked" /\ ReaderStage' = "free"
    BY <1>4 DEF HubReceive
  <2> QED BY <1>4, <2>1, ZenonT(10) DEF HubReceive, hub, MembershipOf!Next, MembershipOf!Receive
<1>5. CASE HubUnregister
  <2>1. ReaderStage = "unregister" /\ ReaderStage' = "done"
    BY <1>5 DEF HubUnregister
  <2> QED BY <1>5, <2>1, ZenonT(10)
          DEF HubUnregister, MembershipOf!Next, MembershipOf!Unregister
<1> QED BY <1>1, <1>2, <1>3, <1>4, <1>5 DEF Hub

\* The reader's steps: it asks, or it fails, also by its panic.
LEMMA ReaderAsMembership ==
  ASSUME Inv, Reader
  PROVE  [MembershipOf!Next]_(MembershipOf!vars)
<1> USE DEF ReaderStage
<1>a. ASSUME ReaderStage' = ReaderStage, UNCHANGED hub PROVE UNCHANGED MembershipOf!vars
  BY <1>a DEF MembershipOf!vars
<1>1. CASE StartPumps \/ ReaderCloses
  <2>1. ReaderStage' = ReaderStage /\ UNCHANGED hub
    BY <1>1 DEF StartPumps, ReaderCloses
  <2> QED BY <1>a, <2>1
<1>2. CASE ReadForHub
  <2>1. ReaderStage = "free" /\ ReaderStage' = "blocked"
    BY <1>2 DEF ReadForHub
  <2> QED BY <1>2, <2>1, ZenonT(10) DEF ReadForHub, hub, MembershipOf!Next, MembershipOf!Ask
<1>3. CASE ReadFails \/ ReadAndReply
  <2>1. /\ reader = "read" /\ reader' \in {"read", "unregister"}
        /\ UNCHANGED hub
    <3>1. CASE ReadFails
      BY <3>1 DEF ReadFails
    <3>2. CASE ReadAndReply
      BY <3>2, ZenonT(10) DEF ReadAndReply
    <3> QED BY <1>3, <3>1, <3>2
  <2>2. CASE reader' = "read"
    BY <2>1, <2>2, Stutters
  <2>3. CASE reader' = "unregister"
    <3>1. ReaderStage = "free" /\ ReaderStage' = "unregister"
      BY <2>1, <2>3
    <3> QED BY <2>1, <3>1, ZenonT(10) DEF hub, MembershipOf!Next, MembershipOf!Fail
  <2> QED BY <2>1, <2>2, <2>3
<1> QED BY <1>1, <1>2, <1>3 DEF Reader

\* A connection, its panics and its evictions included, is to the hub what module
\* Membership says (client.go:97-101): so what Connection assumes of the hub and what
\* Hub assumes of its connections are two sides of one specification.
THEOREM ConnectionIsMember == Spec => MembershipSpec
<1>1. Init => MembershipOf!Init
  BY ZenonT(10) DEF Init, MembershipOf!Init, ReaderStage
<1>2. Inv /\ [Next]_vars => [MembershipOf!Next]_(MembershipOf!vars)
  <2> SUFFICES ASSUME Inv, [Next]_vars PROVE [MembershipOf!Next]_(MembershipOf!vars)
    OBVIOUS
  <2>1. CASE HubSend \/ HubEvict \/ Hub
    BY <2>1, HubAsMembership
  <2>2. CASE Reader
    BY <2>2, ReaderAsMembership
  <2>3. CASE Writer \/ Peer \/ UNCHANGED vars
    <3>1. reader' = reader /\ UNCHANGED hub
      <4>1. CASE Writer
        BY <4>1 DEF Writer, TakeMessage, TakeEnd, Ping, WriteEnds, WriteSucceeds, WriteFails,
                    WriteClose, WriterCloses
      <4>2. CASE Peer \/ UNCHANGED vars
        BY <4>2 DEF Peer, PeerStopsReading, PeerLost
      <4> QED BY <2>3, <4>1, <4>2
    <3> QED BY <3>1, Stutters
  <2> QED BY <2>1, <2>2, <2>3 DEF Next
<1> QED BY <1>1, <1>2, ConnectionInvariant, PTL DEF Spec, MembershipSpec, MembershipOf!Spec
=============================================================================
