--------------------------- MODULE SegmentProofs ---------------------------
(***************************************************************************)
(* Proofs about SegmentStats: its properties hold for every set of reasons,*)
(* every modulus of the sequence numbers and every number of frames.       *)
(***************************************************************************)
EXTENDS SegmentStats, TLAPS

\* What has been shown of an entry, when nothing is shown twice: the reason of
\* its last drop is the one emitted last, and there is none before the first.
ShownInv ==
    /\ ~stats.open => stats = NoStats
    /\ stats.lastEmittedDrop = IF stats.dropped = 0 THEN <<>> ELSE stats.lastDropReason
    /\ talking /\ stats.dropped = 0 => stats.lastDropReason = <<"none">>

Inv == TypeOK /\ CountsOwnFrames /\ EveryFrameCounted /\ LastDropShown /\ ShownInv

\* Emit changes what is shown, and nothing else.
LEMMA EmitShows ==
    ASSUME NEW st \in Stats
    PROVE  Emit(st) \in Stats
           /\ Emit(st) = [st EXCEPT !.shown = IF st.segment THEN st.lastDropReason
                                                            ELSE st.shown]
<1>1. CASE st.segment
  BY <1>1 DEF Emit, Stats
<1>2. CASE ~st.segment
  BY <1>2 DEF Emit, Stats
<1> QED
  BY <1>1, <1>2

\* A drop is counted, becomes the last one, and is shown in a segment where what
\* was emitted last is what is shown.
LEMMA DropCounts ==
    ASSUME NEW st \in Stats, NEW reason \in Reasons
    PROVE  /\ Drop(st, reason) \in Stats
           /\ Drop(st, reason).dropped = st.dropped + 1
           /\ Drop(st, reason).lastDropReason = reason
           /\ Drop(st, reason).lastEmittedDrop = reason
           /\ Drop(st, reason).shown =
                 IF st.lastEmittedDrop # reason /\ st.segment THEN reason ELSE st.shown
           /\ Drop(st, reason).open = st.open
           /\ Drop(st, reason).segment = st.segment
           /\ Drop(st, reason).inbound = st.inbound
           /\ Drop(st, reason).valid = st.valid
           /\ Drop(st, reason).forwarded = st.forwarded
<1> DEFINE counted == [st EXCEPT !.dropped = @ + 1, !.lastDropReason = reason]
           emitted == [counted EXCEPT !.lastEmittedDrop = reason]
<1>1. counted \in Stats /\ emitted \in Stats
  <2>1. st.dropped + 1 \in Nat
    BY DEF Stats
  <2>2. counted \in Stats
    BY <2>1, ZenonT(20) DEF Stats
  <2> QED
    BY <2>2, ZenonT(20) DEF Stats
<1>2. CASE st.lastEmittedDrop = reason
  BY <1>1, <1>2 DEF Drop, Stats
<1>3. CASE st.lastEmittedDrop # reason
  <2>1. Drop(st, reason) = Emit(emitted)
    BY <1>3, Zenon DEF Drop
  <2> HIDE DEF counted, emitted
  <2>2. Emit(emitted) \in Stats /\ Emit(emitted) = [emitted EXCEPT !.shown = IF emitted.segment THEN emitted.lastDropReason ELSE emitted.shown]
    BY <1>1, EmitShows
  <2>3. /\ emitted.dropped = st.dropped + 1
        /\ emitted.lastDropReason = reason /\ emitted.lastEmittedDrop = reason
        /\ emitted.shown = st.shown
        /\ emitted.open = st.open /\ emitted.segment = st.segment
        /\ emitted.inbound = st.inbound /\ emitted.valid = st.valid
        /\ emitted.forwarded = st.forwarded
    BY ZenonT(20) DEF counted, emitted, Stats
  <2> DEFINE e == Emit(emitted)
  <2>4. /\ e.dropped = emitted.dropped
        /\ e.lastDropReason = emitted.lastDropReason
        /\ e.lastEmittedDrop = emitted.lastEmittedDrop
        /\ e.shown = IF emitted.segment THEN emitted.lastDropReason ELSE emitted.shown
        /\ e.open = emitted.open /\ e.segment = emitted.segment
        /\ e.inbound = emitted.inbound /\ e.valid = emitted.valid
        /\ e.forwarded = emitted.forwarded
    BY <1>1, <2>2, ZenonT(20) DEF Stats
  <2> HIDE DEF e
  <2>5. Drop(st, reason) = e /\ e \in Stats
    BY <2>1, <2>2 DEF e
  <2> QED
    BY <1>3, <2>3, <2>4, <2>5, ZenonT(20)
<1> QED
  BY <1>2, <1>3

-----------------------------------------------------------------------------
\* An entry in the middle of a handler: it counts the frames it should, and has
\* shown what it should.
Sound(st, frames, ofSpeaker) ==
    /\ st \in Stats
    /\ st.open /\ (st.segment <=> talking)
    /\ st.inbound = frames
    /\ st.forwarded <= ofSpeaker /\ ofSpeaker <= st.valid /\ st.valid <= frames
    /\ st.lastEmittedDrop = IF st.dropped = 0 THEN <<>> ELSE st.lastDropReason
    /\ talking /\ st.dropped = 0 => st.lastDropReason = <<"none">>
    /\ talking => st.shown = IF st.dropped = 0 THEN <<"none">> ELSE st.lastDropReason

\* Showing an entry keeps it sound.
LEMMA EmitSound ==
    ASSUME TypeOK, NEW st, NEW n, NEW m, Sound(st, n, m)
    PROVE  /\ Sound(Emit(st), n, m)
           /\ Emit(st).forwarded = st.forwarded /\ Emit(st).dropped = st.dropped
<1> DEFINE e == Emit(st)
<1>1. st \in Stats
  BY DEF Sound
<1>2. e \in Stats /\ e = [st EXCEPT !.shown = IF st.segment THEN st.lastDropReason
                                                            ELSE st.shown]
  BY <1>1, EmitShows
<1>3. /\ e.open = st.open /\ e.segment = st.segment
      /\ e.inbound = st.inbound /\ e.valid = st.valid
      /\ e.forwarded = st.forwarded /\ e.dropped = st.dropped
      /\ e.lastEmittedDrop = st.lastEmittedDrop /\ e.lastDropReason = st.lastDropReason
      /\ e.shown = IF st.segment THEN st.lastDropReason ELSE st.shown
  BY <1>1, <1>2, ZenonT(20) DEF Stats
<1> HIDE DEF e
<1> QED
  <2>1. talking => e.shown = IF e.dropped = 0 THEN <<"none">> ELSE e.lastDropReason
    BY <1>3, ZenonT(20) DEF Sound
  <2>2. Sound(e, n, m)
    BY <1>2, <1>3, <2>1, ZenonT(20) DEF Sound
  <2> QED
    BY <1>3, <2>2 DEF e

\* So does counting a drop, for any reason that is one.
LEMMA DropSound ==
    ASSUME TypeOK, NEW st, NEW n, NEW m, Sound(st, n, m),
           NEW reason \in Reasons, reason # <<>>
    PROVE  /\ Sound(Drop(st, reason), n, m)
           /\ Drop(st, reason).forwarded = st.forwarded
           /\ Drop(st, reason).dropped = st.dropped + 1
<1> DEFINE d == Drop(st, reason)
<1>1. st \in Stats
  BY DEF Sound
<1>2. /\ d \in Stats /\ d.dropped = st.dropped + 1
      /\ d.lastDropReason = reason /\ d.lastEmittedDrop = reason
      /\ d.shown = IF st.lastEmittedDrop # reason /\ st.segment THEN reason ELSE st.shown
      /\ d.open = st.open /\ d.segment = st.segment
      /\ d.inbound = st.inbound /\ d.valid = st.valid /\ d.forwarded = st.forwarded
  BY <1>1, DropCounts
<1> HIDE DEF d
<1>3. d.dropped # 0
  BY <1>1, <1>2 DEF Stats
<1>4. talking => d.shown = reason
  BY <1>2, ZenonT(20) DEF Sound
<1>5. Sound(d, n, m)
  BY <1>2, <1>3, <1>4, ZenonT(20) DEF Sound
<1> QED
  BY <1>2, <1>5 DEF d

\* The invariant says that the room's entry, if there is one, is sound.
LEMMA InvSound == ASSUME Inv, stats.open
                  PROVE  Sound(stats, received, accepted)
BY ZenonT(20) DEF Inv, TypeOK, CountsOwnFrames, EveryFrameCounted, LastDropShown,
                  ShownInv, Sound

\* Conversely, an entry that is sound after a step gives the invariant.
LEMMA SoundInv ==
    ASSUME talking' \in BOOLEAN, received' \in Nat, accepted' \in Nat,
           lastAccepted' \in Seqs, contiguous' \in BOOLEAN,
           Sound(stats, received, accepted)',
           stats'.inbound <= stats'.forwarded + stats'.dropped
    PROVE  Inv'
BY ZenonT(20) DEF Inv, TypeOK, CountsOwnFrames, EveryFrameCounted, LastDropShown,
                  ShownInv, Sound

\* The reasons the handlers give are reasons.
LEMMA ReasonsGiven ==
    /\ <<>> \in Reasons /\ <<"none">> \in Reasons
    /\ <<"not_current_speaker">> \in Reasons /\ <<"no_listener">> \in Reasons
    /\ <<"ws_write_failed", "send_queue_full">> \in Reasons
    /\ <<"no_listener">> # <<>> /\ <<"ws_write_failed", "send_queue_full">> # <<>>
    /\ \A frame \in Frame : DropReason(frame) \in Reasons /\ DropReason(frame) # <<>>
<1>1. ASSUME NEW frame \in Frame
      PROVE  DropReason(frame) \in Reasons /\ DropReason(frame) # <<>>
  <2>1. frame.why \in InvalidReasons
    BY DEF Frame
  <2>2. CASE frame.valid
    <3> DEFINE who == IF frame.from = "elsewhere" THEN "wrong_room"
                                                  ELSE "not_current_speaker"
               why == IF talking THEN "sender_is_not_current_room_speaker"
                                 ELSE "no_active_speaker"
    <3>1. DropReason(frame) = <<who, why>>
      BY <2>2, Zenon DEF DropReason
    <3>2. /\ who \in {"wrong_room", "not_current_speaker"}
          /\ why \in {"sender_is_not_current_room_speaker", "no_active_speaker"}
      OBVIOUS
    <3> HIDE DEF who, why
    <3>3. <<who, why>> \in Reasons /\ <<who, why>> # <<>>
      BY <3>2 DEF Reasons
    <3> QED
      BY <3>1, <3>3
  <2>3. CASE ~frame.valid /\ frame.why = ""
    <3>1. DropReason(frame) = <<"invalid_frame">>
      BY <2>3, Zenon DEF DropReason
    <3> QED
      BY <3>1 DEF Reasons
  <2>4. CASE ~frame.valid /\ frame.why # ""
    <3>1. DropReason(frame) = <<"invalid_frame", frame.why>>
      BY <2>4, Zenon DEF DropReason
    <3>2. <<"invalid_frame", frame.why>> \in Reasons
      BY <2>1 DEF Reasons
    <3> QED
      BY <3>1, <3>2
  <2> QED
    BY <2>2, <2>3, <2>4
<1> QED
  BY <1>1 DEF Reasons

\* A new entry, and the absence of one, are of the entries' type.
LEMMA NewStatsTypes ==
    /\ \A isSegment \in BOOLEAN, reason \in Reasons : NewStats(isSegment, reason) \in Stats
    /\ NoStats \in Stats
<1>1. 0 \in Seqs /\ 0 \in Nat
  BY SegmentAssumption DEF SegmentAssumption, Seqs
<1>2. ASSUME NEW isSegment \in BOOLEAN, NEW reason \in Reasons
      PROVE  NewStats(isSegment, reason) \in Stats
  BY <1>1, ReasonsGiven, ZenonT(20) DEF NewStats, Stats
<1>3. NewStats(FALSE, <<>>) \in Stats
  BY <1>2, ReasonsGiven
<1> QED
  BY <1>2, <1>3, ZenonT(20) DEF NoStats, Stats

\* Counting a frame in keeps the entry sound, or begins a sound one.
LEMMA CountedSound ==
    ASSUME Inv, NEW frame \in Frame
    PROVE  LET c == Counted(frame)
           IN  /\ Sound(c, received + 1, accepted)
               /\ c.inbound <= c.forwarded + c.dropped + 1
               /\ c.valid = IF frame.valid THEN stats.valid + 1 ELSE stats.valid
<1> DEFINE st == IF stats.open THEN stats ELSE NewStats(FALSE, <<"not_current_speaker">>)
           c  == Counted(frame)
<1>1. /\ st \in Stats /\ Sound(st, received, accepted)
      /\ st.inbound <= st.forwarded + st.dropped /\ st.valid = stats.valid
  <2>1. CASE stats.open
    BY <2>1, InvSound DEF Inv, EveryFrameCounted, Sound
  <2>2. CASE ~stats.open
    <3>1. ~talking /\ stats = NoStats
      BY <2>2 DEF Inv, ShownInv, CountsOwnFrames
    <3>2. received = 0 /\ stats.valid = 0
      BY <3>1, ZenonT(20) DEF Inv, CountsOwnFrames, NoStats, NewStats
    <3>3. accepted = 0
      BY <3>2 DEF Inv, TypeOK, EveryFrameCounted
    <3>4. st = NewStats(FALSE, <<"not_current_speaker">>)
      BY <2>2
    <3>5. st \in Stats
      BY <3>4, NewStatsTypes, ReasonsGiven
    <3>6. 0 <= 0 /\ 0 <= 0 + 0
      OBVIOUS
    <3>7. /\ st.open /\ st.segment = FALSE /\ st.inbound = 0 /\ st.valid = 0
          /\ st.forwarded = 0 /\ st.dropped = 0 /\ st.lastEmittedDrop = <<>>
      BY <3>4 DEF NewStats
    <3> HIDE DEF st
    <3> QED
      BY <3>1, <3>2, <3>3, <3>5, <3>6, <3>7, ZenonT(20) DEF Sound
  <2> QED
    BY <2>1, <2>2
<1>2. c = [st EXCEPT !.inbound = @ + 1,
                     !.valid = IF frame.valid THEN @ + 1 ELSE @,
                     !.lastSeq = frame.seq]
  BY DEF Counted
<1> HIDE DEF st, c
<1>3. /\ frame.seq \in Seqs
      /\ st.inbound + 1 \in Nat
      /\ (IF frame.valid THEN st.valid + 1 ELSE st.valid) \in Nat
  BY <1>1 DEF Stats, Frame
<1>4. c \in Stats
  BY <1>1, <1>2, <1>3, ZenonT(20) DEF Stats
<1>5. /\ c.inbound = st.inbound + 1
      /\ c.valid = IF frame.valid THEN st.valid + 1 ELSE st.valid
      /\ c.forwarded = st.forwarded /\ c.dropped = st.dropped
      /\ c.open = st.open /\ c.segment = st.segment /\ c.shown = st.shown
      /\ c.lastDropReason = st.lastDropReason /\ c.lastEmittedDrop = st.lastEmittedDrop
  BY <1>1, <1>2, ZenonT(20) DEF Stats
<1>6. /\ c.inbound = received + 1
      /\ accepted <= c.valid /\ c.valid <= received + 1
      /\ c.inbound <= c.forwarded + c.dropped + 1
  BY <1>1, <1>5 DEF Sound, Stats, Inv, TypeOK
<1>7. Sound(c, received + 1, accepted)
  BY <1>1, <1>4, <1>5, <1>6, ZenonT(20) DEF Sound
<1> QED
  BY <1>1, <1>5, <1>6, <1>7 DEF c

\* The sequence numbers have no part in it.
LEMMA RecordSound ==
    ASSUME TypeOK, NEW st, NEW n, NEW m, Sound(st, n, m), NEW frame \in Frame
    PROVE  LET q == RecordSeq(st, frame)
           IN  /\ Sound(q, n, m) /\ q.valid = st.valid
               /\ q.forwarded = st.forwarded /\ q.dropped = st.dropped
<1> DEFINE gaps == IF st.hasSeq /\ frame.seq # (st.lastSeq + 1) % SeqMod
                      THEN st.seqGaps + 1 ELSE st.seqGaps
           q == RecordSeq(st, frame)
<1>1. st \in Stats /\ frame.seq \in Seqs
  BY DEF Sound, Frame
<1>2. gaps \in Nat
  BY <1>1 DEF Stats
<1>3. q = [st EXCEPT !.hasSeq = TRUE, !.lastSeq = frame.seq, !.seqGaps = gaps]
  BY Zenon DEF RecordSeq
<1> HIDE DEF gaps, q
<1>4. /\ q \in Stats
      /\ q.inbound = st.inbound /\ q.valid = st.valid
      /\ q.forwarded = st.forwarded /\ q.dropped = st.dropped
      /\ q.open = st.open /\ q.segment = st.segment /\ q.shown = st.shown
      /\ q.lastDropReason = st.lastDropReason /\ q.lastEmittedDrop = st.lastEmittedDrop
  BY <1>1, <1>2, <1>3, ZenonT(20) DEF Stats
<1>5. Sound(q, n, m)
  BY <1>4, ZenonT(20) DEF Sound
<1> QED
  BY <1>4, <1>5 DEF q

-----------------------------------------------------------------------------

\* Without a talk and without frames there is nothing to be shown or counted.
LEMMA InvInit == Init => Inv
<1> SUFFICES ASSUME Init PROVE Inv
  OBVIOUS
<1>1. 0 \in Seqs /\ 0 \in Nat /\ 0 <= 0 /\ 0 <= 0 + 0
  BY SegmentAssumption DEF SegmentAssumption, Seqs
<1>2. /\ NoStats.open = FALSE /\ NoStats.segment = FALSE /\ NoStats.inbound = 0
      /\ NoStats.valid = 0 /\ NoStats.forwarded = 0 /\ NoStats.dropped = 0
      /\ NoStats.lastEmittedDrop = <<>>
  BY DEF NoStats, NewStats
<1>3. NoStats \in Stats
  BY NewStatsTypes
<1> QED
  BY <1>1, <1>2, <1>3, ZenonT(20)
  DEF Init, Inv, TypeOK, CountsOwnFrames, EveryFrameCounted, LastDropShown, ShownInv

\* A frame that is not forwarded is dropped for its reason.
LEMMA InvDrop == ASSUME Inv, NEW frame \in Frame, DropFrame(frame)
                 PROVE  Inv'
<1> DEFINE c == Counted(frame)
           d == Drop(c, DropReason(frame))
<1>1. /\ Sound(c, received + 1, accepted)
      /\ c.inbound <= c.forwarded + c.dropped + 1
  BY CountedSound
<1>2. DropReason(frame) \in Reasons /\ DropReason(frame) # <<>>
  BY ReasonsGiven
<1> HIDE DEF c
<1>3. TypeOK
  BY DEF Inv
<1>4. Sound(d, received + 1, accepted) /\ d.forwarded = c.forwarded /\ d.dropped = c.dropped + 1
  BY <1>1, <1>2, <1>3, DropSound
<1>5. /\ stats' = d /\ received' = received + 1
      /\ UNCHANGED <<talking, accepted, lastAccepted, contiguous>>
  BY ZenonT(10) DEF DropFrame, Arrives, c
<1> HIDE DEF d
<1>6. Sound(stats, received, accepted)'
  BY <1>4, <1>5, ZenonT(10) DEF Sound
<1>7. stats'.inbound <= stats'.forwarded + stats'.dropped
  BY <1>1, <1>4, <1>5 DEF Sound, Stats
<1>8. /\ talking' \in BOOLEAN /\ accepted' \in Nat
      /\ lastAccepted' \in Seqs /\ contiguous' \in BOOLEAN
  BY <1>3, <1>5, ZenonT(10) DEF TypeOK
<1>9. received' \in Nat
  BY <1>3, <1>5 DEF TypeOK
<1> QED
  BY <1>6, <1>7, <1>8, <1>9, SoundInv

\* A frame that is forwarded is counted as such when it reached somebody, and
\* as a drop when it did not.
LEMMA InvForward ==
    ASSUME Inv, NEW frame \in Frame, NEW reached \in BOOLEAN, NEW full \in BOOLEAN,
           ForwardFrame(frame, reached, full)
    PROVE  Inv'
<1> DEFINE n == received + 1
           m == accepted + 1
           c == Counted(frame)
           q == RecordSeq(c, frame)
           f == [q EXCEPT !.forwarded = IF reached THEN @ + 1 ELSE @]
           b == IF full THEN Drop(f, <<"ws_write_failed", "send_queue_full">>) ELSE f
           u == IF reached THEN b ELSE Drop(b, <<"no_listener">>)
           e == IF u.inbound = 1 \/ u.inbound % UpdateEvery = 0 THEN Emit(u) ELSE u
<1>1. TypeOK /\ accepted \in Nat /\ received \in Nat
  BY DEF Inv, TypeOK
<1>2. /\ stats' = e /\ received' = n /\ accepted' = m /\ frame.valid
      /\ lastAccepted' = frame.seq /\ UNCHANGED talking
      /\ contiguous' \in BOOLEAN
  BY ZenonT(20) DEF ForwardFrame, Accepts, Arrives, Inv, TypeOK
<1>3. /\ Sound(c, n, accepted) /\ c.valid = stats.valid + 1
      /\ c.inbound <= c.forwarded + c.dropped + 1
  BY <1>2, CountedSound
<1> HIDE DEF c
<1>4. Sound(c, n, m)
  <2>1. accepted <= stats.valid /\ stats \in Stats
    BY DEF Inv, EveryFrameCounted, TypeOK
  <2>2. c.forwarded <= m /\ m <= c.valid
    BY <1>1, <1>3, <2>1 DEF Sound, Stats
  <2> HIDE DEF n, m
  <2> QED
    BY <1>3, <2>2, ZenonT(10) DEF Sound
<1>5. /\ Sound(q, n, m) /\ q.forwarded = c.forwarded /\ q.dropped = c.dropped
  BY <1>1, <1>4, RecordSound
<1> HIDE DEF q
<1>6. /\ Sound(f, n, m) /\ f.dropped = c.dropped
      /\ f.forwarded = IF reached THEN c.forwarded + 1 ELSE c.forwarded
  <2>1. /\ q \in Stats
        /\ (IF reached THEN q.forwarded + 1 ELSE q.forwarded) \in Nat
        /\ (IF reached THEN q.forwarded + 1 ELSE q.forwarded) <= m
    BY <1>1, <1>3, <1>5 DEF Sound, Stats
  <2>2. /\ f \in Stats
        /\ f.forwarded = IF reached THEN q.forwarded + 1 ELSE q.forwarded
        /\ f.inbound = q.inbound /\ f.valid = q.valid /\ f.dropped = q.dropped
        /\ f.open = q.open /\ f.segment = q.segment /\ f.shown = q.shown
        /\ f.lastDropReason = q.lastDropReason /\ f.lastEmittedDrop = q.lastEmittedDrop
    BY <2>1, ZenonT(20) DEF Stats
  <2> HIDE DEF n, m, f
  <2>3. Sound(f, n, m)
    BY <1>5, <2>1, <2>2, ZenonT(20) DEF Sound
  <2> QED
    BY <1>5, <2>2, <2>3
<1> HIDE DEF n, m, f
<1>7. /\ Sound(b, n, m) /\ b.forwarded = f.forwarded
      /\ b.dropped = f.dropped \/ b.dropped = f.dropped + 1
  BY <1>1, <1>6, DropSound, ReasonsGiven
<1> HIDE DEF b
<1>8. /\ Sound(u, n, m) /\ u.forwarded = b.forwarded
      /\ u.dropped = IF reached THEN b.dropped ELSE b.dropped + 1
  BY <1>1, <1>7, DropSound, ReasonsGiven
<1> HIDE DEF u
<1>9. Sound(e, n, m) /\ e.forwarded = u.forwarded /\ e.dropped = u.dropped
  BY <1>1, <1>8, EmitSound
<1> HIDE DEF e
<1>10. e.inbound <= e.forwarded + e.dropped
  <2>1. /\ e.inbound = n /\ c.inbound = n /\ f.dropped \in Nat /\ b.dropped \in Nat
        /\ c.forwarded \in Nat /\ c.dropped \in Nat /\ n \in Nat
    BY <1>1, <1>3, <1>6, <1>7, <1>9 DEF Sound, Stats, n
  <2> QED
    BY <2>1, <1>3, <1>6, <1>7, <1>8, <1>9
<1>11. Sound(stats, received, accepted)'
  BY <1>2, <1>9, ZenonT(10) DEF Sound
<1>12. received' \in Nat /\ accepted' \in Nat
  BY <1>1, <1>2 DEF n, m
<1>13. talking' \in BOOLEAN /\ lastAccepted' \in Seqs
  BY <1>1, <1>2, ZenonT(10) DEF TypeOK, Frame
<1> QED
  BY <1>2, <1>10, <1>11, <1>12, <1>13, SoundInv

\* A talk begins with an entry of its own, which is shown at once.
LEMMA InvStart == ASSUME Inv, StartSegment
                  PROVE  Inv'
<1> DEFINE new == NewStats(TRUE, <<"none">>)
<1>1. 0 \in Seqs /\ 0 \in Nat /\ 0 <= 0 /\ 0 <= 0 + 0
  BY SegmentAssumption DEF SegmentAssumption, Seqs
<1>2. new \in Stats
  BY NewStatsTypes, ReasonsGiven
<1>3. /\ new.open /\ new.segment /\ new.inbound = 0 /\ new.valid = 0
      /\ new.forwarded = 0 /\ new.dropped = 0
      /\ new.lastEmittedDrop = <<>> /\ new.lastDropReason = <<"none">>
  BY DEF NewStats
<1>4. /\ talking' /\ talking' = TRUE /\ stats' = Emit(new) /\ received' = 0 /\ accepted' = 0
      /\ lastAccepted' = 0 /\ contiguous' = TRUE
  BY ZenonT(10) DEF StartSegment, Afresh
<1> HIDE DEF new
<1>5. stats' = [new EXCEPT !.shown = new.lastDropReason]
  BY <1>3, <1>4, ZenonT(10) DEF Emit
<1>6. /\ stats'.open /\ stats'.segment /\ stats'.inbound = 0 /\ stats'.valid = 0
      /\ stats'.forwarded = 0 /\ stats'.dropped = 0
      /\ stats'.lastEmittedDrop = <<>> /\ stats'.lastDropReason = <<"none">>
      /\ stats'.shown = <<"none">>
  BY <1>2, <1>3, <1>5, ZenonT(10) DEF Stats
<1>7. stats' \in Stats
  BY <1>2, <1>4, EmitShows
<1>8. Sound(stats, received, accepted)'
  BY <1>1, <1>4, <1>6, <1>7, ZenonT(10) DEF Sound
<1> QED
  BY <1>1, <1>4, <1>6, <1>8, SoundInv, ZenonT(10)

\* A talk's end leaves no entry behind.
LEMMA InvEnd == ASSUME Inv, EndSegment
                PROVE  Inv'
<1>1. Init'
  BY ZenonT(10) DEF EndSegment, Afresh, Init
<1>2. Init' => Inv'
  BY InvInit, PTL
<1> QED
  BY <1>1, <1>2

\* All of it together in every state.
LEMMA SegmentInvariant == Spec => []Inv
<1>1. Inv /\ UNCHANGED vars => Inv'
  BY DEF vars, Inv, TypeOK, CountsOwnFrames, EveryFrameCounted, LastDropShown, ShownInv
<1>2. Inv /\ [Next]_vars => Inv'
  BY <1>1, InvDrop, InvForward, InvStart, InvEnd DEF Next
<1> QED
  BY InvInit, <1>2, PTL DEF Spec

\* The counters and reasons keep to their types.
THEOREM SegmentTypeCorrect == Spec => []TypeOK
<1>1. Inv => TypeOK
  BY DEF Inv
<1> QED
  BY <1>1, SegmentInvariant, PTL

\* A segment counts the frames handled since its talk began, and only those.
THEOREM SegmentsCountOwnFrames == Spec => []CountsOwnFrames
<1>1. Inv => CountsOwnFrames
  BY DEF Inv
<1> QED
  BY <1>1, SegmentInvariant, PTL

\* Every frame is counted as forwarded or as dropped, whatever became of it.
THEOREM FramesAreCounted == Spec => []EveryFrameCounted
<1>1. Inv => EveryFrameCounted
  BY DEF Inv
<1> QED
  BY <1>1, SegmentInvariant, PTL

\* The reason of a segment's last drop has always been sent to the room already when
\* the segment ends: the branch of logAudioSegment that would send it is dead code.
THEOREM DropsAreShown == Spec => []LastDropShown
<1>1. Inv => LastDropShown
  BY DEF Inv
<1> QED
  BY <1>1, SegmentInvariant, PTL
=============================================================================
