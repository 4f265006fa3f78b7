---------------------------- MODULE SegmentStats ----------------------------
(***************************************************************************)
(* The statistics that the hub keeps of the audio in one room and shows    *)
(* the room's clients as intercom_audio_diag: Hub.handleAudioFrame and the *)
(* functions it counts with (src/ws/hub.go:251-484).  The hub goroutine    *)
(* alone touches them, so a handler is one step.                           *)
(*                                                                         *)
(* Who talks, whose frame it is and which queues can take it is chosen     *)
(* freely here: module Hub has that.                                       *)
(***************************************************************************)
EXTENDS Naturals, Sequences

CONSTANTS InvalidReasons,   \* what parseAudioHeader may say of a frame, or ""
          SeqMod,           \* a sequence number is a uint16: 2^16
          UpdateEvery,      \* frames between two updates: 50
          MaxFrames         \* bound: frames counted in one entry

ASSUME SegmentAssumption == /\ SeqMod \in Nat \ {0, 1}
                            /\ UpdateEvery \in Nat \ {0}
                            /\ MaxFrames \in Nat

VARIABLES
    talking,      \* the room has a speaker
    stats,        \* Hub.audioStats[room]
    received,     \* frames handled since the room's talk last began or ended
    accepted,     \* how many of them the speaker sent and were valid
    lastAccepted, \* the sequence number of the last of these
    contiguous    \* each of these followed the one before

vars == <<talking, stats, received, accepted, lastAccepted, contiguous>>

Seqs == 0 .. SeqMod - 1

\* A frame's sender is the room's speaker, the speaker of another room, or
\* neither.
Senders == {"speaker", "elsewhere", "other"}

Frame == [seq : Seqs, valid : BOOLEAN, why : InvalidReasons, from : Senders]

\* A drop reason, with its detail when there is one.
Reasons == Seq({"none", "invalid_frame", "not_current_speaker", "wrong_room",
                "no_active_speaker", "sender_is_not_current_room_speaker",
                "ws_write_failed", "send_queue_full", "no_listener"}
               \union InvalidReasons)

\* open: the map has an entry; segment: a granted start made it (segment_id is
\* not 0), not a frame that found none; shown: the last_drop_reason of the last
\* diagnostics that the entry's segment caused, in the room's queues as far as they had
\* a place for it.
Stats == [open : BOOLEAN, segment : BOOLEAN,
          inbound : Nat, valid : Nat, forwarded : Nat, dropped : Nat,
          lastDropReason : Reasons, lastEmittedDrop : Reasons, shown : Reasons,
          lastSeq : Seqs, hasSeq : BOOLEAN, seqGaps : Nat]

NewStats(isSegment, reason) ==
    [open |-> TRUE, segment |-> isSegment,
     inbound |-> 0, valid |-> 0, forwarded |-> 0, dropped |-> 0,
     lastDropReason |-> reason, lastEmittedDrop |-> <<>>, shown |-> <<>>,
     lastSeq |-> 0, hasSeq |-> FALSE, seqGaps |-> 0]

NoStats == [NewStats(FALSE, <<>>) EXCEPT !.open = FALSE]

TypeOK == /\ talking \in BOOLEAN
          /\ stats \in Stats
          /\ received \in Nat
          /\ accepted \in Nat
          /\ lastAccepted \in Seqs
          /\ contiguous \in BOOLEAN

Init == /\ talking = FALSE
        /\ stats = NoStats
        /\ received = 0
        /\ accepted = 0
        /\ lastAccepted = 0
        /\ contiguous = TRUE

-----------------------------------------------------------------------------
(* What the handlers do to an entry.                                       *)

\* emitAudioDiag: nothing is shown of frames outside a segment, and nothing to a client
\* whose queue is full.
Emit(st) == IF st.segment THEN [st EXCEPT !.shown = st.lastDropReason] ELSE st

\* dropAudioFrame: counts a drop, and shows its reason when that is a new one.
DropOnce(st, reason) ==
    IF st.lastEmittedDrop = reason
       THEN st
       ELSE Emit([st EXCEPT !.dropped = @ + 1, !.lastDropReason = reason,
                            !.lastEmittedDrop = reason])
DropUnshown(st, reason) ==
    [st EXCEPT !.dropped = @ + 1, !.lastDropReason = reason, !.lastEmittedDrop = reason]
Drop(st, reason) ==
    LET counted == [st EXCEPT !.dropped = @ + 1, !.lastDropReason = reason]
    IN  IF st.lastEmittedDrop = reason
           THEN counted
           ELSE Emit([counted EXCEPT !.lastEmittedDrop = reason])

\* roomAudioStats makes an entry when there is none; handleAudioFrame counts
\* the frame into it and takes over its sequence number, valid or not.
Counted(frame) ==
    LET st == IF stats.open THEN stats ELSE NewStats(FALSE, <<"not_current_speaker">>)
    IN  [st EXCEPT !.inbound = @ + 1,
                   !.valid = IF frame.valid THEN @ + 1 ELSE @,
                   !.lastSeq = frame.seq]

RecordNextSeq(st, frame) == [st EXCEPT !.hasSeq = TRUE, !.lastSeq = frame.seq + 1]
RecordSeq(st, frame) ==
    [st EXCEPT !.hasSeq = TRUE,
               !.lastSeq = frame.seq,
               !.seqGaps = IF st.hasSeq /\ frame.seq # (st.lastSeq + 1) % SeqMod
                              THEN @ + 1 ELSE @]

\* Why a frame is not forwarded: the first that applies.
DropReason(frame) ==
    IF frame.valid
       THEN <<IF frame.from = "elsewhere" THEN "wrong_room" ELSE "not_current_speaker",
              IF talking THEN "sender_is_not_current_room_speaker"
                         ELSE "no_active_speaker">>
       ELSE IF frame.why = "" THEN <<"invalid_frame">>
                              ELSE <<"invalid_frame", frame.why>>

Accepts(frame) == frame.valid /\ frame.from = "speaker"

\* The frames that may come: nobody is the speaker of a room that has none.
Arrives(frame) == /\ stats.inbound < MaxFrames
                  /\ frame.from = "speaker" => talking
                  /\ received' = received + 1
                  /\ UNCHANGED talking

-----------------------------------------------------------------------------
DropFrame(frame) ==
    /\ Arrives(frame)
    /\ ~Accepts(frame)
    /\ stats' = Drop(Counted(frame), DropReason(frame))
    /\ UNCHANGED <<accepted, lastAccepted, contiguous>>

\* The speaker's frame reached some queue or none, and found some queue full or
\* none. Both a full queue and nobody reached count as a drop.
ForwardFrame(frame, reached, full) ==
    /\ Arrives(frame)
    /\ Accepts(frame)
    /\ LET recorded  == RecordSeq(Counted(frame), frame)
           forwarded == [recorded EXCEPT !.forwarded = IF reached THEN @ + 1 ELSE @]
           blocked   == IF full THEN Drop(forwarded, <<"ws_write_failed", "send_queue_full">>)
                                ELSE forwarded
           unheard   == IF reached THEN blocked ELSE Drop(blocked, <<"no_listener">>)
       IN  stats' = IF unheard.inbound = 1 \/ unheard.inbound % UpdateEvery = 0
                       THEN Emit(unheard) ELSE unheard
    /\ accepted' = accepted + 1
    /\ lastAccepted' = frame.seq
    /\ contiguous' = (contiguous /\ (accepted = 0
                                      \/ frame.seq = (lastAccepted + 1) % SeqMod))

\* A talk begins or ends: nothing received of the next one yet.
Afresh == /\ received' = 0
          /\ accepted' = 0
          /\ lastAccepted' = 0
          /\ contiguous' = TRUE

\* A granted start replaces whatever entry there is, and shows the new one.
StartOnOldEntry ==
    /\ ~talking
    /\ talking' = TRUE
    /\ stats' = IF stats.open THEN Emit([stats EXCEPT !.segment = TRUE])
                              ELSE Emit(NewStats(TRUE, <<"none">>))
    /\ Afresh
StartSegment == /\ ~talking
                /\ talking' = TRUE
                /\ stats' = Emit(NewStats(TRUE, <<"none">>))
                /\ Afresh

\* logAudioSegment: the segment is summed up and its entry deleted.
EndSegment == /\ talking
              /\ talking' = FALSE
              /\ stats' = NoStats
              /\ Afresh

Next == \/ \E frame \in Frame :
              \/ DropFrame(frame)
              \/ \E reached, full \in BOOLEAN : ForwardFrame(frame, reached, full)
        \/ StartSegment
        \/ EndSegment

Spec == Init /\ [][Next]_vars

-----------------------------------------------------------------------------
(* Properties.                                                             *)

\* An entry counts the frames handled since its room's talk began, or since the
\* last talk ended: a segment does not inherit what came before it (a granted
\* start overwrites the entry, hub.go:216-223, the end deletes it, 427).
CountsOwnFrames ==
    /\ stats.open /\ stats.segment <=> talking
    /\ stats.inbound = received

\* Every frame is accounted for: forwarded, or dropped for a reason, or both
\* when only some of the listeners could take it; only valid ones of the
\* speaker are forwarded (hub.go:275-322).
EveryFrameCounted ==
    /\ stats.inbound <= stats.forwarded + stats.dropped
    /\ stats.forwarded <= accepted
    /\ accepted <= stats.valid /\ stats.valid <= stats.inbound

\* The room of a running segment has been sent why the last frame was dropped (whether
\* a listener has got it depends on its queue, hub.go:478-481), although a reason is
\* sent only when it differs from the one before, and the drops before the segment were
\* sent to nobody. The late report in logAudioSegment (hub.go:422-425) is there for a
\* state that cannot occur.
LastDropShown ==
    talking => stats.shown = IF stats.dropped = 0 THEN <<"none">>
                                                  ELSE stats.lastDropReason

\* As the test page presents seq_gaps: frames "lost or out of order"
\* (src/tools/intercom-listener.html:403). No gap is counted when each frame of
\* the speaker follows the one before.
NoFalseGaps == contiguous => stats.seqGaps = 0
=============================================================================
