----------------------------- MODULE AudioBatch -----------------------------
(***************************************************************************)
(* How a reader goroutine takes a binary message apart into audio frames   *)
(* (Client.handleAudioFrames, emitAudioFrame, parseAudioHeader), and what  *)
(* the test page makes of a frame that is relayed to it.                   *)
(*                                                                         *)
(* A message is its length and what its headers say.  The header at an     *)
(* offset is chosen when the reader comes to it: headers do not overlap,   *)
(* as the next offset is behind the payload.                               *)
(***************************************************************************)
EXTENDS Integers, Sequences

CONSTANTS HeaderSize,   \* audioHeaderSize: 12
          MinSamples,   \* audioMinSamples: 160, two bytes each in PCM16
          MaxSamples,   \* audioMaxSamples: 320
          MaxLen        \* bound on the length of a message: 64 KiB

ASSUME BatchAssumption ==
    /\ HeaderSize \in Nat \ {0}
    /\ MinSamples \in Nat \ {0}
    /\ MaxSamples \in Nat
    /\ MinSamples <= MaxSamples
    /\ MaxLen \in Nat

VARIABLES
    len,     \* length of the message
    sim,     \* the codec, if the page's simulator has built it, or "none"
    offset,  \* how far the message has been taken apart
    frames,  \* what has been put into Hub.audioFrame
    done     \* handleAudioFrames has returned

vars == <<len, sim, offset, frames, done>>

\* magic, version, rate: whether they are the expected ones.
Header == [magic: BOOLEAN, version: BOOLEAN, rate: BOOLEAN,
           codec: {"pcm16", "ulaw", "other"}, samples: 0 .. MaxSamples + 1]

\* audioHeader{}, for less than a header.
NoHeader == [magic |-> FALSE, version |-> FALSE, rate |-> FALSE,
             codec |-> "pcm16", samples |-> 0]

PayloadBytes(h) == IF h.codec = "ulaw" THEN h.samples ELSE 2 * h.samples

\* What is wrong with n bytes that begin with h, in the order of the tests. Bytes
\* that are a header and no more may be the beginning of a frame.
When(holds, fault) == IF holds THEN <<fault>> ELSE <<>>
Faults(h, n) ==
    When(~h.magic, "bad_magic")
    \o When(~h.version, "bad_version")
    \o When(h.codec = "other", "bad_codec")
    \o When(h.samples < MinSamples \/ h.samples > MaxSamples, "bad_samples")
    \o When(~h.rate, "bad_sample_rate")
    \o When(n > HeaderSize /\ n - HeaderSize # PayloadBytes(h), "bad_payload_len")

Parse(h, n) == IF n < HeaderSize THEN "short_header"
               ELSE IF Faults(h, n) = <<>> THEN "" ELSE Head(Faults(h, n))

Reasons == {"", "short_header", "bad_magic", "bad_version", "bad_codec", "bad_samples",
            "bad_sample_rate", "bad_payload_len", "bad_batch_len"}

Frame == [from: Nat, to: Nat, header: Header, valid: BOOLEAN, dropReason: Reasons]

TypeOK ==
    /\ len \in 0 .. MaxLen
    /\ sim \in {"none", "pcm16", "ulaw"}
    /\ offset \in 0 .. len
    /\ frames \in Seq(Frame)
    /\ done \in BOOLEAN

SimFrame(codec) == HeaderSize + PayloadBytes([codec |-> codec, samples |-> MinSamples])

\* A message of any length, or a batch of the page (buildSimulatorBatch).
Init ==
    /\ len \in 0 .. MaxLen
    /\ sim \in {"none", "pcm16", "ulaw"}
    /\ sim # "none" => len > 0 /\ len % SimFrame(sim) = 0
    /\ offset = 0
    /\ frames = <<>>
    /\ done = FALSE

\* What the header at the offset can be: what buildSimulatorFrame writes, or
\* anything.
MayBe(h) == sim # "none" => /\ h.magic /\ h.version /\ h.rate
                            /\ h.codec = sim /\ h.samples = MinSamples

-----------------------------------------------------------------------------
\* emitAudioFrame, which parses the bytes once more. The frame is invalid, for the
\* reason given, when "parse" is not set.
EmitParsed(to, h, parse, reason) ==
    frames' = Append(frames, [from |-> offset, to |-> to, header |-> h,
                              valid |-> Parse(h, to - offset) = "",
                              dropReason |-> Parse(h, to - offset)])
Emit(to, h, parse, reason) ==
    frames' = Append(frames, [from |-> offset, to |-> to, header |-> h,
                              valid |-> parse /\ Parse(h, to - offset) = "",
                              dropReason |-> IF parse THEN Parse(h, to - offset) ELSE reason])

More == ~done /\ offset < len
FrameSize(h) == HeaderSize + PayloadBytes(h)

\* Less than a header is left.
EndInHeader ==
    /\ More
    /\ len - offset < HeaderSize
    /\ Emit(len, NoHeader, FALSE, "bad_batch_len")
    /\ done' = TRUE
    /\ UNCHANGED <<len, sim, offset>>

GivesUpOnHeader(h) == Parse(h, HeaderSize) # ""

\* The header is wrong, or the message ends before the frame does.
GivesUp(h) == \/ Parse(h, HeaderSize) # ""
              \/ FrameSize(h) <= HeaderSize
              \/ offset + FrameSize(h) > len
EndInFrame ==
    /\ More
    /\ len - offset >= HeaderSize
    /\ \E h \in Header : /\ MayBe(h)
                         /\ GivesUp(h)
                         /\ Emit(len, h, FALSE, Parse(h, HeaderSize))
    /\ done' = TRUE
    /\ UNCHANGED <<len, sim, offset>>

SkipsPayload ==
    /\ More
    /\ len - offset >= HeaderSize
    /\ \E h \in Header : /\ MayBe(h)
                         /\ ~GivesUp(h)
                         /\ Emit(offset + FrameSize(h), h, TRUE, "")
                         /\ offset' = offset + PayloadBytes(h)
    /\ UNCHANGED <<len, sim, done>>

WholeFrame ==
    /\ More
    /\ len - offset >= HeaderSize
    /\ \E h \in Header : /\ MayBe(h)
                         /\ ~GivesUp(h)
                         /\ Emit(offset + FrameSize(h), h, TRUE, "")
                         /\ offset' = offset + FrameSize(h)
    /\ UNCHANGED <<len, sim, done>>

Return ==
    /\ ~done
    /\ offset = len
    /\ done' = TRUE
    /\ UNCHANGED <<len, sim, offset, frames>>

Next == EndInHeader \/ EndInFrame \/ WholeFrame \/ Return

Spec == Init /\ [][Next]_vars

-----------------------------------------------------------------------------
\* No byte of a message is lost or used twice: its frames lie one behind the other
\* and together are the message.
FramesTile ==
    /\ \A i \in 1 .. Len(frames) :
           frames[i].from = IF i = 1 THEN 0 ELSE frames[i - 1].to
    /\ done => IF frames = <<>> THEN len = 0 ELSE frames[Len(frames)].to = len

\* The page plays the n bytes as one frame: parseHeader finds nothing wrong, splitAudioBatch
\* takes them for one, and playBinaryFrame finds a sample to play.
PagePlays(h, n) ==
    /\ h.magic /\ h.version /\ h.codec \in {"pcm16", "ulaw"}
    /\ n = HeaderSize + (IF h.codec = "ulaw" THEN h.samples ELSE h.samples * 2)
    /\ h.samples > 0

\* validateAudioShape logs a warning, and the frame is played all the same.
PageWarns(h) == h.samples \notin MinSamples .. MaxSamples \/ ~h.rate

PageExpects(h, n) == PagePlays(h, n) /\ ~PageWarns(h)

\* The two parsers agree: what is relayed the page plays without a warning, and a frame
\* that the server drops is none for the page, or one that it warns about. All frames of
\* a message but the last are relayed, and all of a batch that the page's simulator sends.
RelayedIsPlayable ==
    \A i \in 1 .. Len(frames) :
        /\ frames[i].valid <=> PageExpects(frames[i].header, frames[i].to - frames[i].from)
        /\ i < Len(frames) \/ sim # "none" => frames[i].valid
=============================================================================
