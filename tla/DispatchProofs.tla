--------------------------- MODULE DispatchProofs ---------------------------
(***************************************************************************)
(* Proofs about Dispatch and the AudioBatch that it extends, for messages, *)
(* headers and frames of any size and any connections and rooms: frames    *)
(* lie one behind the other, and the server relays what the page plays     *)
(* without a warning; a chat message reaches one room; and a reader goes   *)
(* through nothing but the states it is described with.                    *)
(***************************************************************************)
EXTENDS Dispatch, TLAPS

-----------------------------------------------------------------------------
(* The server's parser.                                                    *)

\* Two parts that are empty together are empty.
LEMMA NothingJoined ==
  ASSUME NEW S, NEW s \in Seq(S), NEW t \in Seq(S)
  PROVE  s \o t \in Seq(S) /\ (s \o t = <<>> <=> s = <<>> /\ t = <<>>)
OBVIOUS

\* The marks of a header, the number of its samples, and the number of bytes.
Marked(h)  == h.magic /\ h.version /\ h.codec # "other" /\ h.rate
Sampled(h) == ~(h.samples < MinSamples \/ h.samples > MaxSamples)
Fits(h, n) == ~(n > HeaderSize /\ n - HeaderSize # PayloadBytes(h))

Faulty == Reasons \ {"", "short_header", "bad_batch_len"}

\* One test.
LEMMA OneFault ==
  \A p \in BOOLEAN, fault \in Faulty : /\ When(p, fault) \in Seq(Faulty)
                                       /\ When(p, fault) = <<>> <=> ~p
BY DEF When

\* The tests of parseAudioHeader, one by one (client.go:297-313).
LEMMA FaultsFound ==
  ASSUME NEW h, NEW n
  PROVE  /\ Faults(h, n) \in Seq(Faulty)
         /\ Faults(h, n) = <<>> <=> Marked(h) /\ Sampled(h) /\ Fits(h, n)
<1> DEFINE a == When(~h.magic, "bad_magic")
           b == When(~h.version, "bad_version")
           c == When(h.codec = "other", "bad_codec")
           d == When(~Sampled(h), "bad_samples")
           e == When(~h.rate, "bad_sample_rate")
           f == When(~Fits(h, n), "bad_payload_len")
<1>0. {"bad_magic", "bad_version", "bad_codec", "bad_samples", "bad_sample_rate",
       "bad_payload_len"} \subseteq Faulty
  BY DEF Faulty, Reasons
<1>1. a \in Seq(Faulty) /\ (a = <<>> <=> h.magic)
  BY <1>0, OneFault
<1>2. b \in Seq(Faulty) /\ (b = <<>> <=> h.version)
  BY <1>0, OneFault
<1>3. c \in Seq(Faulty) /\ (c = <<>> <=> h.codec # "other")
  BY <1>0, OneFault
<1>4. d \in Seq(Faulty) /\ (d = <<>> <=> Sampled(h))
  BY <1>0, OneFault
<1>5. e \in Seq(Faulty) /\ (e = <<>> <=> h.rate)
  BY <1>0, OneFault
<1>6. f \in Seq(Faulty) /\ (f = <<>> <=> Fits(h, n))
  BY <1>0, OneFault
<1>7. Faults(h, n) = a \o b \o c \o d \o e \o f
  BY Zenon DEF Faults, Sampled, Fits, When
<1> HIDE DEF a, b, c, d, e, f
<1>8. a \o b \in Seq(Faulty) /\ (a \o b = <<>> <=> a = <<>> /\ b = <<>>)
  BY <1>1, <1>2, NothingJoined
<1>9. a \o b \o c \in Seq(Faulty) /\ (a \o b \o c = <<>> <=> a \o b = <<>> /\ c = <<>>)
  BY <1>3, <1>8, NothingJoined
<1>10. /\ a \o b \o c \o d \in Seq(Faulty)
       /\ a \o b \o c \o d = <<>> <=> a \o b \o c = <<>> /\ d = <<>>
  BY <1>4, <1>9, NothingJoined
<1>11. /\ a \o b \o c \o d \o e \in Seq(Faulty)
       /\ a \o b \o c \o d \o e = <<>> <=> a \o b \o c \o d = <<>> /\ e = <<>>
  BY <1>5, <1>10, NothingJoined
<1>12. /\ a \o b \o c \o d \o e \o f \in Seq(Faulty)
       /\ a \o b \o c \o d \o e \o f = <<>> <=> a \o b \o c \o d \o e = <<>> /\ f = <<>>
  BY <1>6, <1>11, NothingJoined
<1> QED BY <1>1, <1>2, <1>3, <1>4, <1>5, <1>6, <1>7, <1>8, <1>9, <1>10, <1>11, <1>12 DEF Marked

\* The parser gives a reason, and none exactly for the bytes of a frame.
LEMMA Parsed ==
  ASSUME NEW h, NEW n \in Nat
  PROVE  /\ Parse(h, n) \in Reasons
         /\ Parse(h, n) = "" <=> n >= HeaderSize /\ Marked(h) /\ Sampled(h) /\ Fits(h, n)
<1>0. HeaderSize \in Nat
  BY BatchAssumption DEF BatchAssumption
<1>1. CASE n < HeaderSize
  BY <1>0, <1>1 DEF Parse, Reasons
<1>2. CASE ~(n < HeaderSize) /\ Faults(h, n) = <<>>
  BY <1>0, <1>2, FaultsFound DEF Parse, Reasons
<1>3. CASE ~(n < HeaderSize) /\ Faults(h, n) # <<>>
  <2>1. Head(Faults(h, n)) \in Faulty
    BY <1>3, FaultsFound
  <2>2. Parse(h, n) = Head(Faults(h, n))
    BY <1>3 DEF Parse
  <2>3. ~(Marked(h) /\ Sampled(h) /\ Fits(h, n))
    BY <1>3, FaultsFound
  <2> QED BY <2>1, <2>2, <2>3 DEF Faulty
<1> QED BY <1>1, <1>2, <1>3

\* Bytes, and a header alone, of which parseAudioHeader has nothing to say.
Passes(h, n) == Parse(h, n) = ""
Good(h) == Passes(h, HeaderSize)

\* The sizes of what a header announces.
LEMMA Sizes ==
  ASSUME NEW h \in Header
  PROVE  /\ HeaderSize \in Nat /\ HeaderSize > 0 /\ PayloadBytes(h) \in Nat
         /\ FrameSize(h) = HeaderSize + PayloadBytes(h)
         /\ FrameSize(h) \in Nat /\ FrameSize(h) >= HeaderSize
         /\ h.samples \in Nat /\ MinSamples \in Nat /\ MinSamples > 0 /\ MaxSamples \in Nat
         /\ h.codec \in {"pcm16", "ulaw", "other"}
<1>1. /\ HeaderSize \in Nat /\ HeaderSize > 0 /\ MinSamples \in Nat /\ MinSamples > 0
      /\ MaxSamples \in Nat
  BY BatchAssumption DEF BatchAssumption
<1>2. h.codec \in {"pcm16", "ulaw", "other"} /\ h.samples \in 0 .. MaxSamples + 1
  BY DEF Header
<1>3. h.samples \in Nat
  BY <1>1, <1>2
<1> QED BY <1>1, <1>2, <1>3 DEF PayloadBytes, FrameSize

\* What the page expects of a header and its bytes is what the server asks.
LEMMA ParsersAgree ==
  ASSUME NEW h \in Header, NEW n \in Nat
  PROVE  PageExpects(h, n) <=> n = FrameSize(h) /\ Good(h)
<1>0. Fits(h, HeaderSize)
  BY Sizes DEF Fits
<1>1. Good(h) <=> Marked(h) /\ Sampled(h)
  <2>1. HeaderSize \in Nat /\ HeaderSize >= HeaderSize
    BY Sizes
  <2> QED BY <1>0, <2>1, Parsed DEF Good, Passes
<1>2. Sampled(h) <=> h.samples \in MinSamples .. MaxSamples
  BY Sizes DEF Sampled
<1>3. Marked(h) <=> h.magic /\ h.version /\ h.codec \in {"pcm16", "ulaw"} /\ h.rate
  BY Sizes DEF Marked
<1>4. FrameSize(h) = HeaderSize + (IF h.codec = "ulaw" THEN h.samples ELSE h.samples * 2)
  BY Sizes DEF PayloadBytes
<1>5. h.samples \in MinSamples .. MaxSamples => h.samples > 0
  BY Sizes
<1>6. PageExpects(h, n) <=> /\ h.magic /\ h.version /\ h.codec \in {"pcm16", "ulaw"} /\ h.rate
                           /\ n = FrameSize(h) /\ h.samples \in MinSamples .. MaxSamples
  BY <1>4, <1>5, Zenon DEF PageExpects, PagePlays, PageWarns
<1> QED BY <1>1, <1>2, <1>3, <1>6

\* With its payload, what begins with a good header is a frame.
LEMMA WholeIsFrame ==
  ASSUME NEW h \in Header, Good(h)
  PROVE  Passes(h, FrameSize(h))
<1>1. FrameSize(h) \in Nat /\ HeaderSize \in Nat /\ FrameSize(h) >= HeaderSize
  BY Sizes
<1>2. Marked(h) /\ Sampled(h)
  BY <1>1, Parsed DEF Good, Passes
<1>3. Fits(h, FrameSize(h))
  BY Sizes DEF Fits
<1> QED BY <1>1, <1>2, <1>3, Parsed DEF Passes

\* A good header announces a payload.
LEMMA HasPayload ==
  ASSUME NEW h \in Header, Good(h)
  PROVE  PayloadBytes(h) > 0
<1>1. HeaderSize \in Nat
  BY Sizes
<1>2. Sampled(h)
  BY <1>1, Parsed DEF Good, Passes
<1>3. h.samples \in Nat /\ MinSamples \in Nat /\ MinSamples > 0
  BY Sizes
<1> QED BY <1>2, <1>3 DEF Sampled, PayloadBytes

-----------------------------------------------------------------------------
(* The simulator's batches: whole frames of one size.                      *)

Rest(n) == n * SimFrame(sim)

\* The size of the simulator's frames.
LEMMA SimSize ==
  ASSUME sim \in {"pcm16", "ulaw"}
  PROVE  SimFrame(sim) \in Nat /\ SimFrame(sim) > HeaderSize /\ HeaderSize \in Nat
<1>1. HeaderSize \in Nat /\ MinSamples \in Nat /\ MinSamples > 0
  BY BatchAssumption DEF BatchAssumption
<1> QED BY <1>1 DEF SimFrame, PayloadBytes

\* What the simulator writes is a good header of that size.
LEMMA SimHeader ==
  ASSUME sim \in {"pcm16", "ulaw"}, NEW h \in Header, MayBe(h)
  PROVE  Good(h) /\ FrameSize(h) = SimFrame(sim)
<1>1. h.magic /\ h.version /\ h.rate /\ h.codec = sim /\ h.samples = MinSamples
  BY DEF MayBe
<1>2. Marked(h)
  BY <1>1 DEF Marked
<1>3. Sampled(h)
  BY <1>1, Sizes, BatchAssumption DEF Sampled, BatchAssumption
<1>4. Fits(h, HeaderSize) /\ HeaderSize \in Nat /\ HeaderSize >= HeaderSize
  BY Sizes DEF Fits
<1>5. FrameSize(h) = SimFrame(sim)
  BY <1>1 DEF FrameSize, SimFrame, PayloadBytes
<1> QED BY <1>2, <1>3, <1>4, <1>5, Parsed DEF Good, Passes

\* Some frames, not none, are one and some more.
LEMMA OneOfSome ==
  ASSUME NEW k \in Nat, NEW n \in Nat, n * k > 0
  PROVE  n - 1 \in Nat /\ (n - 1) * k = n * k - k /\ n * k >= k
<1>1. n # 0
  OBVIOUS
<1>2. n - 1 \in Nat
  BY <1>1
<1>3. (n - 1) * k = n * k - k
  OBVIOUS
<1>4. (n - 1) * k >= 0
  BY <1>2
<1> QED BY <1>2, <1>3, <1>4

-----------------------------------------------------------------------------
(* The frames of a message.                                                *)

\* One more frame.
LEMMA OneFrame ==
  ASSUME TypeOK, NEW to \in Nat, NEW h \in Header, NEW parse \in BOOLEAN, NEW reason \in Reasons,
         to - offset \in Nat, Emit(to, h, parse, reason)
  PROVE  /\ frames' \in Seq(Frame) /\ Len(frames') = Len(frames) + 1
         /\ \A i \in 1 .. Len(frames) : frames'[i] = frames[i]
         /\ LET last == frames'[Len(frames')]
            IN  /\ last.from = offset /\ last.to = to /\ last.header = h
                /\ last.valid <=> parse /\ Passes(h, to - offset)
<1> DEFINE last == [from |-> offset, to |-> to, header |-> h,
                    valid |-> parse /\ Passes(h, to - offset),
                    dropReason |-> IF parse THEN Parse(h, to - offset) ELSE reason]
<1>1. frames' = Append(frames, last)
  BY Zenon DEF Emit, Passes
<1>2. Parse(h, to - offset) \in Reasons
  BY Parsed
<1>3. offset \in Nat /\ frames \in Seq(Frame)
  BY BatchAssumption DEF TypeOK, BatchAssumption
<1>4. last \in Frame
  BY <1>2, <1>3 DEF Frame
<1>5. /\ last.from = offset /\ last.to = to /\ last.header = h
      /\ last.valid <=> parse /\ Passes(h, to - offset)
  OBVIOUS
<1> HIDE DEF last
<1> QED BY <1>1, <1>3, <1>4, <1>5

\* How far the frames reach, and that they follow each other.
Reach == IF frames = <<>> THEN 0 ELSE frames[Len(frames)].to
Chained == \A i \in 1 .. Len(frames) : frames[i].from = IF i = 1 THEN 0 ELSE frames[i - 1].to

\* The frames lie one behind the other; they are relayed, but the last one perhaps,
\* and what remains of a simulator's batch is whole frames.
BatchInv ==
    /\ TypeOK
    /\ Chained
    /\ Reach = IF done THEN len ELSE offset
    /\ RelayedIsPlayable
    /\ ~done => \A i \in 1 .. Len(frames) : frames[i].valid
    /\ sim # "none" /\ ~done => \E n \in Nat : len - offset = n * SimFrame(sim)

\* At first nothing has been taken from the message.
LEMMA BatchInit == Init => BatchInv
<1> SUFFICES ASSUME Init PROVE BatchInv
  OBVIOUS
<1>1. TypeOK
  <2>1. len \in Nat /\ offset = 0 /\ MaxLen \in Nat
    BY BatchAssumption DEF Init, BatchAssumption
  <2>2. offset \in 0 .. len
    BY <2>1
  <2>3. /\ len \in 0 .. MaxLen /\ sim \in {"none", "pcm16", "ulaw"}
        /\ frames = <<>> /\ done = FALSE
    BY DEF Init
  <2>4. frames \in Seq(Frame)
    BY <2>3
  <2> QED BY <2>2, <2>3, <2>4 DEF TypeOK
<1>2. frames = <<>> /\ Len(frames) = 0 /\ offset = 0 /\ ~done
  BY DEF Init
<1>3. Chained /\ RelayedIsPlayable /\ (\A i \in 1 .. Len(frames) : frames[i].valid)
  BY <1>2 DEF Chained, RelayedIsPlayable
<1>4. Reach = IF done THEN len ELSE offset
  BY <1>2 DEF Reach
<1>5. ASSUME sim # "none" PROVE \E n \in Nat : len - offset = n * SimFrame(sim)
  <2> DEFINE k == SimFrame(sim)
  <2>1. k \in Nat /\ k > 0 /\ len \in Nat /\ len % k = 0
    BY <1>5, SimSize, BatchAssumption DEF Init, BatchAssumption
  <2> HIDE DEF k
  <2>2. len = (k * (len \div k)) + (len % k) /\ len \div k \in Nat
    BY <2>1
  <2>3. len - offset = (len \div k) * k
    BY <1>2, <2>1, <2>2
  <2> QED BY <2>2, <2>3 DEF k
<1> QED BY <1>1, <1>2, <1>3, <1>4, <1>5 DEF BatchInv

\* A frame is added behind the others, relayed exactly if the page expects it.
LEMMA FrameAdded ==
  ASSUME BatchInv, TypeOK', ~done, NEW to \in Nat, NEW h \in Header, NEW parse \in BOOLEAN,
         NEW reason \in Reasons, to - offset \in Nat, Emit(to, h, parse, reason),
         parse /\ Passes(h, to - offset) <=> PageExpects(h, to - offset),
         to = IF done' THEN len' ELSE offset', sim' = sim,
         ~done' \/ sim # "none" => parse /\ Passes(h, to - offset),
         sim # "none" /\ ~done' => \E n \in Nat : len' - offset' = n * SimFrame(sim)
  PROVE  BatchInv'
<1> DEFINE n == Len(frames)
<1>1. /\ Len(frames') = n + 1 /\ n \in Nat /\ frames' # <<>>
      /\ \A i \in 1 .. n : frames'[i] = frames[i]
      /\ frames'[n + 1].from = offset /\ frames'[n + 1].to = to /\ frames'[n + 1].header = h
      /\ frames'[n + 1].valid <=> parse /\ Passes(h, to - offset)
  <2>1. TypeOK
    BY DEF BatchInv
  <2>2. /\ frames' \in Seq(Frame) /\ Len(frames') = n + 1
        /\ \A i \in 1 .. n : frames'[i] = frames[i]
        /\ LET last == frames'[Len(frames')]
           IN  /\ last.from = offset /\ last.to = to /\ last.header = h
               /\ last.valid <=> parse /\ Passes(h, to - offset)
    BY <2>1, OneFrame
  <2>3. n \in Nat
    BY <2>1 DEF TypeOK
  <2>4. frames' # <<>>
    BY <2>2, <2>3
  <2> QED BY <2>2, <2>3, <2>4
<1>2. offset = IF n = 0 THEN 0 ELSE frames[n].to
  BY <1>1 DEF BatchInv, Reach, TypeOK
<1>3. Chained'
  BY <1>1, <1>2 DEF BatchInv, Chained
<1>4. Reach' = IF done' THEN len' ELSE offset'
  BY <1>1 DEF Reach
<1>5. \A i \in 1 .. n : /\ frames[i].valid
                        /\ PageExpects(frames[i].header, frames[i].to - frames[i].from)
  BY DEF BatchInv, RelayedIsPlayable
<1>6. ASSUME NEW i \in 1 .. n + 1
      PROVE  /\ frames'[i].valid <=>
                  PageExpects(frames'[i].header, frames'[i].to - frames'[i].from)
             /\ i < n + 1 \/ sim # "none" \/ ~done' => frames'[i].valid
  <2>1. CASE i \in 1 .. n
    BY <1>1, <1>5, <2>1
  <2>2. CASE i = n + 1
    BY <1>1, <2>2
  <2> QED BY <1>1, <2>1, <2>2
<1>7. RelayedIsPlayable' /\ (~done' => \A i \in 1 .. Len(frames') : frames'[i].valid)
  BY <1>1, <1>6 DEF RelayedIsPlayable, PageExpects, PagePlays, PageWarns
<1> QED BY <1>3, <1>4, <1>7 DEF BatchInv, SimFrame, PayloadBytes

\* A message of the simulator has room for one more of its frames.
LEMMA SimHasFrame ==
  ASSUME BatchInv, sim # "none", ~done, offset < len
  PROVE  /\ len - offset >= SimFrame(sim)
         /\ \E n \in Nat : (len - offset) - SimFrame(sim) = n * SimFrame(sim)
<1>1. sim \in {"pcm16", "ulaw"} /\ len - offset > 0
  <2>1. len \in Nat /\ offset \in Nat
    BY BatchAssumption DEF BatchInv, TypeOK, BatchAssumption
  <2>2. sim \in {"none", "pcm16", "ulaw"}
    BY DEF BatchInv, TypeOK
  <2> QED BY <2>1, <2>2
<1>2. PICK n \in Nat : len - offset = n * SimFrame(sim)
  BY DEF BatchInv
<1>3. SimFrame(sim) \in Nat
  BY <1>1, SimSize
<1> QED BY <1>1, <1>2, <1>3, OneOfSome

\* The step keeps it: the message ends in a header.
LEMMA HeaderStep == ASSUME BatchInv, TypeOK', EndInHeader PROVE BatchInv'
<1>1. /\ ~done /\ done' /\ len' = len /\ offset' = offset /\ sim' = sim
      /\ offset < len /\ len - offset < HeaderSize
      /\ Emit(len, NoHeader, FALSE, "bad_batch_len")
  BY DEF EndInHeader, More
<1>2. len \in Nat /\ offset \in Nat /\ len - offset \in Nat /\ HeaderSize \in Nat
  BY <1>1, BatchAssumption DEF BatchInv, TypeOK, BatchAssumption
<1>3. NoHeader \in Header
  <2>1. MaxSamples \in Nat
    BY BatchAssumption DEF BatchAssumption
  <2>2. 0 \in 0 .. MaxSamples + 1
    BY <2>1
  <2> QED BY <2>2 DEF Header, NoHeader
<1>4. ~PageExpects(NoHeader, len - offset)
  BY DEF PageExpects, PagePlays, NoHeader
<1>5. sim = "none"
  <2> SUFFICES ASSUME sim # "none" PROVE FALSE
    OBVIOUS
  <2>1. sim \in {"pcm16", "ulaw"}
    BY DEF BatchInv, TypeOK
  <2>2. SimFrame(sim) \in Nat /\ SimFrame(sim) > HeaderSize
    BY <2>1, SimSize
  <2> QED BY <1>1, <1>2, <2>2, SimHasFrame
<1>6. "bad_batch_len" \in Reasons
  BY DEF Reasons
<1> QED BY <1>1, <1>2, <1>3, <1>4, <1>5, <1>6, FrameAdded

\* A header that is wrong, or promises more than there is.
LEMMA GiveUpStep == ASSUME BatchInv, TypeOK', EndInFrame PROVE BatchInv'
<1>1. PICK h \in Header : /\ MayBe(h) /\ GivesUp(h)
                          /\ Emit(len, h, FALSE, Parse(h, HeaderSize))
  BY DEF EndInFrame
<1>2. /\ ~done /\ done' /\ len' = len /\ offset' = offset /\ sim' = sim
      /\ offset < len /\ len - offset >= HeaderSize
  BY DEF EndInFrame, More
<1>3. len \in Nat /\ offset \in Nat /\ len - offset \in Nat /\ HeaderSize \in Nat
  BY <1>2, BatchAssumption DEF BatchInv, TypeOK, BatchAssumption
<1>4. Good(h) => offset + FrameSize(h) > len
  <2>1. Good(h) => FrameSize(h) > HeaderSize
    BY Sizes, HasPayload
  <2>2. FrameSize(h) \in Nat
    BY Sizes
  <2>3. Good(h) => FrameSize(h) <= HeaderSize \/ offset + FrameSize(h) > len
    BY <1>1, Zenon DEF GivesUp, Good, Passes
  <2> QED BY <1>3, <2>1, <2>2, <2>3
<1>5. ~PageExpects(h, len - offset)
  BY <1>3, <1>4, Sizes, ParsersAgree
<1>6. sim = "none"
  <2> SUFFICES ASSUME sim # "none" PROVE FALSE
    OBVIOUS
  <2>1. sim \in {"pcm16", "ulaw"}
    BY DEF BatchInv, TypeOK
  <2>2. Good(h) /\ FrameSize(h) = SimFrame(sim) /\ SimFrame(sim) \in Nat
    BY <1>1, <2>1, SimHeader, SimSize
  <2>3. len - offset >= SimFrame(sim)
    BY <1>2, SimHasFrame
  <2> QED BY <1>3, <1>4, <2>2, <2>3
<1>7. Parse(h, HeaderSize) \in Reasons
  BY <1>3, Parsed
<1> QED BY <1>1, <1>2, <1>3, <1>5, <1>6, <1>7, FrameAdded

\* A whole frame.
LEMMA WholeStep == ASSUME BatchInv, TypeOK', WholeFrame PROVE BatchInv'
<1>1. PICK h \in Header : /\ MayBe(h) /\ ~GivesUp(h)
                          /\ Emit(offset + FrameSize(h), h, TRUE, "")
                          /\ offset' = offset + FrameSize(h)
  BY DEF WholeFrame
<1> DEFINE to == offset + FrameSize(h)
<1>2. /\ ~done /\ ~done' /\ len' = len /\ sim' = sim /\ offset < len
  BY DEF WholeFrame, More
<1>3. len \in Nat /\ offset \in Nat /\ FrameSize(h) \in Nat /\ to \in Nat /\ to - offset = FrameSize(h)
  <2>1. len \in Nat /\ offset \in Nat
    BY BatchAssumption DEF BatchInv, TypeOK, BatchAssumption
  <2>2. FrameSize(h) \in Nat
    BY Sizes
  <2> QED BY <2>1, <2>2
<1>4. Good(h)
  BY <1>1 DEF GivesUp, Good, Passes
<1>5. Passes(h, FrameSize(h)) /\ PageExpects(h, FrameSize(h))
  BY <1>3, <1>4, WholeIsFrame, ParsersAgree
<1>6. ASSUME sim # "none" PROVE \E n \in Nat : len' - offset' = n * SimFrame(sim)
  <2>1. sim \in {"pcm16", "ulaw"}
    BY <1>6 DEF BatchInv, TypeOK
  <2>2. FrameSize(h) = SimFrame(sim)
    BY <1>1, <2>1, SimHeader
  <2>3. PICK n \in Nat : (len - offset) - SimFrame(sim) = n * SimFrame(sim)
    BY <1>2, <1>6, SimHasFrame
  <2>4. len' - offset' = (len - offset) - SimFrame(sim)
    <3>1. offset' = offset + SimFrame(sim)
      BY <1>1, <2>2, Zenon
    <3> QED BY <1>2, <1>3, <2>2, <3>1
  <2> QED BY <2>3, <2>4
<1>7. "" \in Reasons
  BY DEF Reasons
<1>8. Emit(to, h, TRUE, "") /\ offset' = to
  BY <1>1
<1> HIDE DEF to
<1> QED BY <1>2, <1>3, <1>5, <1>6, <1>7, <1>8, FrameAdded

\* The variables keep to their types.
LEMMA BatchTypes == TypeOK /\ [Next]_vars => TypeOK'
<1> SUFFICES ASSUME TypeOK, [Next]_vars PROVE TypeOK'
  OBVIOUS
<1>0. len \in Nat /\ offset \in Nat /\ offset <= len /\ HeaderSize \in Nat
  BY BatchAssumption DEF TypeOK, BatchAssumption
<1>1. CASE UNCHANGED vars
  BY <1>1 DEF vars, TypeOK
<1>2. CASE Return
  BY <1>2 DEF Return, TypeOK
<1>3. CASE EndInHeader
  <2>1. NoHeader \in Header
    <3>1. 0 \in 0 .. MaxSamples + 1
      BY BatchAssumption DEF BatchAssumption
    <3> QED BY <3>1 DEF Header, NoHeader
  <2>2. len - offset \in Nat /\ "bad_batch_len" \in Reasons
    BY <1>0 DEF Reasons
  <2>3. frames' \in Seq(Frame)
    BY <1>0, <1>3, <2>1, <2>2, OneFrame DEF EndInHeader
  <2> QED BY <1>3, <2>3 DEF EndInHeader, TypeOK
<1>4. CASE EndInFrame
  <2>1. PICK h \in Header : Emit(len, h, FALSE, Parse(h, HeaderSize))
    BY <1>4 DEF EndInFrame
  <2>2. len - offset \in Nat /\ Parse(h, HeaderSize) \in Reasons
    <3>1. len - offset \in Nat
      BY <1>0
    <3> QED BY <1>0, <3>1, Parsed
  <2>3. frames' \in Seq(Frame)
    BY <1>0, <2>1, <2>2, OneFrame
  <2> QED BY <1>4, <2>3 DEF EndInFrame, TypeOK
<1>5. CASE WholeFrame
  <2>1. PICK h \in Header : /\ Emit(offset + FrameSize(h), h, TRUE, "")
                            /\ offset' = offset + FrameSize(h)
                            /\ ~GivesUp(h)
    BY <1>5 DEF WholeFrame
  <2>2. FrameSize(h) \in Nat
    BY Sizes
  <2>3. "" \in Reasons
    BY DEF Reasons
  <2>4. offset + FrameSize(h) \in Nat /\ (offset + FrameSize(h)) - offset \in Nat
    BY <1>0, <2>2
  <2>5. frames' \in Seq(Frame)
    BY <2>1, <2>2, <2>4, <2>3, OneFrame
  <2>6. ~(offset + FrameSize(h) > len) /\ len' = len /\ sim' = sim /\ done' = done
    BY <1>5, <2>1, Zenon DEF GivesUp, WholeFrame
  <2>7. offset' = offset + FrameSize(h)
    BY <2>1, Zenon
  <2>8. offset' \in 0 .. len'
    BY <1>0, <2>2, <2>6, <2>7
  <2> QED BY <2>5, <2>6, <2>8 DEF TypeOK
<1> QED BY <1>1, <1>2, <1>3, <1>4, <1>5 DEF Next

\* Every step keeps the invariant.
LEMMA BatchStep == BatchInv /\ [Next]_vars => BatchInv'
<1> SUFFICES ASSUME BatchInv, [Next]_vars PROVE BatchInv'
  OBVIOUS
<1>0. TypeOK'
  BY BatchTypes DEF BatchInv
<1>1. CASE UNCHANGED vars
  BY <1>0, <1>1 DEF vars, BatchInv, Chained, Reach, RelayedIsPlayable, PageExpects, PagePlays, PageWarns, SimFrame,
                    PayloadBytes
<1>2. CASE Return
  <2>1. /\ frames' = frames /\ done' = TRUE /\ len' = len /\ sim' = sim /\ offset = len
        /\ ~done
    BY <1>2 DEF Return
  <2>2. Chained' /\ Reach' = len' /\ RelayedIsPlayable'
    BY <2>1 DEF BatchInv, Chained, Reach, RelayedIsPlayable, PageExpects, PagePlays, PageWarns
  <2> QED BY <1>0, <2>1, <2>2 DEF BatchInv
<1> QED BY <1>0, <1>1, <1>2, HeaderStep, GiveUpStep, WholeStep DEF Next

\* No byte of a message is lost or used twice, whatever its headers say
\* (client.go:222-243).
THEOREM FramesAlwaysTile == Spec => []FramesTile
<1>1. BatchInv => FramesTile
  <2> SUFFICES ASSUME BatchInv PROVE FramesTile
    OBVIOUS
  <2>1. Chained /\ (done => Reach = len)
    BY DEF BatchInv
  <2> QED BY <2>1 DEF FramesTile, Chained, Reach
<1> QED BY <1>1, BatchInit, BatchStep, PTL DEF Spec

\* What is relayed the page plays without a warning, and what is dropped is no frame for
\* it or one that it warns about, for every size of headers and every number of samples
\* (client.go:282-315, intercom-listener.html:1135-1190).
THEOREM OnlyPlayableIsRelayed == Spec => []RelayedIsPlayable
<1>1. BatchInv => RelayedIsPlayable
  BY DEF BatchInv
<1> QED BY <1>1, BatchInit, BatchStep, PTL DEF Spec

-----------------------------------------------------------------------------
(* The reader that goes on to other messages.                              *)

\* Every step of the reader and the hub is one of the taking apart, or none.
LEMMA DispatchTakesApart == [DispatchNext]_<<reader, vars>> => [Next]_vars
<1> SUFFICES ASSUME [DispatchNext]_<<reader, vars>> PROVE Next \/ UNCHANGED vars
  OBVIOUS
<1>1. CASE Audio
  BY <1>1 DEF Audio
<1>2. CASE HandleKeepalive \/ HandleRoomList \/ HandleRoomUsers \/ HandleIntercom
  BY <1>2 DEF HandleKeepalive, HandleRoomList, HandleRoomUsers, HandleIntercom, Try
<1>3. CASE HandleChat \/ MembersChange \/ Relay
  BY <1>3 DEF HandleChat, MembersChange, Relay
<1> QED BY <1>1, <1>2, <1>3 DEF DispatchNext

\* The frames of an audio message tile it, and those that the page expects are relayed,
\* also in a reader that goes on to other messages.
THEOREM DispatchRelaysPlayable == DispatchSpec => [](FramesTile /\ RelayedIsPlayable)
<1>1. DispatchInit => Init
  BY DEF DispatchInit
<1>2. DispatchSpec => Spec
  BY <1>1, DispatchTakesApart, PTL DEF DispatchSpec, Spec
<1> QED BY <1>2, FramesAlwaysTile, OnlyPlayableIsRelayed, PTL

-----------------------------------------------------------------------------
(* Texts.                                                                  *)

\* What is not an object has no fields.
LEMMA TextFields ==
  ASSUME NEW m \in Text
  PROVE  /\ m.shape \in {"ping", "broken", "null", "value", "object"}
         /\ m.shape # "object" => m.type = "absent" /\ m.room = "absent"
         /\ m.type \in Types
BY DEF Text, Types

\* What is a proper request is taken by its handler.
LEMMA RequestTaken ==
  ASSUME NEW m \in Text, WellFormed(m)
  PROVE  TakesKeepalive(m) \/ TakesRoomList(m) \/ TakesRoomUsers(m) \/ TakesIntercom(m)
<1>1. CASE m.shape = "ping"
  BY <1>1 DEF TakesKeepalive
<1>2. CASE m.shape # "ping"
  <2>1. m.shape = "object"
    BY <1>2, TextFields DEF WellFormed
  <2> QED BY <1>2, <2>1 DEF WellFormed, TakesKeepalive, TakesRoomList, TakesRoomUsers,
                            TakesIntercom, Decodes
<1> QED BY <1>1, <1>2

-----------------------------------------------------------------------------
(* The reader and the hub.                                                 *)

Fresh == /\ \A c \in Client : copies[c] = "none"
         /\ running = TRUE

\* A text has been refused by the handlers before the one whose turn it is; nothing
\* has been sent before the hub relays it.
DispatchInv ==
    /\ text \in Text
    /\ at \in Handlers \union {"audio", "chat", "queued", "done"}
    /\ copies \in [Client -> Copy]
    /\ at \in Handlers \union {"audio", "chat"} => outcome.op # "chat"
    /\ at # "done" \/ outcome.op # "chat" => Fresh
    /\ at \in {"room_list", "room_users", "intercom", "chat"} => ~TakesKeepalive(text)
    /\ at \in {"room_users", "intercom", "chat"} => ~TakesRoomList(text)
    /\ at \in {"intercom", "chat"} => ~TakesRoomUsers(text)
    /\ at = "chat" => ~TakesIntercom(text)
    /\ outcome.op = "chat" => ~WellFormed(text) /\ outcome.room = MessageRoom(text)
    /\ at = "queued" => outcome.op = "chat"
    /\ ~running => text.shape = "null"
    /\ at = "done" /\ outcome.op = "chat" /\ running =>
          \A c \in Client :
              /\ copies[c] # "none" <=> c \in members /\ RoomOf[c] = outcome.room
              /\ copies[c] = "self" => c = Sender
              /\ copies[c] = "other" => c # Sender

\* Nothing has been done with the message at first.
LEMMA DispatchInvInit == DispatchInit => DispatchInv
BY DEF DispatchInit, DispatchInv, Nothing, Fresh, Handlers, Copy

\* A handler takes the text or leaves it to the next one.
LEMMA TryStep ==
  ASSUME DispatchInv, NEW handler, NEW takes \in BOOLEAN, NEW op, NEW room, NEW next,
         Try(handler, takes, op, room, next), op # "chat",
         handler \in Handlers, next \in Handlers \union {"chat"}, next # "keepalive",
         ~takes => /\ next \in {"room_list", "room_users", "intercom", "chat"}
                                                       => ~TakesKeepalive(text)
                   /\ next \in {"room_users", "intercom", "chat"} => ~TakesRoomList(text)
                   /\ next \in {"intercom", "chat"} => ~TakesRoomUsers(text)
                   /\ next = "chat" => ~TakesIntercom(text)
  PROVE  DispatchInv'
<1>1. /\ at = handler /\ text' = text /\ copies' = copies /\ running' = running
      /\ members' = members /\ outcome.op # "chat" /\ Fresh
  BY DEF Try, DispatchInv, Handlers
<1>2. CASE takes
  <2>1. at' = "done" /\ outcome'.op = op
    BY <1>2 DEF Try
  <2> QED BY <1>1, <2>1 DEF DispatchInv, Fresh, Handlers
<1>3. CASE ~takes
  <2>1. at' = next /\ outcome' = outcome
    BY <1>3 DEF Try
  <2> QED BY <1>1, <1>3, <2>1 DEF DispatchInv, Fresh, Handlers
<1> QED BY <1>2, <1>3

\* The hub relays a message, or panics.
LEMMA RelayStep == ASSUME DispatchInv, Relay PROVE DispatchInv'
<1>1. /\ at = "queued" /\ at' = "done" /\ text' = text /\ outcome' = outcome
      /\ members' = members /\ outcome.op = "chat" /\ Fresh
  BY DEF Relay, DispatchInv
<1>2. CASE Panics(text) /\ Receivers # {}
  <2>1. running' = FALSE /\ copies' = copies /\ text.shape = "null"
    BY <1>2 DEF Relay, Panics
  <2> QED BY <1>1, <2>1 DEF DispatchInv, Handlers, MessageRoom, Decodes
<1>3. CASE ~(Panics(text) /\ Receivers # {})
  <2>1. PICK stale \in SUBSET Receivers :
          copies' = [c \in Client |-> IF c \in stale THEN "full"
                        ELSE IF c \in Receivers THEN DataFor(text, c) ELSE "none"]
    BY <1>3 DEF Relay
  <2>2. running' = running /\ running = TRUE
    BY <1>1, <1>3 DEF Relay, Fresh
  <2>3. \A c \in Client : /\ DataFor(text, c) \in {"raw", "self", "other"}
                          /\ DataFor(text, c) = "self" => c = Sender
                          /\ DataFor(text, c) = "other" => c # Sender
    BY DEF DataFor
  <2>4. copies' \in [Client -> Copy]
    BY <2>1, <2>3 DEF Copy
  <2>5. ASSUME NEW c \in Client
        PROVE  /\ copies'[c] # "none" <=> c \in members /\ RoomOf[c] = outcome.room
               /\ copies'[c] = "self" => c = Sender
               /\ copies'[c] = "other" => c # Sender
    <3>1. c \in Receivers <=> c \in members /\ RoomOf[c] = outcome.room
      BY DEF Receivers
    <3> QED BY <2>1, <2>3, <3>1
  <2> QED BY <1>1, <2>2, <2>4, <2>5 DEF DispatchInv, Handlers, MessageRoom, Decodes
<1> QED BY <1>2, <1>3

\* Every step keeps it.
LEMMA DispatchStep == DispatchInv /\ [DispatchNext]_<<reader, vars>> => DispatchInv'
<1> SUFFICES ASSUME DispatchInv, [DispatchNext]_<<reader, vars>> PROVE DispatchInv'
  OBVIOUS
<1>1. CASE Audio \/ UNCHANGED <<reader, vars>>
  <2>1. /\ UNCHANGED <<text, outcome, members, copies, running>>
        /\ at' = at \/ (at = "audio" /\ at' = "done")
    BY <1>1 DEF Audio, reader
  <2> QED BY <2>1 DEF DispatchInv, Fresh, Handlers, MessageRoom, Decodes
<1>2. CASE HandleKeepalive
  <2>1. Try("keepalive", TakesKeepalive(text),
            IF text.type = "heartbeat" THEN "heartbeat_ack" ELSE "pong", NoRoom, "room_list")
    BY <1>2 DEF HandleKeepalive
  <2>2. TakesKeepalive(text) \in BOOLEAN
    BY DEF TakesKeepalive
  <2> QED BY <2>1, <2>2, TryStep DEF Handlers
<1>3. CASE HandleRoomList
  <2>1. ~TakesKeepalive(text) /\ TakesRoomList(text) \in BOOLEAN
    BY <1>3 DEF HandleRoomList, Try, DispatchInv, TakesRoomList
  <2> QED BY <1>3, <2>1, TryStep DEF HandleRoomList, Handlers
<1>4. CASE HandleRoomUsers
  <2>1. ~TakesKeepalive(text) /\ ~TakesRoomList(text) /\ TakesRoomUsers(text) \in BOOLEAN
    BY <1>4 DEF HandleRoomUsers, Try, DispatchInv, TakesRoomUsers
  <2> QED BY <1>4, <2>1, TryStep DEF HandleRoomUsers, Handlers
<1>5. CASE HandleIntercom
  <2>1. /\ ~TakesKeepalive(text) /\ ~TakesRoomList(text) /\ ~TakesRoomUsers(text)
        /\ TakesIntercom(text) \in BOOLEAN
    BY <1>5 DEF HandleIntercom, Try, DispatchInv, TakesIntercom
  <2> QED BY <1>5, <2>1, TryStep DEF HandleIntercom, Handlers
<1>6. CASE HandleChat
  <2>1. /\ at = "chat" /\ at' = "queued" /\ UNCHANGED <<text, members, copies, running>>
        /\ outcome'.op = "chat" /\ outcome'.room = MessageRoom(text)
    BY <1>6 DEF HandleChat
  <2>2. ~WellFormed(text)
    BY <2>1, RequestTaken DEF DispatchInv
  <2> QED BY <2>1, <2>2 DEF DispatchInv, Fresh, Handlers, MessageRoom, Decodes
<1>7. CASE MembersChange
  BY <1>7 DEF MembersChange, DispatchInv, Fresh, Handlers, MessageRoom, Decodes
<1> QED BY <1>1, <1>2, <1>3, <1>4, <1>5, <1>6, <1>7, RelayStep DEF DispatchNext

\* Chat reaches the clients of one room and nobody else, and only null stops the hub
\* (client.go:152-164, hub.go:141-161, 799-825).
THEOREM ChatIsDelivered == DispatchSpec => []ChatDelivered
<1>1. DispatchInv => ChatDelivered
  <2> SUFFICES ASSUME DispatchInv PROVE ChatDelivered
    OBVIOUS
  <2>1. (\E c \in Client : copies[c] # "none") => ~WellFormed(text)
    BY DEF DispatchInv, Fresh
  <2>2. outcome.op = "chat" /\ text.room = "absent" => outcome.room = RoomOf[Sender]
    BY DEF DispatchInv, MessageRoom
  <2> QED BY <2>1, <2>2 DEF DispatchInv, ChatDelivered
<1> QED BY <1>1, DispatchInvInit, DispatchStep, PTL DEF DispatchSpec

-----------------------------------------------------------------------------
(* Types.                                                                  *)

\* A room that is named in a text, or not, is one of the rooms.
LEMMA RoomsNamed ==
  ASSUME NEW m \in Text
  PROVE  MessageRoom(m) \in Room /\ NormalizeRoomWithFallback(m.room) \in Room
<1>1. RoomOf[Sender] \in Room /\ DefaultRoom \in Room
  BY DispatchAssumption
<1>2. m.shape = "object" => m.room \in Names \union Room
  BY DEF Text
<1>3. Decodes(m, {"room"}) /\ m.room \notin {"absent", "blank"} => m.room \in Room
  BY <1>2, TextFields DEF Decodes, Names
<1> QED BY <1>1, <1>3 DEF MessageRoom, NormalizeRoomWithFallback

\* What the reader and the hub write beside the text, its turn and the copies.
DispatchRest == /\ outcome \in Outcome
                /\ members \subseteq Client
                /\ running \in BOOLEAN

\* A handler answers with one of the outcomes.
LEMMA TryTypes ==
  ASSUME DispatchRest, NEW handler, NEW takes, NEW op, NEW room, NEW next,
         Try(handler, takes, op, room, next),
         op \in Answers \union Requests, room \in Room \union {NoRoom}
  PROVE  DispatchRest'
<1>1. members' = members /\ running' = running
  BY DEF Try
<1>2. outcome' = outcome \/ outcome' = [op |-> op, room |-> room]
  BY DEF Try
<1> QED BY <1>1, <1>2 DEF DispatchRest, Outcome

\* Every step keeps them.
LEMMA DispatchTypes == DispatchInv /\ DispatchRest /\ [DispatchNext]_<<reader, vars>> => DispatchRest'
<1> SUFFICES ASSUME DispatchInv, DispatchRest, [DispatchNext]_<<reader, vars>>
             PROVE  DispatchRest'
  OBVIOUS
<1>0. /\ text \in Text
      /\ MessageRoom(text) \in Room /\ NormalizeRoomWithFallback(text.room) \in Room
  BY RoomsNamed DEF DispatchInv
<1>1. CASE Audio \/ UNCHANGED <<reader, vars>>
  BY <1>1 DEF Audio, reader, DispatchRest
<1>2. CASE HandleKeepalive
  <2> DEFINE op == IF text.type = "heartbeat" THEN "heartbeat_ack" ELSE "pong"
  <2>1. op \in Answers \union Requests
    BY DEF Answers
  <2>2. Try("keepalive", TakesKeepalive(text), op, NoRoom, "room_list")
    BY <1>2 DEF HandleKeepalive
  <2> HIDE DEF op
  <2> QED BY <2>1, <2>2, TryTypes
<1>3. CASE HandleRoomList
  BY <1>3, TryTypes DEF HandleRoomList, Answers
<1>4. CASE HandleRoomUsers
  BY <1>0, <1>4, TryTypes DEF HandleRoomUsers, Answers
<1>5. CASE HandleIntercom
  <2> DEFINE op == IF text.type = "intercom_talk_start" THEN "start" ELSE "stop"
  <2>1. op \in Answers \union Requests
    BY DEF Requests
  <2>2. Try("intercom", TakesIntercom(text), op, NormalizeRoomWithFallback(text.room), "chat")
    BY <1>5 DEF HandleIntercom
  <2> HIDE DEF op
  <2> QED BY <1>0, <2>1, <2>2, TryTypes
<1>6. CASE HandleChat
  BY <1>0, <1>6 DEF HandleChat, DispatchRest, Outcome
<1>7. CASE MembersChange
  BY <1>7 DEF MembersChange, DispatchRest
<1>8. CASE Relay
  BY <1>8 DEF Relay, DispatchRest
<1> QED BY <1>1, <1>2, <1>3, <1>4, <1>5, <1>6, <1>7, <1>8 DEF DispatchNext

\* A reader answers with nothing but an answer or a request for a room that there is,
\* and offsets stay inside the message, for every number of clients, rooms and bytes
\* (client.go:95-243, hub.go:141-161).
THEOREM DispatchTypesHold == DispatchSpec => []DispatchTypeOK
<1>1. DispatchInit => Init /\ DispatchRest
  BY DEF DispatchInit, DispatchRest, Outcome, Nothing
<1>2. DispatchSpec => []BatchInv
  BY <1>1, BatchInit, BatchStep, DispatchTakesApart, PTL DEF DispatchSpec
<1>3. DispatchSpec => [](DispatchInv /\ DispatchRest)
  BY <1>1, DispatchInvInit, DispatchStep, DispatchTypes, PTL DEF DispatchSpec
<1>4. BatchInv /\ DispatchInv /\ DispatchRest => DispatchTypeOK
  BY DEF BatchInv, DispatchInv, DispatchRest, DispatchTypeOK
<1> QED BY <1>2, <1>3, <1>4, PTL
=============================================================================
