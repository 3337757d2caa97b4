--------------------------- MODULE CaptureProofs ---------------------------
(***************************************************************************)
(* Recording and upload, for every chunk, frame and buffer size that       *)
(* CaptureAssumption allows and any number of turns: the types, no gap in  *)
(* the utterance, no beep in it, a clean heap, and all that was recorded   *)
(* in the upload.                                                          *)
(***************************************************************************)
EXTENDS Capture, SequenceTheorems, TLAPS

\* While main records, the ring is there and armed; audio_in_capture_disarm clears
\* the flag before it deletes the ring.
Recording == {"read", "encode", "vad", "record", "disarm"}
Framing == {"read", "encode", "vad"}
RingWhile ==
  /\ alloc <=> main \in Recording \cup {"delete"}
  /\ armed <=> main \in Recording
  /\ ~alloc => ring = <<>>

\* What the reader holds has been counted.
ChunkHeard == reader # "read" => mic >= ChunkLen

\* A turn begins with nothing recorded.
Fresh ==
  main \in {"delay", "alloc", "create", "arm"} =>
    pcm = <<>> /\ got = 0 /\ lead = 0 /\ speech = 0 /\ trail = 0

\* There is room for the rest of the frame under way, and the VAD's counters have
\* not reached their ends.
Room ==
  /\ main \in Framing =>
       /\ got <= FrameLen /\ got <= Len(pcm) /\ Len(pcm) - got + FrameLen <= MaxSamples
       /\ lead < MaxLead /\ trail < Hangover
  /\ main \in {"encode", "vad"} => got = FrameLen
  /\ main = "record" => got = Len(pcm)

Control == RingWhile /\ ChunkHeard /\ Fresh /\ Room

\* What is on the heap follows from where main stands and from enc.
HeapIs ==
  /\ main \in {"idle", "delay", "alloc"} => heap = {}
  /\ main \in {"create", "wrap"} => heap = {"pcm"}
  /\ main \in {"delay", "alloc", "create", "wrap"} => ~enc
  /\ main \in Recording \cup {"delete", "arm", "return", "finalize"} =>
       heap = {"pcm"} \cup Encoder(enc)
  /\ main = "finalize" => enc
  /\ main = "post" => heap = {"body"}
  /\ main = "play" => heap = {"resp"}
  /\ ~corrupt

-----------------------------------------------------------------------------
(* Facts about sequences.                                                   *)

\* The empty sequence is one, and has no elements.
LEMMA EmptyFacts ==
  ASSUME NEW S PROVE <<>> \in Seq(S) /\ Len(<<>>) = 0
OBVIOUS

\* A stretch of a sequence.
LEMMA SubSeqFacts ==
  ASSUME NEW S, NEW s \in Seq(S), NEW m \in Nat \ {0}, NEW n \in Nat,
         n <= Len(s), m <= n + 1
  PROVE  /\ SubSeq(s, m, n) \in Seq(S)
         /\ Len(SubSeq(s, m, n)) = n + 1 - m
         /\ \A i \in 1 .. n + 1 - m : SubSeq(s, m, n)[i] = s[m + i - 1]
OBVIOUS

\* A function on 1 .. n is a sequence of length n.
LEMMA ArrayFacts ==
  ASSUME NEW S, NEW n \in Nat, NEW f \in [1 .. n -> S]
  PROVE  f \in Seq(S) /\ Len(f) = n
OBVIOUS

\* The i-th element of two sequences taken together.
At(s, t, i) == IF i <= Len(s) THEN s[i] ELSE t[i - Len(s)]

-----------------------------------------------------------------------------
(* Types and control.                                                       *)

\* Types and control hold before the first turn.
LEMMA TypesInit == Init => TypeOK /\ Control
<1> SUFFICES ASSUME Init PROVE TypeOK /\ Control
  OBVIOUS
<1>1. Control
  BY DEF Init, Control, RingWhile, ChunkHeard, Fresh, Room, Recording, Framing
<1>2. TypeOK
  <2>1. <<>> \in Seq(Samples) /\ Len(<<>>) = 0
    BY EmptyFacts
  <2>2. RingCap >= 0 /\ MaxSamples >= 0 /\ 0 \in 0 .. MaxSamples
    BY CaptureAssumption DEF RingCap
  <2>3. 0 \in 0 .. MaxTurns /\ 0 \in 0 .. MaxMic /\ 0 \in 0 .. MaxLead /\ 0 \in 0 .. Hangover
    BY CaptureAssumption
  <2>4. NoBody \in [type : {"none", "wav", "opus"}, audio : Seq(Samples)]
    BY <2>1 DEF NoBody
  <2>5. FALSE \in BOOLEAN /\ {} \subseteq Blocks
    OBVIOUS
  <2> QED
    BY <2>1, <2>2, <2>3, <2>4, <2>5 DEF Init, TypeOK
<1> QED
  BY <1>1, <1>2

\* What one drain of the ring does to the utterance, the ring and the count.
LEMMA DrainFacts ==
  ASSUME TypeOK, NEW want \in Nat, Drain(want)
  PROVE  \E n \in 1 .. want :
           /\ n <= Len(ring) /\ got' = got + n
           /\ pcm' \in Seq(Samples) /\ Len(pcm') = Len(pcm) + n
           /\ ring' \in Seq(Samples) /\ Len(ring') = Len(ring) - n
           /\ \A i \in 1 .. Len(pcm) + Len(ring) : At(pcm', ring', i) = At(pcm, ring, i)
<1>1. pcm \in Seq(Samples) /\ ring \in Seq(Samples) /\ Len(ring) \in Nat
  BY DEF TypeOK
<1>2. PICK n \in 1 .. want :
        /\ n \in 1 .. Len(ring) /\ got' = got + n
        /\ pcm' = pcm \o SubSeq(ring, 1, n)
        /\ ring' = SubSeq(ring, n + 1, Len(ring))
  <2> DEFINE k == IF Len(ring) < want THEN Len(ring) ELSE want
  <2>1. /\ k > 0 /\ got' = got + k
        /\ pcm' = pcm \o SubSeq(ring, 1, k)
        /\ ring' = SubSeq(ring, k + 1, Len(ring))
    BY DEF Drain
  <2>2. k \in 1 .. want /\ k \in 1 .. Len(ring)
    BY <1>1, <2>1
  <2> HIDE DEF k
  <2> QED
    BY <2>1, <2>2, Zenon
<1>3. n \in 1 .. Len(ring) /\ n <= Len(ring)
  BY <1>1, <1>2
<1> DEFINE front == SubSeq(ring, 1, n)
<1>4. /\ front \in Seq(Samples) /\ Len(front) = n
      /\ \A i \in 1 .. n : front[i] = ring[i]
  BY <1>1, <1>3, SubSeqFacts
<1>5. /\ ring' \in Seq(Samples) /\ Len(ring') = Len(ring) - n
      /\ \A i \in 1 .. Len(ring) - n : ring'[i] = ring[n + i]
  <2>1. n + 1 \in Nat \ {0} /\ Len(ring) <= Len(ring) /\ n + 1 <= Len(ring) + 1
    BY <1>1, <1>3
  <2> DEFINE back == SubSeq(ring, n + 1, Len(ring))
  <2>2. /\ back \in Seq(Samples) /\ Len(back) = Len(ring) + 1 - (n + 1)
        /\ \A i \in 1 .. Len(ring) + 1 - (n + 1) : back[i] = ring[n + 1 + i - 1]
    BY <1>1, <2>1, SubSeqFacts
  <2>3. ring' = back
    BY <1>2
  <2> HIDE DEF back
  <2> QED
    BY <1>1, <2>2, <2>3
<1>6. pcm' = pcm \o front
  BY <1>2
<1> HIDE DEF front
<1>7. /\ pcm' \in Seq(Samples) /\ Len(pcm') = Len(pcm) + n
      /\ \A i \in 1 .. Len(pcm) + n : pcm'[i] = At(pcm, ring, i)
  <2> DEFINE both == pcm \o front
  <2>1. /\ both \in Seq(Samples) /\ Len(both) = Len(pcm) + Len(front)
        /\ \A i \in 1 .. Len(pcm) + Len(front) : both[i] = At(pcm, front, i)
    BY <1>1, <1>4, ConcatProperties DEF At
  <2>2. pcm' = both
    BY <1>6
  <2> HIDE DEF both
  <2>3. \A i \in 1 .. Len(pcm) + n : At(pcm, front, i) = At(pcm, ring, i)
    BY <1>1, <1>3, <1>4 DEF At
  <2> QED
    BY <2>1, <2>2, <2>3, <1>4
<1>8. ASSUME NEW i \in 1 .. Len(pcm) + Len(ring)
      PROVE  At(pcm', ring', i) = At(pcm, ring, i)
  <2>1. Len(pcm) \in Nat /\ Len(ring) \in Nat /\ i \in Nat
    BY <1>1
  <2>2. CASE i <= Len(pcm) + n
    <3>1. At(pcm', ring', i) = pcm'[i] /\ i \in 1 .. Len(pcm) + n
      BY <2>1, <2>2, <1>7 DEF At
    <3> QED
      BY <3>1, <1>7
  <2>3. CASE ~(i <= Len(pcm) + n)
    <3>1. At(pcm', ring', i) = ring'[i - (Len(pcm) + n)]
          /\ At(pcm, ring, i) = ring[i - Len(pcm)]
      BY <2>1, <2>3, <1>7 DEF At
    <3>2. i - (Len(pcm) + n) \in 1 .. Len(ring) - n
      BY <2>1, <2>3
    <3>3. ring'[i - (Len(pcm) + n)] = ring[n + (i - (Len(pcm) + n))]
      BY <3>2, <1>5
    <3>4. n + (i - (Len(pcm) + n)) = i - Len(pcm)
      BY <2>1
    <3> QED
      BY <3>1, <3>3, <3>4
  <2> QED
    BY <2>2, <2>3
<1> QED
  BY <1>2, <1>3, <1>5, <1>7, <1>8

\* Every step keeps the correspondence of control and ring, and the room.
LEMMA ControlStep ==
  ASSUME TypeOK, Control, [Next]_vars PROVE Control'
<1> USE DEF Control, RingWhile, ChunkHeard, Fresh, Room, Recording, Framing
<1> USE CaptureAssumption
<1>1. CASE UNCHANGED vars
  BY <1>1 DEF vars, micVars, ringVars, vadVars
<1>2. CASE StartTurn
  BY <1>2 DEF StartTurn, Locals, ringVars, TypeOK
<1>3. CASE ReaderStep
  <2>1. UNCHANGED <<main, armed, alloc, pcm, got, lead, speech, trail>>
    BY <1>3 DEF ReaderStep, ReaderReads, ReaderChecks, ReaderSends, ReaderDrops,
                ReaderOnly, vadVars
  <2>2. ChunkHeard'
    BY <1>3 DEF ReaderStep, ReaderReads, ReaderChecks, ReaderSends, ReaderDrops, TypeOK
  <2>3. ~alloc => ring' = ring
    BY <1>3 DEF ReaderStep, ReaderReads, ReaderChecks, ReaderSends, ReaderDrops
  <2> QED
    BY <2>1, <2>2, <2>3
<1>4. CASE Panic
  BY <1>4 DEF Panic, Locals
<1>5. CASE DelayEnds \/ AllocPcm \/ AllocFails \/ CreateEncoder \/ CreateFails
  <2>1. UNCHANGED <<micVars, ringVars, vadVars>>
    BY <1>5 DEF DelayEnds, AllocPcm, AllocFails, CreateEncoder, CreateFails, NoAudio
  <2>2. /\ main \in {"delay", "alloc", "create"}
        /\ main' \in {"alloc", "create", "arm", "idle"}
    BY <1>5 DEF DelayEnds, AllocPcm, AllocFails, CreateEncoder, CreateFails, Goto, Leave
  <2> QED
    BY <2>1, <2>2 DEF micVars, ringVars, vadVars
<1>6. CASE Arm \/ ArmFails
  BY <1>6, EmptyFacts DEF Arm, ArmFails, Goto, Capturing, micVars, ringVars, vadVars
<1>7. CASE ReadUnderruns \/ RecordStops \/ EncodeFrame \/ EncodeDtx \/ EncodeFails \/ NotEncoded
  BY <1>7 DEF ReadUnderruns, RecordStops, EncodeFrame, EncodeDtx, EncodeFails, NotEncoded,
              Goto, Capturing, micVars, ringVars, vadVars
<1>8. CASE ReadFrame
  <2>1. /\ main = "read" /\ main' = (IF got' = FrameLen THEN "encode" ELSE "read")
        /\ UNCHANGED <<armed, alloc, lead, trail, mic, reader>>
    BY <1>8 DEF ReadFrame, Goto, Capturing, micVars
  <2>2. got \in Nat /\ FrameLen - got \in Nat /\ Len(pcm) \in Nat /\ Len(ring) \in Nat
    BY <2>1 DEF TypeOK
  <2>3. PICK n \in 1 .. FrameLen - got :
          got' = got + n /\ Len(pcm') = Len(pcm) + n
    BY <1>8, <2>2, DrainFacts DEF ReadFrame
  <2>4. /\ got' <= FrameLen /\ got' <= Len(pcm')
        /\ Len(pcm') - got' + FrameLen <= MaxSamples
    BY <2>1, <2>2, <2>3
  <2> QED
    BY <2>1, <2>4
<1>9. CASE Record
  <2>1. /\ main = "record" /\ main' \in {"record", "disarm"}
        /\ UNCHANGED <<armed, alloc, mic, reader>>
    BY <1>9 DEF Record, Goto, Capturing, micVars
  <2>2. got \in Nat /\ MaxSamples - got \in Nat /\ Len(pcm) \in Nat
    BY <2>1 DEF TypeOK
  <2>3. PICK n \in 1 .. MaxSamples - got :
          got' = got + n /\ Len(pcm') = Len(pcm) + n
    BY <1>9, <2>2, DrainFacts DEF Record
  <2>4. got' = Len(pcm')
    BY <2>1, <2>2, <2>3
  <2> QED
    BY <2>1, <2>4
<1>10. CASE HearSpeech \/ HearLead \/ HearTrail
  <2>1. /\ UNCHANGED <<reader, mic, armed, alloc, ring, pcm>>
        /\ main = "vad" /\ main' \in {"read", "disarm"} /\ got' = 0
    BY <1>10 DEF HearSpeech, HearLead, HearTrail, More, Goto, Capturing,
                 micVars, ringVars
  <2>2. main' = "read" => /\ Len(pcm) + FrameLen <= MaxSamples
                          /\ lead' < MaxLead /\ trail' < Hangover
    BY SMTT(30), <1>10 DEF HearSpeech, HearLead, HearTrail, More, TypeOK, Goto
  <2>3. Len(pcm) \in Nat
    BY DEF TypeOK
  <2> QED
    BY <2>1, <2>2, <2>3
<1>11. CASE Disarm \/ DeleteRing
  BY <1>11 DEF Disarm, DeleteRing, Goto, Capturing, micVars, ringVars, vadVars
<1>12. CASE \/ Abandon \/ Captured \/ FinalizeOpus \/ FinalizeEmpty \/ WrapWav
            \/ WrapFails \/ PostFails \/ PostDropped \/ PostAnswered \/ Play
  <2>1. UNCHANGED <<micVars, ringVars, vadVars>>
    BY <1>12 DEF Abandon, Captured, FinalizeOpus, FinalizeEmpty, WrapWav, WrapFails,
                 PostFails, PostDropped, PostAnswered, Play, NoAudio
  <2>2. /\ main \in {"return", "finalize", "wrap", "post", "play"}
        /\ main' \in {"finalize", "wrap", "post", "play", "idle"}
    BY <1>12 DEF Abandon, Captured, FinalizeOpus, FinalizeEmpty, WrapWav, WrapFails,
                 PostFails, PostDropped, PostAnswered, Play, Goto, Leave
  <2> QED
    BY <2>1, <2>2 DEF micVars, ringVars, vadVars
<1> QED
  BY <1>1, <1>2, <1>3, <1>4, <1>5, <1>6, <1>7, <1>8, <1>9, <1>10, <1>11, <1>12
     DEF Next, MainStep, Rest

\* TypeOK in three parts.
AudioOK ==
  /\ ring \in Seq(Samples) /\ Len(ring) <= RingCap
  /\ pcm \in Seq(Samples) /\ Len(pcm) <= MaxSamples
  /\ got \in 0 .. MaxSamples
UploadOK ==
  /\ encoded \in Seq(Samples) /\ skipped \subseteq Samples
  /\ body \in [type : {"none", "wav", "opus"}, audio : Seq(Samples)]

\* Ring, utterance and count stay within their sizes.
LEMMA AudioStep ==
  ASSUME TypeOK, Control, [Next]_vars PROVE AudioOK'
<1> USE CaptureAssumption
<1>0. AudioOK /\ RingCap \in Nat /\ RingCap >= 0 /\ MaxSamples >= 0
  BY DEF TypeOK, AudioOK, RingCap
<1>1. CASE UNCHANGED <<ring, pcm, got>>
  BY <1>0, <1>1 DEF AudioOK
<1>2. CASE StartTurn \/ Panic
  <2>1. (ring' = ring \/ ring' = <<>>) /\ pcm' = <<>> /\ got' = 0
    BY <1>2 DEF StartTurn, Panic, Locals, ringVars
  <2>2. ring' \in Seq(Samples) /\ Len(ring') <= RingCap
    BY <2>1, <1>0, EmptyFacts DEF AudioOK
  <2>3. pcm' \in Seq(Samples) /\ Len(pcm') <= MaxSamples /\ got' \in 0 .. MaxSamples
    BY <2>1, <1>0, EmptyFacts
  <2> QED
    BY <2>2, <2>3 DEF AudioOK
<1>3. CASE ReaderSends
  <2>1. ring' = ring \o ReaderChunk /\ Len(ring) + ChunkLen <= RingCap /\ UNCHANGED <<pcm, got>>
    BY <1>3 DEF ReaderSends, Fits, ReaderOnly, vadVars
  <2>2. ReaderChunk \in Seq(Samples) /\ Len(ReaderChunk) = ChunkLen
    <3>1. mic \in 0 .. MaxMic /\ mic >= ChunkLen
      BY <1>3 DEF ReaderSends, TypeOK, Control, ChunkHeard
    <3>2. ReaderChunk \in [1 .. ChunkLen -> Samples]
      BY <3>1 DEF ReaderChunk, Samples
    <3> QED
      BY <3>2, ArrayFacts
  <2>3. ring' \in Seq(Samples) /\ Len(ring') = Len(ring) + ChunkLen
    <3> HIDE <1>3
    <3>1. ring \in Seq(Samples)
      BY <1>0 DEF AudioOK
    <3>2. /\ ring \o ReaderChunk \in Seq(Samples)
          /\ Len(ring \o ReaderChunk) = Len(ring) + Len(ReaderChunk)
      BY <2>2, <3>1, ConcatProperties
    <3> QED
      BY <2>1, <2>2, <3>2
  <2> QED
    BY <1>0, <2>1, <2>3 DEF AudioOK
<1>4. CASE ReadFrame \/ Record
  <2>1. PICK want \in Nat : /\ Drain(want) /\ got + want <= MaxSamples
                            /\ Len(pcm) + want <= MaxSamples
    <3>1. CASE ReadFrame
      <4>1. Drain(FrameLen - got) /\ main = "read"
        BY <3>1 DEF ReadFrame, Goto
      <4>2. /\ FrameLen - got \in Nat /\ got + (FrameLen - got) <= MaxSamples
            /\ Len(pcm) + (FrameLen - got) <= MaxSamples
        BY <1>0, <4>1 DEF AudioOK, Control, Room, Framing
      <4> QED
        BY <4>1, <4>2
    <3>2. CASE Record
      <4>1. Drain(MaxSamples - got) /\ main = "record"
        BY <3>2 DEF Record, Goto
      <4>2. /\ MaxSamples - got \in Nat /\ got + (MaxSamples - got) <= MaxSamples
            /\ Len(pcm) + (MaxSamples - got) <= MaxSamples
        BY <1>0, <4>1 DEF AudioOK, Control, Room
      <4> QED
        BY <4>1, <4>2
    <3> QED
      BY <1>4, <3>1, <3>2
  <2>2. PICK n \in 1 .. want :
          /\ n <= Len(ring) /\ got' = got + n
          /\ pcm' \in Seq(Samples) /\ Len(pcm') = Len(pcm) + n
          /\ ring' \in Seq(Samples) /\ Len(ring') = Len(ring) - n
    BY <2>1, DrainFacts
  <2>3. Len(ring) \in Nat /\ Len(pcm) \in Nat
    BY <1>0 DEF AudioOK
  <2>4. Len(ring') <= RingCap /\ Len(pcm') <= MaxSamples /\ got' \in 0 .. MaxSamples
    BY <1>0, <2>1, <2>2, <2>3 DEF AudioOK
  <2> QED
    BY <2>2, <2>4 DEF AudioOK
<1>5. CASE Arm \/ DeleteRing
  <2>1. ring' = <<>> /\ UNCHANGED <<pcm, got>>
    BY <1>5 DEF Arm, DeleteRing, vadVars
  <2> QED
    BY <2>1, <1>0, EmptyFacts DEF AudioOK
<1>6. CASE HearSpeech \/ HearLead \/ HearTrail
  <2>1. UNCHANGED <<ring, pcm>> /\ got' = 0
    BY <1>6 DEF HearSpeech, HearLead, HearTrail, ringVars
  <2> QED
    BY <2>1, <1>0 DEF AudioOK
<1>7. CASE \/ DelayEnds \/ AllocPcm \/ AllocFails \/ CreateEncoder \/ CreateFails
           \/ ArmFails \/ ReadUnderruns \/ EncodeFrame \/ EncodeDtx \/ EncodeFails \/ NotEncoded
           \/ RecordStops \/ Disarm
  BY <1>1, <1>7 DEF DelayEnds, AllocPcm, AllocFails, CreateEncoder, CreateFails, ArmFails,
                    ReadUnderruns, EncodeFrame, EncodeDtx, EncodeFails, NotEncoded, RecordStops,
                    Disarm, NoAudio, ringVars, vadVars
<1>8. CASE \/ Abandon \/ Captured \/ FinalizeOpus \/ FinalizeEmpty \/ WrapWav \/ WrapFails
           \/ PostFails \/ PostDropped \/ PostAnswered \/ Play
  BY <1>1, <1>8 DEF Abandon, Captured, FinalizeOpus, FinalizeEmpty, WrapWav, WrapFails,
                    PostFails, PostDropped, PostAnswered, Play, NoAudio, ringVars, vadVars
<1>9. CASE ReaderReads \/ ReaderChecks \/ ReaderDrops
  BY <1>1, <1>9 DEF ReaderReads, ReaderChecks, ReaderDrops, ReaderOnly, vadVars
<1>10. CASE UNCHANGED vars
  BY <1>1, <1>10 DEF vars, ringVars, vadVars
<1> QED
  BY <1>2, <1>3, <1>4, <1>5, <1>6, <1>7, <1>8, <1>9, <1>10
     DEF Next, MainStep, ReaderStep, Rest

\* What the encoder was fed and what is uploaded are samples.
LEMMA UploadStep ==
  ASSUME TypeOK, Control, [Next]_vars PROVE UploadOK'
<1>0. UploadOK /\ pcm \in Seq(Samples)
  BY DEF TypeOK, UploadOK
<1>1. CASE UNCHANGED <<encoded, skipped, body>>
  BY <1>0, <1>1 DEF UploadOK
<1>2. CASE StartTurn \/ Panic
  <2>1. encoded' = <<>> /\ skipped' = {} /\ body' = [type |-> "none", audio |-> <<>>]
    BY <1>2 DEF StartTurn, Panic, Locals, NoBody
  <2> QED
    BY <2>1, EmptyFacts DEF UploadOK
<1>3. CASE EncodeFrame \/ EncodeDtx
  <2>1. body' = body /\ main = "encode"
    BY <1>3 DEF EncodeFrame, EncodeDtx, Goto, Capturing
  <2>2. Frame \in Seq(Samples)
    <3>1. Len(pcm) \in Nat /\ FrameLen \in Nat \ {0} /\ FrameLen <= Len(pcm)
      BY <1>0, <2>1, CaptureAssumption DEF Control, Room, Framing
    <3>2. /\ Len(pcm) - FrameLen + 1 \in Nat \ {0} /\ Len(pcm) <= Len(pcm)
          /\ Len(pcm) - FrameLen + 1 <= Len(pcm) + 1
      BY <3>1
    <3> QED
      BY <1>0, <3>1, <3>2, SubSeqFacts DEF Frame
  <2>3. encoded \o Frame \in Seq(Samples)
    BY <1>0, <2>2, ConcatProperties DEF UploadOK
  <2>4. Sounds(Frame) \subseteq Samples
    BY <2>2 DEF Sounds
  <2>5. encoded' \in Seq(Samples) /\ skipped' \subseteq Samples
    <3>1. CASE EncodeFrame
      BY <1>0, <2>3, <3>1 DEF EncodeFrame, UploadOK
    <3>2. CASE EncodeDtx
      BY <1>0, <2>4, <3>2 DEF EncodeDtx, UploadOK
    <3> QED
      BY <1>3, <3>1, <3>2
  <2> QED
    BY <1>0, <2>1, <2>5 DEF UploadOK
<1>4. CASE FinalizeOpus
  BY <1>0, <1>4 DEF FinalizeOpus, UploadOK
<1>5. CASE WrapWav
  BY <1>0, <1>5 DEF WrapWav, encVars, UploadOK
<1>6. CASE \/ DelayEnds \/ AllocPcm \/ AllocFails \/ CreateEncoder \/ CreateFails
           \/ Abandon \/ Captured \/ FinalizeEmpty \/ WrapFails
           \/ PostFails \/ PostDropped \/ PostAnswered \/ Play
  BY <1>1, <1>6 DEF DelayEnds, AllocPcm, AllocFails, CreateEncoder, CreateFails, Abandon,
                    Captured, FinalizeEmpty, WrapFails, PostFails, PostDropped,
                    PostAnswered, Play, encVars
<1>7. CASE \/ Arm \/ ArmFails \/ ReadFrame \/ ReadUnderruns \/ EncodeFails \/ NotEncoded
           \/ HearSpeech \/ HearLead \/ HearTrail \/ Record \/ RecordStops
           \/ Disarm \/ DeleteRing
  BY <1>1, <1>7 DEF Arm, ArmFails, ReadFrame, ReadUnderruns, EncodeFails, NotEncoded,
                    HearSpeech, HearLead, HearTrail, Record, RecordStops, Disarm,
                    DeleteRing, Capturing, encVars
<1>8. CASE ReaderStep
  BY <1>1, <1>8 DEF ReaderStep, ReaderReads, ReaderChecks, ReaderSends, ReaderDrops,
                    ReaderOnly, encVars
<1>9. CASE UNCHANGED vars
  BY <1>1, <1>9 DEF vars, encVars
<1> QED
  BY <1>2, <1>3, <1>4, <1>5, <1>6, <1>7, <1>8, <1>9 DEF Next, MainStep, Rest

\* The rest of TypeOK.
PlainOK ==
  /\ build \in [vad : BOOLEAN, opus : BOOLEAN]
  /\ main \in {"idle", "delay", "alloc", "create", "arm", "read", "encode", "vad",
               "record", "disarm", "delete", "return", "finalize", "wrap", "post", "play"}
  /\ turns \in 0 .. MaxTurns
  /\ reader \in {"read", "check", "send"} /\ mic \in 0 .. MaxMic
  /\ armed \in BOOLEAN /\ alloc \in BOOLEAN
  /\ lead \in 0 .. MaxLead /\ speech \in Nat /\ trail \in 0 .. Hangover
  /\ enc \in BOOLEAN /\ feeding \in BOOLEAN
  /\ result \in {"ok", "timeout", "fail"}
  /\ heap \subseteq Blocks /\ corrupt \in BOOLEAN
  /\ underrun \in BOOLEAN /\ encfailed \in BOOLEAN
  /\ outcome \in {"none", "quiet", "error", "played", "two-phase", "panic"}

\* Every step keeps the types of the other variables.
LEMMA PlainStep ==
  ASSUME TypeOK, Control, [Next]_vars PROVE PlainOK'
<1> USE CaptureAssumption
<1>0. PlainOK
  BY DEF TypeOK, PlainOK
<1>1. CASE UNCHANGED vars
  BY <1>0, <1>1 DEF vars, micVars, ringVars, vadVars, encVars, heapVars, PlainOK
<1>2. ASSUME Locals
      PROVE  /\ mic' \in 0 .. MaxMic /\ lead' \in 0 .. MaxLead /\ speech' \in Nat
             /\ trail' \in 0 .. Hangover /\ result' \in {"ok", "timeout", "fail"}
             /\ enc' \in BOOLEAN /\ feeding' \in BOOLEAN
             /\ underrun' \in BOOLEAN /\ encfailed' \in BOOLEAN
  <2>1. /\ mic' \in 0 .. MaxMic /\ lead' \in 0 .. MaxLead /\ speech' \in Nat
        /\ trail' \in 0 .. Hangover /\ result' \in {"ok", "timeout", "fail"}
    BY <1>2 DEF Locals
  <2>2. /\ enc' = FALSE /\ feeding' = FALSE
        /\ underrun' = FALSE /\ encfailed' = FALSE
    BY <1>2 DEF Locals
  <2> QED
    BY <2>1, <2>2
<1>3. CASE StartTurn
  <2>1. /\ Locals /\ main' = "delay" /\ turns' = turns + 1 /\ turns < MaxTurns
        /\ UNCHANGED <<build, reader, armed, alloc, heap, corrupt, outcome>>
    BY <1>3 DEF StartTurn, ringVars, heapVars
  <2>2. turns' \in 0 .. MaxTurns
    BY <1>0, <2>1 DEF PlainOK
  <2> QED
    BY <1>0, <1>2, <2>1, <2>2 DEF PlainOK
<1>6. CASE Panic
  <2>1. /\ Locals /\ main' = "idle" /\ outcome' = "panic" /\ reader' = "read"
        /\ armed' = FALSE /\ heap' = {}
        /\ UNCHANGED <<build, turns, alloc, corrupt>>
    BY <1>6 DEF Panic
  <2> QED
    BY <1>0, <1>2, <2>1 DEF PlainOK
<1>4. CASE ReaderStep
  <2>1. UNCHANGED <<build, main, turns, armed, alloc, lead, speech, trail, enc, feeding,
                    encfailed, result, heap, corrupt, underrun, outcome>>
    BY <1>4 DEF ReaderStep, ReaderReads, ReaderChecks, ReaderSends, ReaderDrops,
                ReaderOnly, vadVars, encVars, heapVars
  <2>2. reader' \in {"read", "check", "send"} /\ mic' \in 0 .. MaxMic
    BY <1>0, <1>4 DEF ReaderStep, ReaderReads, ReaderChecks, ReaderSends, ReaderDrops, PlainOK
  <2> QED
    BY <1>0, <2>1, <2>2 DEF PlainOK
<1>5. CASE MainStep
  <2>1. UNCHANGED <<build, turns, mic, reader>>
    BY <1>5 DEF MainStep, DelayEnds, AllocPcm, AllocFails, CreateEncoder, CreateFails, Arm,
         ArmFails, ReadFrame, ReadUnderruns, EncodeFrame, EncodeDtx, EncodeFails, NotEncoded,
         HearSpeech, HearLead, HearTrail, Record, RecordStops, Disarm, DeleteRing, Abandon,
         Captured, FinalizeOpus, FinalizeEmpty, WrapWav, WrapFails, PostFails, PostDropped,
         PostAnswered, Play, Goto, Leave, NoAudio, Capturing, micVars
  <2>2. main' \in {"idle", "delay", "alloc", "create", "arm", "read", "encode", "vad",
                   "record", "disarm", "delete", "return", "finalize", "wrap", "post", "play"}
    <3>1. CASE DelayEnds \/ AllocPcm \/ AllocFails \/ CreateEncoder \/ CreateFails \/ Arm \/ ArmFails
      BY <3>1 DEF DelayEnds, AllocPcm, AllocFails, CreateEncoder, CreateFails, Arm, ArmFails, Goto, Leave
    <3>2. CASE ReadFrame \/ ReadUnderruns \/ EncodeFrame \/ EncodeDtx \/ EncodeFails \/ NotEncoded
      BY <3>2 DEF ReadFrame, ReadUnderruns, EncodeFrame, EncodeDtx, EncodeFails, NotEncoded, Goto, More
    <3>3. CASE HearSpeech \/ HearLead \/ HearTrail \/ Record \/ RecordStops \/ Disarm
      BY <3>3 DEF HearSpeech, HearLead, HearTrail, Record, RecordStops, Disarm, Goto, Leave, More
    <3>4. CASE DeleteRing \/ Abandon \/ Captured \/ FinalizeOpus \/ FinalizeEmpty
      BY <3>4 DEF DeleteRing, Abandon, Captured, FinalizeOpus, FinalizeEmpty, Goto, Leave
    <3>5. CASE WrapWav \/ WrapFails \/ PostFails \/ PostDropped \/ PostAnswered \/ Play
      BY <3>5 DEF WrapWav, WrapFails, PostFails, PostDropped, PostAnswered, Play, Goto, Leave
    <3> QED BY <1>5, <3>1, <3>2, <3>3, <3>4, <3>5 DEF MainStep
  <2>3. /\ armed' \in BOOLEAN /\ alloc' \in BOOLEAN
        /\ lead' \in 0 .. MaxLead /\ speech' \in Nat /\ trail' \in 0 .. Hangover
    <3>1. CASE HearSpeech \/ HearLead \/ HearTrail
      BY SMTT(30), <1>0, <3>1 DEF HearSpeech, HearLead, HearTrail, Goto, ringVars, Control, Room,
                        Framing, PlainOK
    <3>2. CASE Arm \/ Disarm \/ DeleteRing \/ ReadFrame \/ Record
      BY <1>0, <3>2 DEF Arm, Disarm, DeleteRing, ReadFrame, Record, vadVars, PlainOK
    <3>3. CASE UNCHANGED <<armed, alloc, lead, speech, trail>>
      BY <1>0, <3>3 DEF PlainOK
    <3> QED
      BY <1>5, <3>1, <3>2, <3>3 DEF MainStep, DelayEnds, AllocPcm, AllocFails,
         CreateEncoder, CreateFails, ArmFails, ReadUnderruns, EncodeFrame, EncodeDtx, EncodeFails,
         NotEncoded, RecordStops, Abandon, Captured, FinalizeOpus, FinalizeEmpty,
         WrapWav, WrapFails, PostFails, PostDropped, PostAnswered, Play, NoAudio,
         ringVars, vadVars
  <2>4. /\ enc' \in BOOLEAN /\ feeding' \in BOOLEAN
        /\ encfailed' \in BOOLEAN /\ underrun' \in BOOLEAN
    <3>1. enc \in BOOLEAN /\ feeding \in BOOLEAN
          /\ encfailed \in BOOLEAN /\ underrun \in BOOLEAN /\ build.vad \in BOOLEAN
      BY <1>0 DEF PlainOK
    <3>2. (underrun' = underrun \/ underrun' = TRUE) /\ (enc' = enc \/ enc' = TRUE \/ enc' = FALSE)
          /\ (feeding' = feeding \/ feeding' = FALSE \/ feeding' = build.vad)
          /\ (encfailed' = encfailed \/ encfailed' = TRUE)
      BY <1>5 DEF MainStep, DelayEnds, AllocPcm, AllocFails, CreateEncoder, CreateFails, Arm,
         ArmFails, ReadFrame, ReadUnderruns, EncodeFrame, EncodeDtx, EncodeFails, NotEncoded,
         HearSpeech, HearLead, HearTrail, Record, RecordStops, Disarm, DeleteRing, Abandon,
         Captured, FinalizeOpus, FinalizeEmpty, WrapWav, WrapFails, PostFails, PostDropped,
         PostAnswered, Play, NoAudio, Capturing, encVars
    <3> QED
      BY <3>1, <3>2, Zenon
  <2>5. result' \in {"ok", "timeout", "fail"}
        /\ outcome' \in {"none", "quiet", "error", "played", "two-phase", "panic"}
    BY <1>0, <1>5 DEF PlainOK, MainStep, DelayEnds, AllocPcm, AllocFails, CreateEncoder,
         CreateFails, Arm, ArmFails, ReadFrame, ReadUnderruns, EncodeFrame, EncodeDtx, EncodeFails,
         NotEncoded, HearSpeech, HearLead, HearTrail, Record, RecordStops, Disarm,
         DeleteRing, Abandon, Captured, FinalizeOpus, FinalizeEmpty, WrapWav, WrapFails,
         PostFails, PostDropped, PostAnswered, Play, NoAudio, Capturing, Leave
  <2>6. heap' \subseteq Blocks /\ corrupt' \in BOOLEAN
    <3>1. CASE UNCHANGED heapVars
      BY <1>0, <3>1 DEF PlainOK, heapVars
    <3>2. CASE \E new, gone \in SUBSET Blocks : Own(new, gone)
      BY <1>0, <3>2 DEF PlainOK, Own
    <3>3. CASE \/ AllocPcm \/ CreateEncoder \/ Abandon \/ FinalizeOpus \/ FinalizeEmpty
               \/ WrapWav \/ WrapFails \/ PostFails \/ PostDropped \/ PostAnswered \/ Play
      BY <3>2, <3>3 DEF AllocPcm, CreateEncoder, Abandon, FinalizeOpus, FinalizeEmpty,
         WrapWav, WrapFails, PostFails, PostDropped, PostAnswered, Play, Encoder, Blocks
    <3> QED
      BY <1>5, <3>1, <3>3 DEF MainStep, DelayEnds, AllocFails, CreateFails, Arm, ArmFails,
         ReadFrame, ReadUnderruns, EncodeFrame, EncodeDtx, EncodeFails, NotEncoded, HearSpeech,
         HearLead, HearTrail, Record, RecordStops, Disarm, DeleteRing, Captured, Capturing
  <2> QED
    BY <1>0, <2>1, <2>2, <2>3, <2>4, <2>5, <2>6 DEF PlainOK
<1> QED
  BY <1>1, <1>3, <1>4, <1>5, <1>6 DEF Next, Rest

\* Types and control together.
LEMMA TypesStep ==
  ASSUME TypeOK, Control, [Next]_vars PROVE TypeOK' /\ Control'
<1>1. AudioOK' /\ UploadOK' /\ PlainOK' /\ Control'
  BY AudioStep, UploadStep, PlainStep, ControlStep
<1> QED
  BY <1>1 DEF TypeOK, AudioOK, UploadOK, PlainOK

-----------------------------------------------------------------------------
(* What has been heard: the utterance and, after it, the ring.              *)

Heard == Len(pcm) + Len(ring)
Sound(i) == At(pcm, ring, i)

\* As far as main will ever take it, what has been heard has no gap.
Whole == \A i \in 1 .. Heard : i <= MaxSamples => Sound(i) = Sound(1) + i - 1

\* The reader's next chunk continues what has been heard, unless a chunk has been
\* dropped.  By then main needs no more.
Pending == IF reader = "read" THEN 0 ELSE ChunkLen
Continues ==
  alloc /\ (armed \/ reader = "send") /\ 0 < Heard /\ Heard < MaxSamples =>
    Sound(Heard) = mic - Pending

\* The ring is armed when the beep's chunks have passed.
BeepOver ==
  /\ main \in {"alloc", "create", "arm", "delete"} \cup Recording => mic >= DelayLen
  /\ \A i \in 1 .. Heard : Sound(i) > ChunkLen

SoundOK == Whole /\ Continues /\ BeepOver

\* Nothing has been heard before the first turn.
LEMMA SoundInit == Init => SoundOK
<1> SUFFICES ASSUME Init PROVE SoundOK
  OBVIOUS
<1>1. Heard = 0
  BY EmptyFacts DEF Init, Heard
<1> QED
  BY <1>1 DEF Init, SoundOK, Whole, Continues, BeepOver, Recording

Following == alloc /\ (armed \/ reader = "send")
AfterBeep == main \in {"alloc", "create", "arm", "delete"} \cup Recording

\* A step that adds nothing to what has been heard.
LEMMA SoundKept ==
  ASSUME TypeOK, SoundOK, Heard' \in Nat, Heard' <= Heard,
         \A i \in 1 .. Heard' : Sound(i)' = Sound(i),
         Following' /\ 0 < Heard' /\ Heard' < MaxSamples =>
           Following /\ Heard' = Heard /\ mic' - Pending' = mic - Pending,
         AfterBeep' => mic' >= DelayLen
  PROVE  SoundOK'
<1>1. PICK h \in Nat, k \in Nat : Heard = h /\ Heard' = k /\ k <= h
  BY DEF Heard, TypeOK
<1>2. Whole'
  <2> SUFFICES ASSUME NEW i \in 1 .. k, i <= MaxSamples
               PROVE  Sound(i)' = Sound(1)' + i - 1
    BY <1>1 DEF Whole
  <2>1. i \in 1 .. h /\ 1 \in 1 .. k
    BY <1>1
  <2>2. Sound(i) = Sound(1) + i - 1
    BY <1>1, <2>1 DEF SoundOK, Whole
  <2>3. Sound(1)' = Sound(1) /\ Sound(i)' = Sound(i)
    BY <1>1, <2>1
  <2> QED
    BY <2>2, <2>3
<1>3. Continues'
  <2> SUFFICES ASSUME Following', 0 < k, k < MaxSamples
               PROVE  Sound(k)' = mic' - Pending'
    BY <1>1 DEF Continues, Following
  <2>1. Following /\ k = h /\ mic' - Pending' = mic - Pending /\ k \in 1 .. k
    BY <1>1
  <2>2. Sound(k)' = Sound(k) /\ Sound(k) = mic - Pending
    BY <1>1, <2>1 DEF SoundOK, Continues, Following
  <2> QED
    BY <2>1, <2>2
<1>4. BeepOver'
  <2>1. ASSUME NEW i \in 1 .. k PROVE Sound(i)' > ChunkLen
    <3>1. i \in 1 .. h
      BY <1>1
    <3>2. Sound(i) > ChunkLen /\ Sound(i)' = Sound(i)
      BY <1>1, <3>1 DEF SoundOK, BeepOver
    <3> QED
      BY <3>2
  <2> QED
    BY <1>1, <2>1 DEF BeepOver, AfterBeep
<1> QED
  BY <1>2, <1>3, <1>4 DEF SoundOK

\* The reader's send appends its chunk.
LEMMA SoundSent ==
  ASSUME TypeOK, Control, SoundOK, ReaderSends PROVE SoundOK'
<1> USE CaptureAssumption
<1>1. /\ ring' = ring \o ReaderChunk /\ reader = "send" /\ reader' = "read" /\ alloc
      /\ UNCHANGED <<main, armed, alloc, pcm, mic>>
  BY DEF ReaderSends, ReaderOnly, vadVars
<1>2. /\ mic \in 0 .. MaxMic /\ mic >= ChunkLen /\ mic >= DelayLen /\ DelayLen = 2 * ChunkLen
      /\ AfterBeep
  BY <1>1 DEF TypeOK, Control, ChunkHeard, RingWhile, SoundOK, BeepOver, DelayLen, AfterBeep
<1>3. ReaderChunk \in Seq(Samples) /\ Len(ReaderChunk) = ChunkLen
  <2>1. ReaderChunk \in [1 .. ChunkLen -> Samples]
    BY <1>2 DEF ReaderChunk, Samples
  <2> QED
    BY <2>1, ArrayFacts
<1>4. \A i \in 1 .. ChunkLen : ReaderChunk[i] = mic - ChunkLen + i
  BY DEF ReaderChunk
<1> HIDE DEF ReaderChunk
<1>5. ring \in Seq(Samples) /\ Len(ring) \in Nat /\ Len(pcm) \in Nat
  BY DEF TypeOK
<1>6. /\ Len(ring') = Len(ring) + ChunkLen
      /\ \A i \in 1 .. Len(ring) : ring'[i] = ring[i]
      /\ \A i \in 1 .. ChunkLen : ring'[Len(ring) + i] = mic - ChunkLen + i
  <2> DEFINE both == ring \o ReaderChunk
  <2>1. /\ Len(both) = Len(ring) + ChunkLen
        /\ \A i \in 1 .. Len(ring) + ChunkLen :
             both[i] = IF i <= Len(ring) THEN ring[i] ELSE ReaderChunk[i - Len(ring)]
    BY <1>3, <1>5, ConcatProperties
  <2>2. ring' = both
    BY <1>1
  <2> HIDE DEF both
  <2>3. ASSUME NEW i \in 1 .. ChunkLen PROVE both[Len(ring) + i] = mic - ChunkLen + i
    <3>1. /\ Len(ring) + i \in 1 .. Len(ring) + ChunkLen /\ ~(Len(ring) + i <= Len(ring))
          /\ Len(ring) + i - Len(ring) = i
      BY <1>5
    <3> QED
      BY <3>1, <2>1, <1>4
  <2> QED
    BY <2>1, <2>2, <2>3, <1>5
<1>7. PICK h \in Nat : Heard = h /\ Heard' = h + ChunkLen
  BY <1>1, <1>5, <1>6 DEF Heard
<1>8. \A i \in 1 .. h : Sound(i)' = Sound(i)
  BY <1>1, <1>5, <1>6, <1>7 DEF Heard, Sound, At
<1>9. ASSUME NEW i \in 1 .. ChunkLen PROVE Sound(h + i)' = mic - ChunkLen + i
  <2>1. ~(h + i <= Len(pcm)) /\ h + i - Len(pcm) = Len(ring) + i
    BY <1>5, <1>7 DEF Heard
  <2>2. Sound(h + i)' = ring'[Len(ring) + i]
    <3>1. Sound(h + i)' = IF h + i <= Len(pcm') THEN pcm'[h + i] ELSE ring'[h + i - Len(pcm')]
      BY DEF Sound, At
    <3>2. pcm' = pcm
      BY <1>1
    <3> QED
      BY <2>1, <3>1, <3>2
  <2> QED
    BY <2>2, <1>6
<1>10. h > 0 /\ h < MaxSamples => Sound(h) = mic - ChunkLen
  BY <1>1, <1>7 DEF SoundOK, Continues, Pending
<1>11. Whole'
  <2> SUFFICES ASSUME NEW i \in 1 .. h + ChunkLen, i <= MaxSamples
               PROVE  Sound(i)' = Sound(1)' + i - 1
    BY <1>7 DEF Whole
  <2>1. CASE i <= h
    <3>1. i \in 1 .. h /\ 1 \in 1 .. h
      BY <2>1
    <3>2. Sound(i) = Sound(1) + i - 1
      BY <1>7, <3>1 DEF SoundOK, Whole
    <3> QED
      BY <1>8, <3>1, <3>2
  <2>2. CASE i > h
    <3>1. i - h \in 1 .. ChunkLen /\ h + (i - h) = i
      BY <2>2
    <3>2. Sound(i)' = mic - ChunkLen + (i - h)
      BY <1>9, <3>1
    <3>3. Sound(1)' = mic - ChunkLen - h + 1
      <4>1. CASE h = 0
        <5>1. 1 \in 1 .. ChunkLen /\ h + 1 = 1
          BY <4>1
        <5>2. Sound(h + 1)' = mic - ChunkLen + 1
          BY <1>9, <5>1
        <5> QED
          BY <1>2, <4>1, <5>1, <5>2
      <4>2. CASE h > 0
        <5>1. 1 \in 1 .. h /\ h \in 1 .. h /\ h <= MaxSamples /\ h < MaxSamples
          BY <2>2, <4>2
        <5>2. Sound(h) = mic - ChunkLen
          BY <1>10, <4>2, <5>1
        <5>3. Sound(h) = Sound(1) + h - 1
          BY <1>7, <5>1 DEF SoundOK, Whole
        <5>4. Sound(1) \in Int
          <6>1. At(pcm, ring, 1) \in Samples
            <7>1. pcm \in Seq(Samples) /\ ring \in Seq(Samples) /\ h = Len(pcm) + Len(ring)
              BY <1>7 DEF TypeOK, Heard
            <7> QED
              BY <1>5, <4>2, <7>1 DEF At
          <6> QED
            BY <6>1 DEF Sound, Samples
        <5>5. Sound(1)' = Sound(1)
          BY <1>8, <5>1
        <5> QED
          BY <1>2, <5>2, <5>3, <5>4, <5>5
      <4> QED
        BY <4>1, <4>2
    <3> QED
      BY <1>2, <3>2, <3>3
  <2> QED
    BY <2>1, <2>2
<1>12. Continues'
  <2>1. Sound(h + ChunkLen)' = mic - ChunkLen + ChunkLen
    BY <1>9
  <2>2. mic - ChunkLen + ChunkLen = mic' - Pending'
    BY <1>1, <1>2 DEF Pending
  <2> QED
    BY <1>7, <2>1, <2>2 DEF Continues
<1>13. BeepOver'
  <2>1. AfterBeep' => mic' >= DelayLen
    BY <1>1, <1>2
  <2>2. ASSUME NEW i \in 1 .. h + ChunkLen PROVE Sound(i)' > ChunkLen
    <3>1. CASE i <= h
      BY <1>7, <1>8, <3>1 DEF SoundOK, BeepOver
    <3>2. CASE i > h
      <4>1. i - h \in 1 .. ChunkLen /\ h + (i - h) = i
        BY <3>2
      <4>2. Sound(i)' = mic - ChunkLen + (i - h)
        BY <1>9, <4>1
      <4> QED
        BY <1>2, <4>1, <4>2
    <3> QED
      BY <3>1, <3>2
  <2> QED
    BY <1>7, <2>1, <2>2 DEF BeepOver, AfterBeep
<1> QED
  BY <1>11, <1>12, <1>13 DEF SoundOK

\* Every step keeps what has been heard without a gap and without the beep.
LEMMA SoundStep ==
  ASSUME TypeOK, Control, SoundOK, [Next]_vars PROVE SoundOK'
<1> USE CaptureAssumption
<1>0. /\ pcm \in Seq(Samples) /\ ring \in Seq(Samples) /\ Len(pcm) \in Nat /\ Len(ring) \in Nat
      /\ Heard = Len(pcm) + Len(ring) /\ Heard \in Nat
  BY DEF TypeOK, Heard
\* Nothing is heard, and nothing forgotten.
<1>1. ASSUME UNCHANGED <<pcm, ring>>
      PROVE  Heard' = Heard /\ \A i \in 1 .. Heard' : Sound(i)' = Sound(i)
  BY <1>1 DEF Heard, Sound
\* All is forgotten.
<1>2. ASSUME pcm' = <<>>, ring' = <<>>, AfterBeep' => mic' >= DelayLen
      PROVE  SoundOK'
  <2>1. Heard' = 0
    BY <1>2, EmptyFacts DEF Heard
  <2> QED
    BY <2>1, <1>2 DEF SoundOK, Whole, Continues, BeepOver, AfterBeep
<1>3. CASE UNCHANGED vars
  <2>1. UNCHANGED <<pcm, ring>> /\ UNCHANGED <<main, reader, mic, armed, alloc>>
    BY <1>3 DEF vars, micVars, ringVars, vadVars
  <2>2. /\ Following' => Following
        /\ mic' - Pending' = mic - Pending
        /\ AfterBeep' => mic' >= DelayLen
    BY <2>1 DEF Following, Pending, SoundOK, BeepOver, AfterBeep
  <2> QED
    BY <1>0, <1>1, <2>1, <2>2, SoundKept
<1>4. CASE StartTurn
  <2>1. pcm' = <<>> /\ ring' = ring /\ main = "idle" /\ main' = "delay"
    BY <1>4 DEF StartTurn, Locals, ringVars
  <2> QED
    BY <2>1, <1>2 DEF Control, RingWhile, Recording, AfterBeep
<1>5. CASE Panic
  BY <1>2, <1>5 DEF Panic, Locals, AfterBeep, Recording
<1>6. CASE ReaderSends
  BY <1>6, SoundSent
<1>7. CASE ReaderReads \/ ReaderChecks \/ ReaderDrops
  <2>1. UNCHANGED <<pcm, ring>> /\ UNCHANGED <<main, armed, alloc>>
    BY <1>7 DEF ReaderReads, ReaderChecks, ReaderDrops, ReaderOnly, vadVars
  <2>2. AfterBeep' => mic' >= DelayLen
    <3>1. mic' >= mic /\ mic' \in Nat /\ mic \in Nat
      BY <1>7 DEF ReaderReads, ReaderChecks, ReaderDrops, TypeOK
    <3> QED
      BY <2>1, <3>1 DEF SoundOK, BeepOver, AfterBeep, DelayLen
  <2>3. Following' /\ 0 < Heard' /\ Heard' < MaxSamples =>
          Following /\ mic' - Pending' = mic - Pending
    <3>1. CASE ReaderReads
      BY <2>1, <3>1 DEF ReaderReads, Following, Pending, TypeOK
    <3>2. CASE ReaderChecks
      BY <2>1, <3>2 DEF ReaderChecks, Following, Pending
    <3>3. CASE ReaderDrops
      <4>1. ~(Len(ring) + ChunkLen <= RingCap)
        BY <3>3 DEF ReaderDrops, Fits
      <4>2. RingCap >= MaxSamples + ChunkLen - 1 /\ RingCap \in Nat
        BY DEF RingCap
      <4>3. Heard' >= MaxSamples
        BY <1>0, <1>1, <2>1, <4>1, <4>2
      <4> QED
        BY <1>0, <1>1, <2>1, <4>3
    <3> QED
      BY <1>7, <3>1, <3>2, <3>3
  <2> QED
    BY <1>0, <1>1, <2>1, <2>2, <2>3, SoundKept
<1>8. CASE MainStep
  <2>1. UNCHANGED <<mic, reader>> /\ Pending' = Pending
    BY <1>8 DEF MainStep, DelayEnds, AllocPcm, AllocFails, CreateEncoder, CreateFails, Arm,
         ArmFails, ReadFrame, ReadUnderruns, EncodeFrame, EncodeDtx, EncodeFails, NotEncoded,
         HearSpeech, HearLead, HearTrail, Record, RecordStops, Disarm, DeleteRing, Abandon,
         Captured, FinalizeOpus, FinalizeEmpty, WrapWav, WrapFails, PostFails, PostDropped,
         PostAnswered, Play, NoAudio, Capturing, micVars, Pending
  <2>2. AfterBeep' => mic' >= DelayLen
    <3>1. CASE DelayEnds
      BY <2>1, <3>1 DEF DelayEnds
    <3>2. CASE ~DelayEnds
      <4>1. AfterBeep' => AfterBeep
        BY <1>8, <3>2 DEF MainStep, AllocPcm, AllocFails, CreateEncoder, CreateFails, Arm,
           ArmFails, ReadFrame, ReadUnderruns, EncodeFrame, EncodeDtx, EncodeFails, NotEncoded,
           HearSpeech, HearLead, HearTrail, Record, RecordStops, Disarm, DeleteRing, Abandon,
           Captured, FinalizeOpus, FinalizeEmpty, WrapWav, WrapFails, PostFails, PostDropped,
           PostAnswered, Play, Goto, Leave, More, AfterBeep, Recording
      <4> QED
        BY <2>1, <4>1 DEF SoundOK, BeepOver, AfterBeep
    <3> QED
      BY <3>1, <3>2
  <2>3. CASE UNCHANGED <<pcm, ring, alloc>> /\ (armed' => armed)
    <3>1. Following' => Following
      BY <2>1, <2>3 DEF Following
    <3> QED
      BY <1>0, <1>1, <2>1, <2>2, <2>3, <3>1, SoundKept
  <2>4. CASE ReadFrame \/ Record
    <3>1. PICK want \in Nat : Drain(want)
      <4>1. got \in Nat /\ got <= MaxSamples
        BY DEF TypeOK
      <4>2. ReadFrame => FrameLen - got \in Nat
        BY <4>1 DEF ReadFrame, Goto, Control, Room, Framing
      <4> QED
        BY <2>4, <4>1, <4>2 DEF ReadFrame, Record
    <3>2. PICK n \in 1 .. want :
            /\ n <= Len(ring) /\ Len(pcm') = Len(pcm) + n /\ Len(ring') = Len(ring) - n
            /\ \A i \in 1 .. Len(pcm) + Len(ring) : At(pcm', ring', i) = At(pcm, ring, i)
      BY <3>1, DrainFacts
    <3>3. Heard' = Heard
      BY <1>0, <3>2 DEF Heard
    <3>4. \A i \in 1 .. Heard : Sound(i)' = Sound(i)
      BY <1>0, <3>2 DEF Sound
    <3>5. UNCHANGED <<armed, alloc>> /\ (Following' => Following)
      BY <2>1, <2>4 DEF ReadFrame, Record, Following
    <3> QED
      BY <1>0, <2>1, <2>2, <3>3, <3>4, <3>5, SoundKept
  <2>5. CASE Arm
    BY <1>2, <2>2, <2>5 DEF Arm, vadVars, Goto, Control, Fresh
  <2>6. CASE DeleteRing
    <3>1. pcm' = pcm /\ ring' = <<>> /\ alloc' = FALSE
      BY <2>6 DEF DeleteRing, vadVars
    <3>2. Heard' = Len(pcm) /\ Heard' <= Heard
      BY <1>0, <3>1, EmptyFacts DEF Heard
    <3>3. \A i \in 1 .. Heard' : Sound(i)' = Sound(i)
      BY <1>0, <3>1, <3>2 DEF Sound, At
    <3>4. ~Following'
      BY <3>1 DEF Following
    <3> QED
      BY <1>0, <2>2, <3>2, <3>3, <3>4, SoundKept
  <2>7. CASE \/ DelayEnds \/ AllocPcm \/ AllocFails \/ CreateEncoder \/ CreateFails
             \/ Abandon \/ Captured \/ FinalizeOpus \/ FinalizeEmpty \/ WrapWav
             \/ WrapFails \/ PostFails \/ PostDropped \/ PostAnswered \/ Play
    <3>1. UNCHANGED <<ringVars, vadVars>>
      BY <2>7 DEF DelayEnds, AllocPcm, AllocFails, CreateEncoder, CreateFails, Abandon,
         Captured, FinalizeOpus, FinalizeEmpty, WrapWav, WrapFails, PostFails,
         PostDropped, PostAnswered, Play, NoAudio
    <3> QED
      BY <2>3, <3>1 DEF ringVars, vadVars
  <2>8. CASE \/ ArmFails \/ ReadUnderruns \/ EncodeFrame \/ EncodeDtx \/ EncodeFails \/ NotEncoded
             \/ HearSpeech \/ HearLead \/ HearTrail \/ RecordStops \/ Disarm
    <3>1. UNCHANGED <<pcm, ring, alloc>>
      BY <2>8 DEF ArmFails, ReadUnderruns, EncodeFrame, EncodeDtx, EncodeFails, NotEncoded,
         HearSpeech, HearLead, HearTrail, RecordStops, Disarm, ringVars, vadVars
    <3>2. armed' = armed \/ armed' = FALSE
      BY <2>8 DEF ArmFails, ReadUnderruns, EncodeFrame, EncodeDtx, EncodeFails, NotEncoded,
         HearSpeech, HearLead, HearTrail, RecordStops, Disarm, ringVars
    <3> QED
      BY <2>3, <3>1, <3>2
  <2> QED
    BY <1>8, <2>4, <2>5, <2>6, <2>7, <2>8 DEF MainStep
<1> QED
  BY <1>3, <1>4, <1>5, <1>6, <1>7, <1>8 DEF Next, ReaderStep, Rest

-----------------------------------------------------------------------------
(* The heap.                                                                *)

\* The heap is empty before the first turn.
LEMMA HeapInit == Init => HeapIs
BY DEF Init, HeapIs, Recording

\* Every step frees what it must, and only what it may.
LEMMA HeapStep ==
  ASSUME TypeOK, HeapIs, [Next]_vars PROVE HeapIs'
<1> USE DEF HeapIs, Recording
<1>1. CASE UNCHANGED vars
  BY <1>1 DEF vars, heapVars, encVars
<1>2. CASE StartTurn
  BY <1>2 DEF StartTurn, Locals, heapVars
<1>3. CASE ReaderStep
  BY <1>3 DEF ReaderStep, ReaderReads, ReaderChecks, ReaderSends, ReaderDrops,
              ReaderOnly, heapVars, encVars
<1>4. CASE Panic
  BY <1>4 DEF Panic
<1>5. CASE DelayEnds \/ AllocPcm \/ AllocFails \/ CreateEncoder \/ CreateFails
  BY <1>5 DEF DelayEnds, AllocPcm, AllocFails, CreateEncoder, CreateFails, TypeOK,
              Goto, Leave, Own, Encoder, heapVars, encVars
<1>6. CASE Arm \/ ArmFails \/ ReadFrame \/ ReadUnderruns \/ Record \/ RecordStops
  BY <1>6 DEF Arm, ArmFails, ReadFrame, ReadUnderruns, Record, RecordStops,
              Goto, Capturing, heapVars, encVars
<1>7. CASE EncodeFrame \/ EncodeDtx \/ EncodeFails \/ NotEncoded
  <2>1. main = "encode" /\ main' = "vad" /\ enc' = enc
    BY <1>7 DEF EncodeFrame, EncodeDtx, EncodeFails, NotEncoded, Goto, encVars
  <2>2. UNCHANGED heapVars
    BY <1>7 DEF EncodeFrame, EncodeDtx, EncodeFails, NotEncoded, Capturing
  <2> QED
    BY <2>1, <2>2 DEF Encoder, heapVars
<1>8. CASE HearSpeech \/ HearLead \/ HearTrail
  BY <1>8 DEF HearSpeech, HearLead, HearTrail, More, Goto, Capturing, heapVars, encVars
<1>9. CASE Disarm \/ DeleteRing
  BY <1>9 DEF Disarm, DeleteRing, Goto, Capturing, heapVars, encVars
<1>10. CASE Abandon
  <2>1. main = "return" /\ main' = "idle" /\ Own({}, Encoder(enc) \cup {"pcm"})
    BY <1>10 DEF Abandon, Leave, Goto
  <2>2. heap = Encoder(enc) \cup {"pcm"} /\ ~corrupt
    BY <2>1
  <2>3. heap' = {} /\ ~corrupt'
    BY <2>1, <2>2 DEF Own
  <2> QED
    BY <2>1, <2>3
<1>11. CASE Captured
  BY <1>11 DEF Captured, Goto, Encoder, heapVars, encVars
<1>12. CASE FinalizeOpus \/ FinalizeEmpty
  BY <1>12 DEF FinalizeOpus, FinalizeEmpty, Goto, Own, Encoder
<1>13. CASE WrapWav \/ WrapFails \/ PostFails \/ PostDropped \/ PostAnswered \/ Play
  BY <1>13 DEF WrapWav, WrapFails, PostFails, PostDropped, PostAnswered, Play,
               Goto, Leave, Own, encVars
<1> QED
  BY <1>1, <1>2, <1>3, <1>4, <1>5, <1>6, <1>7, <1>8, <1>9, <1>10, <1>11, <1>12, <1>13
     DEF Next, MainStep, Rest

-----------------------------------------------------------------------------
(* What the encoder has made of it.                                         *)

\* The utterance is one stretch of sound.
LEMMA OneStretch ==
  ASSUME TypeOK, SoundOK
  PROVE  \A i \in 1 .. Len(pcm) : pcm[i] = pcm[1] + i - 1 /\ pcm[1] \in Int
<1> SUFFICES ASSUME NEW i \in 1 .. Len(pcm)
             PROVE  pcm[i] = pcm[1] + i - 1 /\ pcm[1] \in Int
  OBVIOUS
<1>1. /\ pcm \in Seq(Samples) /\ Len(pcm) \in Nat /\ Len(ring) \in Nat
      /\ Len(pcm) <= MaxSamples /\ MaxSamples \in Nat
  BY CaptureAssumption DEF TypeOK
<1>2. i \in 1 .. Heard /\ i <= MaxSamples /\ 1 <= Len(pcm)
  BY <1>1 DEF Heard
<1>3. Sound(i) = Sound(1) + i - 1
  BY <1>2 DEF SoundOK, Whole
<1>4. Sound(i) = pcm[i] /\ Sound(1) = pcm[1]
  BY <1>1, <1>2 DEF Sound, At
<1>5. pcm[1] \in Int
  <2>1. 1 \in 1 .. Len(pcm)
    BY <1>1, <1>2
  <2>2. pcm[1] \in Samples
    BY <1>1, <2>1
  <2> QED
    BY <2>2 DEF Samples
<1> QED
  BY <1>3, <1>4, <1>5

\* The encoder of this turn is at work on it.
Fed == enc /\ build.vad /\ ~encfailed

\* Frames are read whole but for the last, and only with the VAD are they encoded.
Frames ==
  /\ main \in Framing => build.vad /\ \E q \in Nat : Len(pcm) - got = q * FrameLen
  /\ main = "read" => got < FrameLen
  /\ main = "record" => ~build.vad
  /\ encoded # <<>> => build.vad
  /\ main \in {"delay", "alloc", "create", "arm"} \cup Framing => ~underrun

\* The packets hold what was fed but for what was skipped.
Encodes(audio) ==
  /\ Ascending(encoded)
  /\ Sounds(encoded) = Sounds(audio) \ skipped
  /\ skipped \subseteq Sounds(audio)

\* Until it fails the encoder is given each frame, once, before the VAD is.
FedWhole ==
  /\ main \in {"delay", "alloc", "create"} => ~enc
  /\ main \in {"delay", "alloc", "create", "arm"} => encoded = <<>> /\ skipped = {}
  /\ main \in Framing \cup {"arm"} /\ Fed => feeding
  /\ main \in {"read", "encode"} /\ Fed => Encodes(SubSeq(pcm, 1, Len(pcm) - got))
  /\ main = "vad" /\ Fed => Encodes(pcm)
  /\ main \in {"disarm", "delete", "return", "finalize"} /\ Fed =>
       Encodes(IF underrun THEN WholeFrames ELSE pcm)

\* There is nothing to upload until the utterance is wrapped.
NotYet == main \notin {"post", "play", "idle"} => body.type = "none"

EncInv == Frames /\ FedWhole /\ NotYet /\ UploadedWhole

\* The beginning of a sequence, in a longer one.
LEMMA PrefixKept ==
  ASSUME NEW S, NEW s \in Seq(S), NEW t \in Seq(S), NEW m \in Nat, m <= Len(s)
  PROVE  SubSeq(s \o t, 1, m) = SubSeq(s, 1, m)
OBVIOUS

\* Of a stretch of sound, the frame that ends it is above all that comes before.
LEMMA FrameAbove ==
  ASSUME NEW s \in Seq(Samples), NEW m \in Nat, m <= Len(s),
         \A i \in 1 .. Len(s) : s[i] = s[1] + i - 1 /\ s[1] \in Int
  PROVE  LET l == SubSeq(s, 1, m)
             r == SubSeq(s, m + 1, Len(s))
         IN  /\ l \in Seq(Samples) /\ r \in Seq(Samples)
             /\ Sounds(s) = Sounds(l) \cup Sounds(r)
             /\ Ascending(r)
             /\ \A x \in Sounds(l), y \in Sounds(r) : x < y
<1> DEFINE l == SubSeq(s, 1, m)
           r == SubSeq(s, m + 1, Len(s))
<1>1. /\ l \in Seq(Samples) /\ Len(l) = m /\ \A i \in 1 .. m : l[i] = s[i]
      /\ r \in Seq(Samples) /\ Len(r) = Len(s) - m /\ \A i \in 1 .. Len(s) - m : r[i] = s[m + i]
      /\ DOMAIN l = 1 .. m /\ DOMAIN r = 1 .. Len(s) - m /\ DOMAIN s = 1 .. Len(s)
      /\ Len(s) \in Nat
  OBVIOUS
<1> HIDE DEF l, r
<1>2. Sounds(s) = Sounds(l) \cup Sounds(r)
  <2>1. ASSUME NEW i \in 1 .. Len(s) PROVE s[i] \in Sounds(l) \cup Sounds(r)
    <3>1. CASE i <= m
      <4>1. i \in DOMAIN l /\ l[i] = s[i]
        BY <1>1, <3>1
      <4>2. l[i] \in Sounds(l)
        BY <4>1 DEF Sounds
      <4> QED
        BY <4>1, <4>2
    <3>2. CASE i > m
      <4>1. i - m \in 1 .. Len(s) - m /\ m + (i - m) = i
        BY <1>1, <3>2
      <4>2. r[i - m] = s[i] /\ i - m \in DOMAIN r
        BY <1>1, <4>1
      <4>3. r[i - m] \in Sounds(r)
        BY <4>2 DEF Sounds
      <4> QED
        BY <4>2, <4>3
    <3> QED
      BY <1>1, <3>1, <3>2
  <2>2. ASSUME NEW i \in 1 .. m PROVE l[i] \in Sounds(s)
    <3>1. i \in DOMAIN s /\ l[i] = s[i]
      BY <1>1
    <3>2. s[i] \in Sounds(s)
      BY <3>1 DEF Sounds
    <3> QED
      BY <3>1, <3>2
  <2>3. ASSUME NEW i \in 1 .. Len(s) - m PROVE r[i] \in Sounds(s)
    <3>1. m + i \in DOMAIN s /\ r[i] = s[m + i]
      BY <1>1
    <3>2. s[m + i] \in Sounds(s)
      BY <3>1 DEF Sounds
    <3> QED
      BY <3>1, <3>2
  <2>4. /\ \A x \in Sounds(s) : \E i \in 1 .. Len(s) : x = s[i]
        /\ \A x \in Sounds(l) : \E i \in 1 .. m : x = l[i]
        /\ \A x \in Sounds(r) : \E i \in 1 .. Len(s) - m : x = r[i]
    BY <1>1 DEF Sounds
  <2>5. Sounds(s) \subseteq Sounds(l) \cup Sounds(r)
    BY <2>1, <2>4
  <2>6. Sounds(l) \subseteq Sounds(s)
    BY <2>2, <2>4
  <2>7. Sounds(r) \subseteq Sounds(s)
    BY <2>3, <2>4
  <2> QED
    BY <2>5, <2>6, <2>7
<1>3. Ascending(r)
  <2> SUFFICES ASSUME NEW i \in 1 .. Len(s) - m, NEW j \in 1 .. Len(s) - m, i < j
               PROVE  r[i] < r[j]
    BY <1>1 DEF Ascending
  <2>1. r[i] = s[m + i] /\ r[j] = s[m + j] /\ m + i \in 1 .. Len(s) /\ m + j \in 1 .. Len(s)
    BY <1>1
  <2>2. s[m + i] = s[1] + (m + i) - 1 /\ s[m + j] = s[1] + (m + j) - 1 /\ s[1] \in Int
    BY <2>1
  <2> QED
    BY <2>1, <2>2
<1>4. ASSUME NEW i \in 1 .. m, NEW j \in 1 .. Len(s) - m PROVE l[i] < r[j]
  <2>1. l[i] = s[i] /\ r[j] = s[m + j] /\ i \in 1 .. Len(s) /\ m + j \in 1 .. Len(s)
    BY <1>1
  <2>2. s[i] = s[1] + i - 1 /\ s[m + j] = s[1] + (m + j) - 1 /\ s[1] \in Int
    BY <2>1
  <2> QED
    BY <2>1, <2>2
<1>5. \A x \in Sounds(l), y \in Sounds(r) : x < y
  BY <1>1, <1>4 DEF Sounds
<1> QED
  BY <1>1, <1>2, <1>3, <1>5 DEF l, r

\* Audio that goes on above where it ended is still in order.
LEMMA AppendAscending ==
  ASSUME NEW s \in Seq(Samples), NEW t \in Seq(Samples), Ascending(s), Ascending(t),
         \A x \in Sounds(s), y \in Sounds(t) : x < y
  PROVE  Ascending(s \o t) /\ Sounds(s \o t) = Sounds(s) \cup Sounds(t)
<1> DEFINE b == s \o t
<1>1. /\ b \in Seq(Samples) /\ Len(b) = Len(s) + Len(t) /\ Len(s) \in Nat /\ Len(t) \in Nat
      /\ \A i \in 1 .. Len(s) + Len(t) : b[i] = IF i <= Len(s) THEN s[i] ELSE t[i - Len(s)]
      /\ DOMAIN s = 1 .. Len(s) /\ DOMAIN t = 1 .. Len(t) /\ DOMAIN b = 1 .. Len(s) + Len(t)
  BY ConcatProperties
<1> HIDE DEF b
<1>2. ASSUME NEW i \in 1 .. Len(s) + Len(t)
      PROVE  \/ i \in 1 .. Len(s) /\ b[i] = s[i]
             \/ i > Len(s) /\ i - Len(s) \in 1 .. Len(t) /\ b[i] = t[i - Len(s)]
  BY <1>1
<1>3. \A i \in 1 .. Len(s) : b[i] = s[i] /\ i \in 1 .. Len(s) + Len(t)
  BY <1>1
<1>4. ASSUME NEW i \in 1 .. Len(t)
      PROVE  b[Len(s) + i] = t[i] /\ Len(s) + i \in 1 .. Len(s) + Len(t)
  <2>1. /\ Len(s) + i \in 1 .. Len(s) + Len(t) /\ ~(Len(s) + i <= Len(s))
        /\ Len(s) + i - Len(s) = i
    BY <1>1
  <2> QED
    BY <1>1, <2>1
<1>5. Sounds(b) = Sounds(s) \cup Sounds(t)
  <2>1. ASSUME NEW i \in 1 .. Len(s) + Len(t) PROVE b[i] \in Sounds(s) \cup Sounds(t)
    BY <1>1, <1>2 DEF Sounds
  <2>2. ASSUME NEW i \in 1 .. Len(s) PROVE s[i] \in Sounds(b)
    BY <1>1, <1>3 DEF Sounds
  <2>3. ASSUME NEW i \in 1 .. Len(t) PROVE t[i] \in Sounds(b)
    BY <1>1, <1>4 DEF Sounds
  <2> QED
    BY <1>1, <2>1, <2>2, <2>3 DEF Sounds
<1>6. Ascending(b)
  <2> SUFFICES ASSUME NEW i \in 1 .. Len(s) + Len(t), NEW j \in 1 .. Len(s) + Len(t), i < j
               PROVE  b[i] < b[j]
    BY <1>1 DEF Ascending
  <2>1. CASE j \in 1 .. Len(s)
    <3>1. i \in 1 .. Len(s) /\ b[i] = s[i] /\ b[j] = s[j]
      BY <1>1, <1>3, <2>1
    <3> QED
      BY <1>1, <2>1, <3>1 DEF Ascending
  <2>2. CASE i > Len(s)
    <3>1. /\ i - Len(s) \in 1 .. Len(t) /\ b[i] = t[i - Len(s)]
          /\ j - Len(s) \in 1 .. Len(t) /\ b[j] = t[j - Len(s)]
          /\ i - Len(s) < j - Len(s)
      BY <1>1, <1>2, <2>2
    <3> QED
      BY <1>1, <3>1 DEF Ascending
  <2>3. CASE i \in 1 .. Len(s) /\ j > Len(s)
    <3>1. b[i] \in Sounds(s) /\ b[j] \in Sounds(t)
      BY <1>1, <1>2, <2>3 DEF Sounds
    <3> QED
      BY <3>1
  <2> QED
    BY <1>1, <2>1, <2>2, <2>3
<1> QED
  BY <1>5, <1>6 DEF b

\* A part of a frame is what the whole frames leave.
LEMMA PartOfFrame ==
  ASSUME NEW F \in Nat \ {0}, NEW q \in Nat, NEW n \in Nat, NEW r \in 0 .. F - 1, n - r = q * F
  PROVE  n % F = r
<1>1. n = q * F + r
  <2>1. q * F \in Nat
    OBVIOUS
  <2> QED
    BY <2>1
<1>2. (q * F + r) % F = r
  OBVIOUS
<1> QED
  BY <1>1, <1>2

\* One more frame.
LEMMA OneMore ==
  ASSUME NEW F \in Nat, NEW q \in Nat, NEW n \in Nat, n - F = q * F
  PROVE  n = (q + 1) * F
<1>1. q * F \in Nat /\ (q + 1) * F = q * F + F
  OBVIOUS
<1> QED
  BY <1>1

\* Before the first turn there is nothing.
LEMMA EncInit == Init => EncInv
BY DEF Init, EncInv, Frames, FedWhole, Encodes, NotYet, UploadedWhole, Framing, Fed, NoBody

\* Where the utterance and the encoder stand still, or a frame has yet to come.
LEMMA EncKept ==
  ASSUME EncInv, UNCHANGED <<build, main, pcm, got, encVars, body, underrun>>
  PROVE  EncInv'
BY DEF EncInv, Frames, FedWhole, Encodes, NotYet, UploadedWhole, Framing, Fed, WholeFrames, encVars

\* What has come of a frame is kept after what was encoded.
LEMMA EncRead ==
  ASSUME TypeOK, Control, EncInv, ReadFrame PROVE EncInv'
<1> USE CaptureAssumption
<1>1. /\ main = "read" /\ main' = IF got' = FrameLen THEN "encode" ELSE "read"
      /\ UNCHANGED <<build, enc, feeding, encoded, skipped, encfailed, body, underrun>>
  BY DEF ReadFrame, Goto, Capturing, encVars
<1>2. /\ pcm \in Seq(Samples) /\ got \in Nat /\ got <= Len(pcm) /\ got < FrameLen
      /\ Len(pcm) \in Nat /\ ring \in Seq(Samples)
  BY <1>1 DEF TypeOK, Control, Room, Framing, EncInv, Frames
<1>3. PICK n \in Nat : /\ n <= FrameLen - got /\ n <= Len(ring) /\ got' = got + n
                       /\ pcm' = pcm \o SubSeq(ring, 1, n)
  <2> DEFINE k == IF Len(ring) < FrameLen - got THEN Len(ring) ELSE FrameLen - got
  <2>1. pcm' = pcm \o SubSeq(ring, 1, k) /\ got' = got + k
    BY DEF ReadFrame, Drain
  <2>2. k \in Nat /\ k <= FrameLen - got /\ k <= Len(ring)
    BY <1>2
  <2> QED
    BY <2>1, <2>2
<1>4. SubSeq(ring, 1, n) \in Seq(Samples) /\ Len(SubSeq(ring, 1, n)) = n
  BY <1>2, <1>3
<1>5. /\ Len(pcm') - got' = Len(pcm) - got /\ Len(pcm) - got \in Nat
      /\ SubSeq(pcm', 1, Len(pcm') - got') = SubSeq(pcm, 1, Len(pcm) - got)
  <2>1. Len(pcm') = Len(pcm) + n
    BY <1>2, <1>3, <1>4, ConcatProperties
  <2>2. Len(pcm') - got' = Len(pcm) - got /\ Len(pcm) - got \in Nat /\ Len(pcm) - got <= Len(pcm)
    BY <1>2, <1>3, <2>1
  <2> QED
    BY <1>2, <1>3, <1>4, <2>2, PrefixKept
<1>6. got' < FrameLen \/ got' = FrameLen
  BY <1>2, <1>3
<1>7. Frames'
  BY <1>1, <1>5, <1>6 DEF EncInv, Frames, Framing
<1>8. FedWhole'
  BY <1>1, <1>5 DEF EncInv, FedWhole, Encodes, Framing, Fed
<1>9. NotYet' /\ UploadedWhole'
  BY <1>1 DEF EncInv, NotYet, UploadedWhole
<1> QED
  BY <1>7, <1>8, <1>9 DEF EncInv

\* The frame is encoded, or the encoder given up, before the VAD hears it.
LEMMA EncEncode ==
  ASSUME TypeOK, Control, SoundOK, EncInv, EncodeFrame \/ EncodeDtx \/ EncodeFails \/ NotEncoded
  PROVE  EncInv'
<1> USE CaptureAssumption
<1>1. /\ main = "encode" /\ main' = "vad" /\ UNCHANGED <<build, pcm, got, enc, body, underrun>>
      /\ build.vad /\ ~underrun
  BY DEF EncodeFrame, EncodeDtx, EncodeFails, NotEncoded, Goto, Capturing, vadVars, encVars, EncInv, Frames, Framing
<1>2. pcm \in Seq(Samples) /\ got = FrameLen /\ got <= Len(pcm) /\ Len(pcm) \in Nat
  BY <1>1 DEF TypeOK, Control, Room, Framing
<1> DEFINE m == Len(pcm) - got
           l == SubSeq(pcm, 1, m)
           r == SubSeq(pcm, m + 1, Len(pcm))
<1>3. m \in Nat /\ m <= Len(pcm) /\ Frame = r
  BY <1>2 DEF Frame
<1>4. /\ l \in Seq(Samples) /\ r \in Seq(Samples) /\ Sounds(pcm) = Sounds(l) \cup Sounds(r)
      /\ Ascending(r) /\ \A x \in Sounds(l), y \in Sounds(r) : x < y
  <2> HIDE DEF m
  <2>1. \A i \in 1 .. Len(pcm) : pcm[i] = pcm[1] + i - 1 /\ pcm[1] \in Int
    BY OneStretch
  <2> QED
    BY <1>2, <1>3, <2>1, FrameAbove
<1>5. Fed => Encodes(l)
  BY <1>1 DEF EncInv, FedWhole
<1> HIDE DEF m, l, r
<1>6. Sounds(r) \cap Sounds(l) = {}
  <2> SUFFICES ASSUME NEW x \in Sounds(r), x \in Sounds(l) PROVE FALSE
    OBVIOUS
  <2>1. x < x /\ x \in Nat
    BY <1>4 DEF Sounds, Samples
  <2> QED
    BY <2>1
<1>7. encfailed' \/ (encfailed' = encfailed /\ feeding' = feeding)
  BY DEF EncodeFrame, EncodeDtx, EncodeFails, NotEncoded, encVars
<1>8. Fed' => Encodes(pcm)'
  <2>1. Fed' => Fed
    BY <1>1, <1>7 DEF EncodeFrame, EncodeDtx, EncodeFails, NotEncoded, encVars, Fed
  <2> SUFFICES ASSUME Fed, Fed' PROVE Encodes(pcm)'
    BY <2>1
  <2>2. /\ Ascending(encoded) /\ Sounds(encoded) = Sounds(l) \ skipped
        /\ skipped \subseteq Sounds(l) /\ encoded \in Seq(Samples)
    BY <1>5 DEF Encodes, TypeOK
  <2>3. CASE EncodeFrame
    <3>1. encoded' = encoded \o r /\ skipped' = skipped
      BY <1>3, <2>3 DEF EncodeFrame
    <3>2. \A x \in Sounds(encoded), y \in Sounds(r) : x < y
      BY <1>4, <2>2
    <3>3. Ascending(encoded \o r) /\ Sounds(encoded \o r) = Sounds(encoded) \cup Sounds(r)
      BY <1>4, <2>2, <3>2, AppendAscending
    <3>4. Sounds(encoded) \cup Sounds(r) = Sounds(pcm) \ skipped
      BY <1>4, <1>6, <2>2
    <3>5. skipped \subseteq Sounds(pcm)
      BY <1>4, <2>2
    <3> QED
      BY <1>1, <3>1, <3>3, <3>4, <3>5 DEF Encodes
  <2>4. CASE EncodeDtx
    <3>1. encoded' = encoded /\ skipped' = skipped \cup Sounds(r)
      BY <1>3, <2>4 DEF EncodeDtx
    <3>2. Sounds(encoded) = Sounds(pcm) \ (skipped \cup Sounds(r))
      BY <1>4, <1>6, <2>2
    <3>3. skipped \cup Sounds(r) \subseteq Sounds(pcm)
      BY <1>4, <2>2
    <3> QED
      BY <1>1, <2>2, <3>1, <3>2, <3>3 DEF Encodes
  <2>5. CASE EncodeFails
    BY <2>5 DEF EncodeFails, Fed
  <2>6. CASE NotEncoded
    BY <1>1, <2>6 DEF NotEncoded, EncInv, FedWhole, Fed, Framing
  <2> QED
    BY <2>3, <2>4, <2>5, <2>6
<1>9. feeding' \/ ~Fed'
  BY <1>1, <1>7 DEF EncodeFrame, EncodeDtx, EncodeFails, NotEncoded, encVars, EncInv, FedWhole, Fed, Framing
<1>10. /\ encoded' # <<>> => build.vad
       /\ Frames'
  BY <1>1 DEF EncInv, Frames, Framing
<1>11. FedWhole'
  BY <1>1, <1>8, <1>9 DEF FedWhole, Framing
<1>12. NotYet' /\ UploadedWhole'
  BY <1>1 DEF EncInv, NotYet, UploadedWhole
<1> QED
  BY <1>10, <1>11, <1>12 DEF EncInv

\* No audio.
LEMMA NothingEncoded == Ascending(<<>>) /\ Sounds(<<>>) = {}
BY DEF Ascending, Sounds

\* The VAD counts the frame, and the next one begins or the recording is over.
LEMMA EncHear ==
  ASSUME TypeOK, Control, EncInv, HearSpeech \/ HearLead \/ HearTrail
  PROVE  EncInv'
<1> USE CaptureAssumption
<1>1. /\ main = "vad" /\ main' \in {"read", "disarm"} /\ got' = 0
      /\ UNCHANGED <<build, pcm, encVars, body, underrun>>
  BY DEF HearSpeech, HearLead, HearTrail, More, Goto, Capturing
<1>2. pcm \in Seq(Samples) /\ got = FrameLen /\ Len(pcm) \in Nat /\ SubSeq(pcm, 1, Len(pcm)) = pcm
  BY <1>1 DEF TypeOK, Control, Room
<1>3. PICK q \in Nat : Len(pcm) - FrameLen = q * FrameLen
  BY <1>1, <1>2 DEF EncInv, Frames, Framing
<1>4. Len(pcm') - got' = (q + 1) * FrameLen /\ q + 1 \in Nat /\ got' < FrameLen
  <2>1. Len(pcm) = (q + 1) * FrameLen
    BY <1>2, <1>3, OneMore
  <2>2. Len(pcm') - got' = Len(pcm) /\ got' < FrameLen
    BY <1>1, <1>2
  <2> QED
    BY <2>1, <2>2
<1>5. SubSeq(pcm', 1, Len(pcm') - got') = pcm
  BY <1>1, <1>2
<1>6. Frames'
  BY <1>1, <1>4 DEF EncInv, Frames, Framing, encVars
<1>7. FedWhole'
  <2>1. ~underrun' /\ (Fed' <=> Fed) /\ (Fed => Encodes(pcm) /\ feeding)
    BY <1>1 DEF EncInv, Frames, FedWhole, Framing, Fed, encVars
  <2>2. Fed' => Encodes(pcm)' /\ Encodes(SubSeq(pcm, 1, Len(pcm) - got))' /\ feeding'
    BY <1>1, <1>5, <2>1 DEF Encodes, encVars
  <2> QED
    BY <1>1, <2>1, <2>2 DEF FedWhole, Framing
<1>8. NotYet' /\ UploadedWhole'
  BY <1>1 DEF EncInv, NotYet, UploadedWhole, encVars
<1> QED
  BY <1>6, <1>7, <1>8 DEF EncInv

\* The microphone has stalled: of the last frame a part is recorded, not encoded.
LEMMA EncUnderrun ==
  ASSUME TypeOK, Control, EncInv, ReadUnderruns PROVE EncInv'
<1> USE CaptureAssumption
<1>1. /\ main = "read" /\ main' = "disarm" /\ underrun' /\ UNCHANGED <<build, pcm, got, encVars, body>>
  BY DEF ReadUnderruns, Goto, Capturing, vadVars
<1>2. Len(pcm) \in Nat /\ got \in Nat /\ got < FrameLen
  BY <1>1 DEF TypeOK, EncInv, Frames
<1>3. Len(pcm) % FrameLen = got
  <2>1. PICK q \in Nat : Len(pcm) - got = q * FrameLen
    BY <1>1 DEF EncInv, Frames, Framing
  <2>2. got \in 0 .. FrameLen - 1
    BY <1>2
  <2> QED
    BY <1>2, <2>1, <2>2, PartOfFrame
<1>4. Fed => Encodes(WholeFrames)
  BY <1>1, <1>3 DEF EncInv, FedWhole, WholeFrames
<1>5. FedWhole'
  BY <1>1, <1>4 DEF EncInv, FedWhole, Encodes, Framing, Fed, WholeFrames, encVars
<1>6. Frames' /\ NotYet' /\ UploadedWhole'
  BY <1>1 DEF EncInv, Frames, Framing, NotYet, UploadedWhole, encVars
<1> QED
  BY <1>5, <1>6 DEF EncInv

\* The ring is armed, or is not.
LEMMA EncArm ==
  ASSUME TypeOK, Control, EncInv, Arm \/ ArmFails PROVE EncInv'
<1> USE CaptureAssumption
<1>1. /\ main = "arm" /\ pcm = <<>> /\ got = 0 /\ UNCHANGED <<build, pcm, got, encVars, body, underrun>>
      /\ main' = "return" \/ main' = IF build.vad THEN "read" ELSE "record"
  BY DEF Arm, ArmFails, Goto, Capturing, vadVars, Control, Fresh
<1>2. /\ Len(pcm') - got' = 0 * FrameLen /\ got' < FrameLen
      /\ SubSeq(pcm', 1, Len(pcm') - got') = <<>>
  BY <1>1, EmptyFacts
<1>3. Frames'
  BY <1>1, <1>2 DEF EncInv, Frames, Framing, encVars
<1>4. FedWhole'
  <2>1. /\ ~underrun' /\ (Fed' <=> Fed) /\ (Fed' => feeding')
        /\ encoded' = <<>> /\ skipped' = {} /\ pcm' = <<>>
    BY <1>1 DEF EncInv, Frames, FedWhole, Framing, Fed, encVars
  <2>2. Encodes(pcm)' /\ Encodes(SubSeq(pcm, 1, Len(pcm) - got))'
    BY <1>2, <2>1, NothingEncoded DEF Encodes
  <2> QED
    BY <1>1, <2>1, <2>2 DEF FedWhole, Framing
<1>5. NotYet' /\ UploadedWhole'
  BY <1>1 DEF EncInv, NotYet, UploadedWhole, encVars
<1> QED
  BY <1>3, <1>4, <1>5 DEF EncInv

\* Every step keeps what is encoded in step with what is recorded.
LEMMA EncStep ==
  ASSUME TypeOK, Control, SoundOK, HeapIs, EncInv, [Next]_vars PROVE EncInv'
<1> USE DEF EncInv, Frames, FedWhole, Encodes, NotYet, UploadedWhole, WholeFrames, Framing, Fed
<1>1. CASE UNCHANGED vars \/ ReaderStep
  <2>1. UNCHANGED <<build, main, pcm, got, encVars, body, underrun>>
    BY <1>1 DEF vars, vadVars, ReaderStep, ReaderReads, ReaderChecks, ReaderSends, ReaderDrops, ReaderOnly
  <2> QED
    BY <2>1, EncKept
<1>2. CASE StartTurn \/ Panic
  BY <1>2 DEF StartTurn, Panic, Locals, NoBody
<1>3. CASE DelayEnds \/ AllocPcm \/ AllocFails
  BY <1>3 DEF DelayEnds, AllocPcm, AllocFails, Goto, Leave, NoAudio, vadVars, encVars
<1>4. CASE CreateEncoder \/ CreateFails
  <2>1. /\ main = "create" /\ main' = "arm" /\ skipped = {} /\ encoded = <<>> /\ ~enc
        /\ UNCHANGED <<build, pcm, got, encoded, skipped, encfailed, body, underrun>>
    BY <1>4 DEF CreateEncoder, CreateFails, Goto, NoAudio, vadVars, encVars
  <2>2. enc' /\ build.vad => feeding'
    BY <1>4, <2>1 DEF CreateEncoder, CreateFails, encVars
  <2> QED
    BY <2>1, <2>2
<1>5. CASE Record \/ RecordStops \/ Disarm \/ DeleteRing
  BY <1>5 DEF Record, RecordStops, Disarm, DeleteRing, Goto, Capturing, vadVars, encVars
<1>6. CASE Abandon \/ Captured
  BY <1>6 DEF Abandon, Captured, Goto, Leave, NoAudio, vadVars, encVars
<1>7. CASE FinalizeOpus \/ FinalizeEmpty
  <2>1. /\ main = "finalize" /\ main' \in {"post", "wrap"} /\ ~enc' /\ enc /\ body.type = "none"
        /\ UNCHANGED <<build, pcm, got, encoded, skipped, encfailed, underrun>>
    BY <1>7 DEF FinalizeOpus, FinalizeEmpty, HeapIs, Goto, NoAudio, vadVars
  <2>2. CASE FinalizeEmpty
    <3>1. main' = "wrap" /\ body' = body
      BY <2>2 DEF FinalizeEmpty, Goto
    <3> QED
      BY <2>1, <3>1
  <2>3. CASE FinalizeOpus
    <3>1. main' = "post" /\ encoded # <<>> /\ body'.type = "opus" /\ body'.audio = encoded
      BY <2>3 DEF FinalizeOpus, HasPackets, Goto
    <3>2. ~encfailed => Encodes(IF underrun THEN WholeFrames ELSE pcm)
      BY <2>1, <3>1
    <3> QED
      BY <2>1, <3>1, <3>2
  <2> QED
    BY <1>7, <2>2, <2>3
<1>8. CASE WrapWav \/ WrapFails
  BY <1>8 DEF WrapWav, WrapFails, Goto, Leave, NoAudio, vadVars, encVars
<1>9. CASE PostFails \/ PostDropped \/ PostAnswered \/ Play
  BY <1>9 DEF PostFails, PostDropped, PostAnswered, Play, Goto, Leave, NoAudio, vadVars, encVars
<1> QED
  BY <1>1, <1>2, <1>3, <1>4, <1>5, <1>6, <1>7, <1>8, <1>9, EncRead, EncEncode, EncHear, EncUnderrun, EncArm
     DEF Next, MainStep, Rest

-----------------------------------------------------------------------------
(* The theorems.                                                            *)

IInv == TypeOK /\ Control /\ SoundOK /\ HeapIs /\ EncInv

\* The inductive invariant.
LEMMA Inductive == Spec => []IInv
<1>1. Init => IInv
  BY TypesInit, SoundInit, HeapInit, EncInit DEF IInv
<1>2. IInv /\ [Next]_vars => IInv'
  BY TypesStep, SoundStep, HeapStep, EncStep DEF IInv
<1> QED
  BY <1>1, <1>2, PTL DEF Spec

\* voice_turn_execute's buffers and counters stay within their sizes: no frame is
\* read past the end of the PCM buffer, whatever pieces the ring delivers it in.
THEOREM CaptureTypes == Spec => []TypeOK
<1>1. IInv => TypeOK
  BY DEF IInv
<1> QED
  BY <1>1, Inductive, PTL

\* audio_in's headroom suffices for every chunk, frame and buffer size: a reader
\* that drops chunks never drops one that main records.
THEOREM RecordsWithoutGap == Spec => []RecordingContiguous
<1>1. IInv => RecordingContiguous
  <2> SUFFICES ASSUME IInv, NEW i \in 1 .. Len(pcm) - 1
               PROVE  pcm[i + 1] = pcm[i] + 1
    BY DEF RecordingContiguous
  <2>1. /\ Len(pcm) \in Nat /\ Len(ring) \in Nat /\ Len(pcm) <= MaxSamples
        /\ MaxSamples \in Nat
    BY CaptureAssumption DEF IInv, TypeOK
  <2>2. i \in 1 .. Len(pcm) /\ i + 1 \in 1 .. Len(pcm)
    BY <2>1
  <2>3. pcm[i] = pcm[1] + i - 1 /\ pcm[i + 1] = pcm[1] + (i + 1) - 1 /\ pcm[1] \in Int
    BY <2>1, <2>2, OneStretch DEF IInv
  <2> QED
    BY <2>1, <2>3
<1> QED
  BY <1>1, Inductive, PTL

\* The start beep is never in the utterance: the 150 ms delay outlasts what the
\* reader has in its hand.
THEOREM BeepKeptOut == Spec => []BeepNotRecorded
<1>1. IInv => BeepNotRecorded
  <2> SUFFICES ASSUME IInv, NEW i \in DOMAIN pcm PROVE pcm[i] > ChunkLen
    BY DEF BeepNotRecorded
  <2>1. Len(pcm) \in Nat /\ Len(ring) \in Nat /\ DOMAIN pcm = 1 .. Len(pcm)
    BY DEF IInv, TypeOK
  <2>2. i \in 1 .. Heard
    BY <2>1 DEF Heard
  <2>3. Sound(i) > ChunkLen
    BY <2>2 DEF IInv, SoundOK, BeepOver
  <2> QED
    BY <2>1, <2>3 DEF Sound, At
<1> QED
  BY <1>1, Inductive, PTL

\* voice_turn_execute frees what it allocated, once, on each of its ways out, and
\* leaves no capture ring behind.
THEOREM NothingLeaks == Spec => []HeapClean
<1>1. IInv => HeapClean
  BY DEF IInv, Control, RingWhile, Recording, HeapIs, HeapClean
<1> QED
  BY <1>1, Inductive, PTL

\* What is uploaded is what was recorded: no interleaving of the encoder, the VAD and the
\* reader's chunks makes the Opus body repeat or reorder a frame, or lose another than
\* those opus_stream_encode_frame skips.
THEOREM UploadsAll == Spec => []UploadedWhole
<1>1. IInv => UploadedWhole
  BY DEF IInv, EncInv
<1> QED
  BY <1>1, Inductive, PTL
=============================================================================
