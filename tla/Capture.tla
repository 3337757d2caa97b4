------------------------------ MODULE Capture ------------------------------
(***************************************************************************)
(* The first half of a voice turn: voice_turn_execute from the start beep  *)
(* to the server's answer.  Two tasks interleave:                          *)
(*   main    records through audio_in's capture ring, feeds the Opus       *)
(*           encoder while it records, uploads, and frees all it allocated *)
(*   reader  audio_in's reader task, which pushes what the microphone      *)
(*           delivers into the ring while it is armed                      *)
(* A sample is its number in the turn, counted from the end of the beep;   *)
(* whether a frame is speech is left open.                                 *)
(***************************************************************************)
EXTENDS Naturals, Sequences

CONSTANTS
  MaxSamples,  (* MAX_RECORD_SAMPLES                                       *)
  FrameLen,    (* frame_samples: one 20 ms frame                           *)
  ChunkLen,    (* READ_CHUNK_SAMPLES: what the reader takes at a time      *)
  MaxLead,     (* max_lead_frames                                          *)
  Hangover,    (* hangover_frames                                          *)
  MinUtter,    (* min_utter_frames                                         *)
  MaxTurns,    (* Bound: turns.                                            *)
  MaxMic       (* Bound: samples per turn the microphone delivers.         *)

\* The start beep is followed by a delay of 150 ms, more than two chunks of 64.
DelayLen == 2 * ChunkLen

ASSUME CaptureAssumption ==
  /\ FrameLen \in Nat \ {0} /\ ChunkLen \in Nat \ {0}
  /\ MaxSamples \in Nat /\ MaxSamples >= FrameLen
  /\ MaxSamples \div 4 + 1 >= ChunkLen  \* 60000 samples of headroom, 1024 a chunk
  /\ MaxLead \in Nat \ {0} /\ Hangover \in Nat \ {0} /\ MinUtter \in Nat \ {0}
  /\ MaxTurns \in Nat
  /\ MaxMic \in Nat /\ MaxMic >= DelayLen

\* Mutant: the ring has no headroom.
RingCapExact == MaxSamples

\* audio_in_capture_arm adds a quarter.
RingCap == MaxSamples + MaxSamples \div 4

VARIABLES
  build,     (* CONFIG_DWU_VAD_ENABLED and CONFIG_DWU_ENCODE_OPUS          *)
  main,      (* where voice_turn_execute stands                            *)
  turns,     (* turns begun                                                *)
  reader,    (* where reader_task_fn stands                                *)
  mic,       (* samples the reader has taken from I2S in this turn         *)
  armed,     (* capture_armed                                              *)
  alloc,     (* capture_ring # NULL                                        *)
  ring,      (* contents of the capture ring                               *)
  pcm,       (* the utterance so far                                       *)
  got,       (* samples of the current frame, or of the bulk read          *)
  lead, speech, trail, (* the VAD's counters of frames                     *)
  enc,       (* voice_turn_execute's enc # NULL                            *)
  feeding,   (* _capture_utterance's enc # NULL                            *)
  encoded,   (* the audio in the encoder's buffer of packets               *)
  result,    (* what _capture_utterance returns                            *)
  body,      (* what is uploaded: its content type and the audio in it     *)
  heap,      (* blocks main has allocated                                  *)
  corrupt,   (* history: a block was freed that was not allocated          *)
  underrun,  (* history: a read waited 300 ms in vain in this turn         *)
  encfailed, (* history: the encoder failed in this turn                   *)
  skipped,   (* history: samples of the frames it made no packet of        *)
  outcome    (* how the last turn ended                                    *)

micVars  == <<reader, mic>>
ringVars == <<armed, alloc, ring>>
vadVars  == <<pcm, got, lead, speech, trail>>
encVars  == <<enc, feeding, encoded, encfailed, skipped>>
heapVars == <<heap, corrupt>>
vars == <<build, main, turns, micVars, ringVars, vadVars, encVars, result, body,
          heapVars, underrun, outcome>>

Samples == 1 .. MaxMic
Blocks  == {"pcm", "enc", "encbuf", "body", "resp"}
NoBody  == [type |-> "none", audio |-> <<>>]

TypeOK ==
  /\ build \in [vad : BOOLEAN, opus : BOOLEAN]
  /\ main \in {"idle", "delay", "alloc", "create", "arm", "read", "encode", "vad",
               "record", "disarm", "delete", "return", "finalize", "wrap", "post", "play"}
  /\ turns \in 0 .. MaxTurns
  /\ reader \in {"read", "check", "send"} /\ mic \in 0 .. MaxMic
  /\ armed \in BOOLEAN /\ alloc \in BOOLEAN
  /\ ring \in Seq(Samples) /\ Len(ring) <= RingCap
  /\ pcm \in Seq(Samples) /\ Len(pcm) <= MaxSamples
  /\ got \in 0 .. MaxSamples
  /\ lead \in 0 .. MaxLead /\ speech \in Nat /\ trail \in 0 .. Hangover
  /\ enc \in BOOLEAN /\ feeding \in BOOLEAN
  /\ encoded \in Seq(Samples) /\ skipped \subseteq Samples
  /\ result \in {"ok", "timeout", "fail"}
  /\ body \in [type : {"none", "wav", "opus"}, audio : Seq(Samples)]
  /\ heap \subseteq Blocks /\ corrupt \in BOOLEAN
  /\ underrun \in BOOLEAN /\ encfailed \in BOOLEAN
  /\ outcome \in {"none", "quiet", "error", "played", "two-phase", "panic"}

Init ==
  /\ build \in [vad : BOOLEAN, opus : BOOLEAN]
  /\ main = "idle" /\ turns = 0 /\ outcome = "none"
  /\ reader = "read" /\ mic = 0
  /\ armed = FALSE /\ alloc = FALSE /\ ring = <<>>
  /\ pcm = <<>> /\ got = 0 /\ lead = 0 /\ speech = 0 /\ trail = 0
  /\ enc = FALSE /\ feeding = FALSE /\ encoded = <<>> /\ skipped = {}
  /\ result = "ok" /\ body = NoBody
  /\ heap = {} /\ corrupt = FALSE
  /\ underrun = FALSE /\ encfailed = FALSE

-----------------------------------------------------------------------------
(* Ownership.                                                               *)

\* Free what is in `gone`, then hold what is in `new`.
Own(new, gone) ==
  /\ heap' = (heap \ gone) \cup new
  /\ corrupt' = (corrupt \/ ~(gone \subseteq heap))

\* opus_stream_destroy frees the buffer unless finalize gave it away.
Encoder(held) == IF held THEN {"enc", "encbuf"} ELSE {}

Goto(here, there) == main = here /\ main' = there /\ UNCHANGED <<build, turns>>

\* voice_turn_execute returns.
Leave(here, how) == Goto(here, "idle") /\ outcome' = how

\* The locals a turn starts with, and the history of the turn.
Locals ==
  /\ mic' = 0 /\ pcm' = <<>> /\ got' = 0 /\ lead' = 0 /\ speech' = 0 /\ trail' = 0
  /\ enc' = FALSE /\ feeding' = FALSE /\ encoded' = <<>> /\ skipped' = {}
  /\ result' = "ok" /\ body' = NoBody
  /\ underrun' = FALSE /\ encfailed' = FALSE

-----------------------------------------------------------------------------
(* reader: reader_task_fn.                                                  *)

ReaderOnly ==
  UNCHANGED <<build, main, turns, armed, alloc, vadVars, encVars, result, body,
              heapVars, underrun, outcome>>

\* i2s_channel_read; the wake ring's send never waits.
ReaderReads ==
  /\ main # "idle" /\ reader = "read" /\ mic + ChunkLen <= MaxMic
  /\ mic' = mic + ChunkLen /\ reader' = "check"
  /\ ReaderOnly /\ UNCHANGED ring

ReaderChecks ==
  /\ reader = "check"
  /\ reader' = IF armed /\ alloc THEN "send" ELSE "read"
  /\ ReaderOnly /\ UNCHANGED <<mic, ring>>

ReaderChunk == [i \in 1 .. ChunkLen |-> mic - ChunkLen + i]
Fits == Len(ring) + ChunkLen <= RingCap

ReaderSends ==
  /\ reader = "send" /\ alloc /\ Fits /\ reader' = "read"
  /\ ring' = ring \o ReaderChunk
  /\ ReaderOnly /\ UNCHANGED mic

\* The send's 50 ms pass with the ring full; its result is not looked at.
ReaderDrops ==
  /\ reader = "send" /\ alloc /\ ~Fits /\ reader' = "read"
  /\ ReaderOnly /\ UNCHANGED <<mic, ring>>

\* The ring was deleted between the check and the send.
Panic ==
  /\ reader = "send" /\ ~alloc
  /\ main' = "idle" /\ outcome' = "panic"
  /\ reader' = "read" /\ armed' = FALSE /\ ring' = <<>> /\ heap' = {} /\ Locals
  /\ UNCHANGED <<build, turns, alloc, corrupt>>

-----------------------------------------------------------------------------
(* main: voice_turn_execute up to the recording.                            *)

\* The beep is over.  Whatever the reader did in the last turn, seconds ago, it
\* has finished.
StartTurn ==
  /\ main = "idle" /\ turns < MaxTurns /\ reader = "read"
  /\ main' = "delay" /\ turns' = turns + 1 /\ Locals
  /\ UNCHANGED <<build, reader, ringVars, heapVars, outcome>>

\* Mutant: recording starts right after the beep.
DelaySkipped ==
  /\ Goto("delay", "alloc")
  /\ UNCHANGED <<micVars, ringVars, vadVars, encVars, result, body, heapVars,
                 underrun, outcome>>

DelayEnds ==
  /\ Goto("delay", "alloc") /\ mic >= DelayLen
  /\ UNCHANGED <<micVars, ringVars, vadVars, encVars, result, body, heapVars,
                 underrun, outcome>>

NoAudio == UNCHANGED <<micVars, ringVars, vadVars, underrun>>

AllocPcm ==
  /\ Goto("alloc", IF build.opus THEN "create" ELSE "arm") /\ Own({"pcm"}, {})
  /\ NoAudio /\ UNCHANGED <<encVars, result, body, outcome>>
AllocFails ==
  /\ Leave("alloc", "error")
  /\ NoAudio /\ UNCHANGED <<encVars, result, body, heapVars>>

CreateEncoder ==
  /\ Goto("create", "arm") /\ Own(Encoder(TRUE), {})
  /\ enc' = TRUE /\ feeding' = build.vad
  /\ NoAudio /\ UNCHANGED <<encoded, encfailed, skipped, result, body, outcome>>
\* opus_stream_create frees what it had; the turn goes on with WAV.
CreateFails ==
  /\ Goto("create", "arm")
  /\ NoAudio /\ UNCHANGED <<encVars, result, body, heapVars, outcome>>

-----------------------------------------------------------------------------
(* main: _capture_utterance, and audio_in_record without VAD.               *)

Capturing == UNCHANGED <<micVars, result, body, heapVars, outcome>>

Arm ==
  /\ Goto("arm", IF build.vad THEN "read" ELSE "record")
  /\ ~alloc /\ alloc' = TRUE /\ armed' = TRUE /\ ring' = <<>>
  /\ Capturing /\ UNCHANGED <<vadVars, encVars, underrun>>
ArmFails ==
  /\ Goto("arm", "return") /\ result' = "fail"
  /\ UNCHANGED <<micVars, body, heapVars, outcome>>
  /\ UNCHANGED <<ringVars, vadVars, encVars, underrun>>

\* ring_drain: as much as there is, up to what is wanted.
Drain(want) ==
  LET n == IF Len(ring) < want THEN Len(ring) ELSE want IN
  /\ n > 0
  /\ pcm' = pcm \o SubSeq(ring, 1, n)
  /\ ring' = SubSeq(ring, n + 1, Len(ring))
  /\ got' = got + n

\* audio_in_capture_read, until the frame is complete ...
ReadFrame ==
  /\ Drain(FrameLen - got) /\ UNCHANGED <<armed, alloc, lead, speech, trail>>
  /\ Goto("read", IF got' = FrameLen THEN "encode" ELSE "read")
  /\ Capturing /\ UNCHANGED <<encVars, underrun>>
\* Mutant: the timeout is heeded only in the middle of a frame.
UnderrunMidFrame ==
  /\ Goto("read", "disarm") /\ got > 0 /\ ring = <<>> /\ reader = "read"
  /\ underrun' = TRUE
  /\ Capturing /\ UNCHANGED <<ringVars, vadVars, encVars>>

\* ... or nothing has come for 300 ms: what came of the frame is kept.
ReadUnderruns ==
  /\ Goto("read", "disarm") /\ ring = <<>> /\ reader = "read" /\ underrun' = TRUE
  /\ Capturing /\ UNCHANGED <<ringVars, vadVars, encVars>>

\* The samples in a stretch of audio.
Sounds(audio) == {audio[i] : i \in DOMAIN audio}

\* Mutant: the encoder is given the start of the buffer, not the new frame.
FirstFrame == SubSeq(pcm, 1, FrameLen)

Frame == SubSeq(pcm, Len(pcm) - FrameLen + 1, Len(pcm))

EncodeFrame ==
  /\ Goto("encode", "vad") /\ feeding
  /\ encoded' = encoded \o Frame
  /\ Capturing
  /\ UNCHANGED <<ringVars, vadVars, enc, feeding, encfailed, skipped, underrun>>
\* DTX: a packet of two bytes or less is not stored, which is no error.
EncodeDtx ==
  /\ Goto("encode", "vad") /\ feeding
  /\ skipped' = skipped \cup Sounds(Frame)
  /\ Capturing
  /\ UNCHANGED <<ringVars, vadVars, enc, feeding, encoded, encfailed, underrun>>
\* opus_encode or grow_buf fails: _capture_utterance forgets its copy of enc.
EncodeFails ==
  /\ Goto("encode", "vad") /\ feeding
  /\ feeding' = FALSE /\ encfailed' = TRUE
  /\ Capturing /\ UNCHANGED <<ringVars, vadVars, enc, encoded, skipped, underrun>>
NotEncoded ==
  /\ Goto("encode", "vad") /\ ~feeding
  /\ Capturing /\ UNCHANGED <<ringVars, vadVars, encVars, underrun>>

\* Mutant: the loop asks for any room, not for room for a frame.
MoreUntilFull == IF Len(pcm) < MaxSamples THEN "read" ELSE "disarm"

More == IF Len(pcm) + FrameLen <= MaxSamples THEN "read" ELSE "disarm"

HearSpeech ==
  /\ Goto("vad", More) /\ speech' = speech + 1 /\ trail' = 0 /\ got' = 0
  /\ Capturing /\ UNCHANGED <<ringVars, pcm, lead, encVars, underrun>>
HearLead ==
  /\ speech = 0 /\ lead' = lead + 1 /\ got' = 0
  /\ IF lead' >= MaxLead
     THEN Goto("vad", "disarm") /\ result' = "timeout"
     ELSE Goto("vad", More) /\ UNCHANGED result
  /\ UNCHANGED <<micVars, body, heapVars, outcome>>
  /\ UNCHANGED <<ringVars, pcm, speech, trail, encVars, underrun>>
HearTrail ==
  /\ speech > 0 /\ trail' = trail + 1 /\ got' = 0
  /\ Goto("vad", IF trail' >= Hangover THEN "disarm" ELSE More)
  /\ Capturing /\ UNCHANGED <<ringVars, pcm, lead, speech, encVars, underrun>>

\* audio_in_record takes the samples as they come, until it has them all ...
Record ==
  /\ Drain(MaxSamples - got) /\ UNCHANGED <<armed, alloc, lead, speech, trail>>
  /\ Goto("record", IF got' = MaxSamples THEN "disarm" ELSE "record")
  /\ Capturing /\ UNCHANGED <<encVars, underrun>>
\* ... or its deadline passes.
RecordStops ==
  /\ Goto("record", "disarm") /\ underrun' = TRUE
  /\ Capturing /\ UNCHANGED <<ringVars, vadVars, encVars>>

\* audio_in_capture_disarm: first the flag, then the ring.
Disarm ==
  /\ Goto("disarm", "delete") /\ armed' = FALSE
  /\ Capturing /\ UNCHANGED <<alloc, ring, vadVars, encVars, underrun>>

Enough == IF build.vad THEN speech >= MinUtter ELSE pcm # <<>>

DeleteRing ==
  /\ Goto("delete", "return") /\ alloc' = FALSE /\ ring' = <<>>
  /\ result' = IF result = "ok" /\ ~Enough THEN "fail" ELSE result
  /\ UNCHANGED <<armed, micVars, body, heapVars, outcome>>
  /\ UNCHANGED <<vadVars, encVars, underrun>>

-----------------------------------------------------------------------------
(* main: from the recording to the answer.                                  *)

\* No speech: a quiet return.  Too little, or no ring: an error.
Abandon ==
  /\ result # "ok" /\ Leave("return", IF result = "timeout" THEN "quiet" ELSE "error")
  /\ Own({}, Encoder(enc) \cup {"pcm"}) /\ enc' = FALSE
  /\ NoAudio /\ UNCHANGED <<feeding, encoded, encfailed, skipped, result, body>>
Captured ==
  /\ result = "ok" /\ Goto("return", IF enc THEN "finalize" ELSE "wrap")
  /\ NoAudio /\ UNCHANGED <<encVars, result, body, heapVars, outcome>>

\* buf_used, as far as voice_turn_execute looks at it.
HasPackets == encoded # <<>>

\* Mutant: the empty buffer that finalize handed over is not freed.
FinalizeLeaks ==
  /\ Goto("finalize", "wrap") /\ ~HasPackets
  /\ enc' = FALSE /\ Own({"body"}, Encoder(TRUE))
  /\ NoAudio /\ UNCHANGED <<feeding, encoded, encfailed, skipped, result, body, outcome>>

\* opus_stream_finalize hands over the buffer, whatever became of the encoding;
\* the rest of the encoder is destroyed.
FinalizeOpus ==
  /\ Goto("finalize", "post") /\ HasPackets
  /\ enc' = FALSE /\ Own({"body"}, Encoder(TRUE) \cup {"pcm"})
  /\ body' = [type |-> "opus", audio |-> encoded]
  /\ NoAudio /\ UNCHANGED <<feeding, encoded, encfailed, skipped, result, outcome>>
FinalizeEmpty ==
  /\ Goto("finalize", "wrap") /\ ~HasPackets
  /\ enc' = FALSE /\ Own({}, Encoder(TRUE))
  /\ NoAudio /\ UNCHANGED <<feeding, encoded, encfailed, skipped, result, body, outcome>>

WrapWav ==
  /\ Goto("wrap", "post") /\ Own({"body"}, {"pcm"})
  /\ body' = [type |-> "wav", audio |-> pcm]
  /\ NoAudio /\ UNCHANGED <<encVars, result, outcome>>
WrapFails ==
  /\ Leave("wrap", "error") /\ Own({}, {"pcm"})
  /\ NoAudio /\ UNCHANGED <<encVars, result, body>>

\* http_post_voice_turn keeps the response only for a 200.
PostFails ==
  /\ Leave("post", "error") /\ Own({}, {"body"})
  /\ NoAudio /\ UNCHANGED <<encVars, result, body>>
PostDropped ==
  /\ Leave("post", "quiet") /\ Own({}, {"body"})
  /\ NoAudio /\ UNCHANGED <<encVars, result, body>>
PostAnswered ==
  /\ Goto("post", "play") /\ Own({"resp"}, {"body"})
  /\ NoAudio /\ UNCHANGED <<encVars, result, body, outcome>>

\* The answer, or the acknowledgement of a two-phase turn (module TtsTurn), is
\* played and freed whether that worked or not.
Play ==
  /\ \E how \in {"played", "two-phase", "error"} : Leave("play", how)
  /\ Own({}, {"resp"})
  /\ NoAudio /\ UNCHANGED <<encVars, result, body>>

-----------------------------------------------------------------------------
ReaderStep == ReaderReads \/ ReaderChecks \/ ReaderSends \/ ReaderDrops

MainStep ==
  \/ DelayEnds \/ AllocPcm \/ AllocFails \/ CreateEncoder \/ CreateFails
  \/ Arm \/ ArmFails \/ ReadFrame \/ ReadUnderruns
  \/ EncodeFrame \/ EncodeDtx \/ EncodeFails \/ NotEncoded
  \/ HearSpeech \/ HearLead \/ HearTrail \/ Record \/ RecordStops
  \/ Disarm \/ DeleteRing \/ Abandon \/ Captured
  \/ FinalizeOpus \/ FinalizeEmpty \/ WrapWav \/ WrapFails
  \/ PostFails \/ PostDropped \/ PostAnswered \/ Play

\* Bound: after MaxTurns turns the unit only listens.
Rest == main = "idle" /\ turns = MaxTurns /\ UNCHANGED vars

Next == Rest \/ StartTurn \/ MainStep \/ ReaderStep \/ Panic

Spec == Init /\ [][Next]_vars

\* FreeRTOS runs both tasks and every wait of main has a timeout.
FairSpec == Spec /\ WF_vars(MainStep) /\ WF_vars(ReaderStep) /\ WF_vars(Panic)

-----------------------------------------------------------------------------
(* Properties.                                                              *)

\* The utterance is one stretch of sound: no sample is missing, repeated or out
\* of order between two that were recorded, however far main falls behind.  The
\* reader does drop chunks, without looking, when the ring stays full; but by then
\* the headroom of a quarter holds all that main will still take.
RecordingContiguous == \A i \in 1 .. Len(pcm) - 1 : pcm[i + 1] = pcm[i] + 1

\* The unit does not record its own start beep: a chunk that began under the beep
\* has passed the reader before the ring is armed.
BeepNotRecorded == \A i \in DOMAIN pcm : pcm[i] > ChunkLen

\* What was recorded, without the frame a stalled reader left incomplete.
WholeFrames == SubSeq(pcm, 1, Len(pcm) - (Len(pcm) % FrameLen))

\* No sample twice, none before an earlier one.
Ascending(audio) == \A i, j \in DOMAIN audio : i < j => audio[i] < audio[j]

\* What is uploaded is what was recorded.  A WAV is the whole utterance.  An Opus
\* body, unless the encoder failed, holds each recorded sample once and in order,
\* but for the frames of which the encoder made no packet (DTX) and the part of a
\* frame a stalled reader left.
UploadedWhole ==
  /\ body.type = "wav" => body.audio = pcm
  /\ body.type = "opus" /\ ~encfailed =>
       /\ Ascending(body.audio)
       /\ Sounds(body.audio) = Sounds(IF underrun THEN WholeFrames ELSE pcm) \ skipped

\* Every block voice_turn_execute allocates is freed once on each of its ways
\* out, and the capture ring is deleted.
HeapClean == ~corrupt /\ (main = "idle" => heap = {} /\ ~alloc)

\* Recording and upload end: silence, the cap, a stalled microphone or an error
\* brings every turn back.
TurnReturns == main # "idle" ~> main = "idle"

-----------------------------------------------------------------------------
(* What the documentation says, and the code does not do.                   *)

\* voice_turn.c: if the encoder "errored out mid-capture and we stopped feeding",
\* the turn falls "through to WAV".
FallsBackToWav == encfailed /\ body.type # "none" => body.type = "wav"
=============================================================================
