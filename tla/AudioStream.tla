---------------------------- MODULE AudioStream ----------------------------
(***************************************************************************)
(* The streaming session of components/audio_out/audio_out.c: a ring of    *)
(* PCM in SPIRAM, a producer that pushes into it (the ws_client task), a   *)
(* writer task that drains it into I2S1, and the begin / push / activate / *)
(* end calls that create and destroy both.  Every step below is a stretch  *)
(* of code during which no other task can observe an intermediate value    *)
(* that matters; calls that block are split where they block.              *)
(*                                                                         *)
(* The data is abstracted to whole chunks: a chunk is one tts_chunk frame  *)
(* (1280 bytes, 40 ms), and RingCap is the ring's size in chunks.  Time is *)
(* abstracted to the number of chunks the amplifier can play meanwhile.    *)
(***************************************************************************)
EXTENDS Naturals, Sequences

CONSTANTS
  MaxTurn,     (* Bound: how many two-phase turns the unit runs.           *)
  NChunks,     (* Chunks in one reply.                                     *)
  RingCap,     (* CONFIG_DWU_TTS_RING_KB, in chunks.                       *)
  ShortDrain,  (* What the writer plays in 100..500 ms, in chunks.         *)
  LongDrain    (* What the writer plays in 15000 ms, in chunks.            *)

\* 128 KB of 16 kHz mono int16 is 4 s, so a 15 s drain outlasts a full ring
\* and the chunk the writer already holds; 100 ms is time to play two chunks.
ASSUME StreamAssumption ==
  /\ MaxTurn \in Nat /\ NChunks \in Nat
  /\ RingCap \in Nat \ {0} /\ ShortDrain \in Nat \ {0}
  /\ LongDrain \in Nat /\ LongDrain > RingCap + 1

Turn  == 1 .. MaxTurn
Chunk == [turn : Turn, seq : 1 .. NChunks]
NoChunk == [turn |-> 0, seq |-> 0]

\* The two tasks that call audio_out_stream_end: voice_turn and the ws task.
Caller == {"main", "ws"}

VARIABLES
  active,    (* s_stream_active                                            *)
  draining,  (* s_stream_draining                                          *)
  stop,      (* s_stream_stop_request                                      *)
  alloc,     (* s_stream # NULL                                            *)
  ring,      (* contents of the stream buffer                              *)
  drained,   (* s_drain_done has been given                                *)
  writer,    (* where _writer_task stands; "none" before and after it runs *)
  hand,      (* the chunk the writer has received and not yet written      *)
  i2s,       (* who holds tx_chan                                          *)
  ending,    (* where each caller stands inside stream_end                 *)
  left,      (* chunks that still fit in each caller's drain timeout       *)
  spoken     (* history: every chunk the amplifier has played              *)

streamVars == <<active, draining, stop, alloc, ring, drained, writer, hand,
                i2s, ending, left, spoken>>

StreamTypeOK ==
  /\ active \in BOOLEAN /\ draining \in BOOLEAN /\ stop \in BOOLEAN
  /\ alloc \in BOOLEAN /\ drained \in BOOLEAN
  /\ ring \in Seq(Chunk) /\ spoken \in Seq(Chunk)
  /\ writer \in {"none", "start", "recv", "write"}
  /\ hand \in Chunk \cup {NoChunk}
  /\ i2s \in {"free", "wav", "stream"}
  /\ ending \in [Caller -> {"no", "drain", "i2s", "unpublish", "free"}]
  /\ left \in [Caller -> Nat]

StreamInit ==
  /\ active = FALSE /\ draining = FALSE /\ stop = FALSE /\ alloc = FALSE
  /\ ring = <<>> /\ drained = FALSE /\ writer = "none" /\ hand = NoChunk
  /\ i2s = "free" /\ ending = [c \in Caller |-> "no"]
  /\ left = [c \in Caller |-> 0] /\ spoken = <<>>

-----------------------------------------------------------------------------
(* begin and push: the producer's calls.                                   *)

\* audio_out_stream_begin past its checks: the ring exists, I2S is untouched.
Begin ==
  /\ ~active
  /\ active' = TRUE /\ alloc' = TRUE /\ ring' = <<>> /\ drained' = FALSE
  /\ stop' = FALSE /\ draining' = FALSE
  /\ UNCHANGED <<writer, hand, i2s, ending, left, spoken>>

\* The check stream_push makes before it touches the ring.
PushOpen == active /\ alloc

\* xStreamBufferSend with room for the chunk.
PushFits(c) ==
  /\ alloc /\ Len(ring) < RingCap
  /\ ring' = Append(ring, c)
  /\ UNCHANGED <<active, draining, stop, alloc, drained, writer, hand, i2s,
                 ending, left, spoken>>

\* The 500 ms send timeout expires only while nobody drains the ring, before
\* activation, after the writer's end or once I2S is gone: a writer at work on
\* an open channel frees a chunk every 40 ms.
PushTimesOut ==
  /\ alloc /\ Len(ring) >= RingCap /\ (writer = "none" \/ ~draining)
  /\ UNCHANGED streamVars

-----------------------------------------------------------------------------
(* activate and the writer task.                                           *)

CanActivate == active /\ ~draining /\ i2s = "free"

\* audio_out_stream_activate: audio_out_init, draining, the writer task.  A writer
\* that has outlived its own session would go on, and stand for both.
Activate ==
  /\ CanActivate
  /\ i2s' = "stream" /\ draining' = TRUE
  /\ writer' = IF writer = "none" THEN "start" ELSE writer
  /\ UNCHANGED <<active, stop, alloc, ring, drained, hand, ending, left, spoken>>

\* _writer_task has its silence and scratch buffers ...
WriterRuns ==
  /\ writer = "start" /\ alloc /\ writer' = "recv"
  /\ UNCHANGED <<active, draining, stop, alloc, ring, drained, hand, i2s, ending,
                 left, spoken>>

\* ... or cannot get them: it gives the semaphore and is gone, nothing played.
WriterDies ==
  /\ writer = "start" /\ alloc
  /\ writer' = "none" /\ drained' = TRUE
  /\ UNCHANGED <<active, draining, stop, alloc, ring, hand, i2s, ending, left, spoken>>

\* xStreamBufferReceive returns data.
WriterReceives ==
  /\ writer = "recv" /\ alloc /\ ring # <<>>
  /\ hand' = Head(ring) /\ ring' = Tail(ring) /\ writer' = "write"
  /\ UNCHANGED <<active, draining, stop, alloc, drained, i2s, ending, left, spoken>>

\* i2s_channel_write plays the chunk: 40 ms of every running drain timeout.
WriterPlays ==
  /\ writer = "write" /\ i2s = "stream"
  /\ spoken' = Append(spoken, hand)
  /\ hand' = NoChunk /\ writer' = "recv"
  /\ left' = [c \in Caller |-> IF left[c] > 0 THEN left[c] - 1 ELSE 0]
  /\ UNCHANGED <<active, draining, stop, alloc, ring, drained, i2s, ending>>

\* Mutant: the writer exits on the stop request alone.
WriterExitsEarly == stop

\* Receive timed out on an empty ring and a stop is requested.
WriterMayExit == stop /\ ring = <<>>

WriterExits ==
  /\ writer = "recv" /\ alloc /\ WriterMayExit
  /\ writer' = "none" /\ drained' = TRUE
  /\ UNCHANGED <<active, draining, stop, alloc, ring, hand, i2s, ending, left, spoken>>

\* The writer touches a ring, a semaphore or a channel that stream_end has
\* destroyed.
WriterFaults == writer # "none" /\ ~alloc

-----------------------------------------------------------------------------
(* audio_out_stream_end, one step per stretch between its blocking calls.  *)

\* The stop request, and the choice to wait for the writer or not.
EndEnter(c, budget) ==
  /\ active /\ ending[c] = "no"
  /\ stop' = TRUE
  /\ ending' = [ending EXCEPT ![c] = IF draining THEN "drain" ELSE "unpublish"]
  /\ left' = [left EXCEPT ![c] = budget]
  /\ UNCHANGED <<active, draining, alloc, ring, drained, writer, hand, i2s, spoken>>

\* xSemaphoreTake(s_drain_done) succeeds.
EndDrained(c) ==
  /\ ending[c] = "drain" /\ drained
  /\ drained' = FALSE /\ ending' = [ending EXCEPT ![c] = "i2s"]
  /\ UNCHANGED <<active, draining, stop, alloc, ring, writer, hand, i2s, left, spoken>>

\* ... or times out, and teardown goes on: the writer is still at work, the other
\* caller has taken the semaphore, or a begin has taken back the stop request and
\* the writer pads silence.
EndTimesOut(c) ==
  /\ ending[c] = "drain" /\ ~drained
  /\ left[c] = 0 \/ writer = "none" \/ (~stop /\ ring = <<>>)
  /\ ending' = [ending EXCEPT ![c] = "i2s"]
  /\ UNCHANGED <<active, draining, stop, alloc, ring, drained, writer, hand,
                 i2s, left, spoken>>

\* mute, deinit, s_stream_draining = false.
EndReleasesI2s(c) ==
  /\ ending[c] = "i2s"
  /\ i2s' = "free" /\ draining' = FALSE
  /\ ending' = [ending EXCEPT ![c] = "unpublish"]
  /\ UNCHANGED <<active, stop, alloc, ring, drained, writer, hand, left, spoken>>

EndUnpublishes(c) ==
  /\ ending[c] = "unpublish"
  /\ active' = FALSE
  /\ ending' = [ending EXCEPT ![c] = "free"]
  /\ UNCHANGED <<draining, stop, alloc, ring, drained, writer, hand, i2s, left, spoken>>

\* The stream buffer, its storage and the semaphore are deleted.
EndFrees(c) ==
  /\ ending[c] = "free"
  /\ alloc' = FALSE /\ ring' = <<>> /\ drained' = FALSE
  /\ ending' = [ending EXCEPT ![c] = "no"] /\ left' = [left EXCEPT ![c] = 0]
  /\ UNCHANGED <<active, draining, stop, writer, hand, i2s, spoken>>

-----------------------------------------------------------------------------
(* play_wav's use of the peripheral, and a restart of the unit.            *)

WavTakesI2s ==
  /\ i2s = "free" /\ i2s' = "wav"
  /\ UNCHANGED <<active, draining, stop, alloc, ring, drained, writer, hand,
                 ending, left, spoken>>

WavReleasesI2s ==
  /\ i2s' = "free"
  /\ UNCHANGED <<active, draining, stop, alloc, ring, drained, writer, hand,
                 ending, left, spoken>>

\* A panic resets the chip: everything but the sound already made is RAM.
StreamReset ==
  /\ active' = FALSE /\ draining' = FALSE /\ stop' = FALSE /\ alloc' = FALSE
  /\ ring' = <<>> /\ drained' = FALSE /\ writer' = "none" /\ hand' = NoChunk
  /\ i2s' = "free" /\ ending' = [c \in Caller |-> "no"]
  /\ left' = [c \in Caller |-> 0] /\ UNCHANGED spoken

\* The steps audio_out takes on its own, once called.
StreamStep ==
  \/ WriterRuns \/ WriterReceives \/ WriterPlays \/ WriterExits
  \/ \E c \in Caller : \/ EndDrained(c) \/ EndTimesOut(c) \/ EndReleasesI2s(c)
                       \/ EndUnpublishes(c) \/ EndFrees(c)
=============================================================================
