------------------------------ MODULE TtsTurn ------------------------------
(***************************************************************************)
(* The two-phase voice turn: voice_turn.c plays the acknowledgement while  *)
(* the server streams the real answer over the WebSocket, then drains the  *)
(* stream or falls back to GET /voice_result.  Three tasks interleave:     *)
(*   main    voice_turn_execute, from the POST's answer to its return      *)
(*   ws      ws_client's event handler and the _tts_stream_handler it calls*)
(*   writer  audio_out's writer task (module AudioStream)                  *)
(* and the server, whose frames arrive in order or are cut off by a lost   *)
(* connection.                                                             *)
(***************************************************************************)
EXTENDS AudioStream

CONSTANTS
  NetCap,   (* Bound: frames in flight on the WebSocket.                   *)
  MaxDrops  (* Bound: how many times the connection is lost.               *)

ASSUME TurnAssumption == NetCap \in Nat \ {0} /\ MaxDrops \in Nat

Frame == [kind : {"start", "end"}, turn : Turn, seq : {0}]
         \cup [kind : {"chunk"}, turn : Turn, seq : 1 .. NChunks]

VARIABLES
  main,       (* where voice_turn_execute stands                           *)
  turn,       (* the turn whose pending_id main holds                      *)
  activated,  (* main's local of that name                                 *)
  got,        (* whether ws_client_wait_tts_end returned ESP_OK            *)
  expect,     (* s_expect_tts_request_id, 0 when empty                     *)
  ttsEnd,     (* BIT_TTS_END                                               *)
  ws,         (* where the ws task stands                                  *)
  frame,      (* the frame the ws task is handling                         *)
  net,        (* frames between the server and the ws task                 *)
  server,     (* per turn: the state of _slow_background                   *)
  sent,       (* per turn: chunks the server has sent                      *)
  drops,      (* connections lost so far                                   *)
  outcome,    (* history: how each turn ended                              *)
  short,      (* history: turns one of whose chunks found no room          *)
  owner,      (* history: the turn whose tts_start began the session       *)
  foreign,    (* history: turns that activated another turn's session      *)
  silent      (* history: turns whose writer task got no memory            *)

turnVars == <<turn, activated, got, outcome, foreign, silent>>
gateVars == <<expect, ttsEnd>>
wsVars   == <<ws, frame, short, owner>>
netVars  == <<net, server, sent, drops>>
vars     == <<streamVars, main, turnVars, gateVars, wsVars, netVars>>

NoFrame == [kind |-> "none", turn |-> 0, seq |-> 0]

MainAt ==
  {"idle", "expect", "clear", "ack", "ackplay", "ackfail", "ackend", "check",
   "activate", "actfail", "actend", "wait", "unexpect", "late", "lateactivate",
   "end", "okend", "fallback", "fbcheck", "fbend", "get", "fetched", "wavplay"}

TurnTypeOK ==
  /\ main \in MainAt
  /\ turn \in 0 .. MaxTurn /\ expect \in 0 .. MaxTurn
  /\ activated \in BOOLEAN /\ got \in BOOLEAN /\ ttsEnd \in BOOLEAN
  /\ ws \in {"idle", "gate", "matched", "resetting", "begin", "send",
           "blocked"}
  /\ frame \in Frame \cup {NoFrame}
  /\ net \in Seq(Frame)
  /\ server \in [Turn -> {"off", "working", "streaming", "mute", "stored"}]
  /\ sent \in [Turn -> 0 .. NChunks]
  /\ drops \in 0 .. MaxDrops
  /\ outcome \in [Turn -> {"open", "stream", "wav", "error", "panic"}]
  /\ short \subseteq Turn /\ foreign \subseteq Turn /\ silent \subseteq 0 .. MaxTurn
  /\ owner \in 0 .. MaxTurn

TypeOK == StreamTypeOK /\ TurnTypeOK

Init ==
  /\ StreamInit
  /\ main = "idle" /\ turn = 0 /\ activated = FALSE /\ got = FALSE
  /\ expect = 0 /\ ttsEnd = FALSE
  /\ ws = "idle" /\ frame = NoFrame /\ net = <<>>
  /\ server = [t \in Turn |-> "off"] /\ sent = [t \in Turn |-> 0]
  /\ drops = 0 /\ outcome = [t \in Turn |-> "open"]
  /\ short = {} /\ foreign = {} /\ silent = {} /\ owner = 0

-----------------------------------------------------------------------------
(* main: voice_turn_execute from the POST's answer on.                      *)

\* The POST returned an acknowledgement and a pending_id; the server has
\* already started _slow_background for it.  Recording and posting an utterance
\* takes seconds.  One handler call takes at most 600 ms, so a call that passed
\* the gate in the last turn has returned; frames it left unread may still be
\* there.  A writer that outlived its session wakes within one DMA buffer, so it
\* has met what is gone by now.
StartTurn ==
  /\ main = "idle" /\ turn < MaxTurn /\ ws = "idle" /\ ~WriterFaults
  /\ main' = "expect" /\ turn' = turn + 1
  /\ activated' = FALSE /\ got' = FALSE
  /\ server' = [server EXCEPT ![turn + 1] = "working"]
  /\ UNCHANGED <<outcome, foreign, silent, gateVars, streamVars, wsVars, net, sent, drops>>

\* Control moves and nothing outside audio_out changes ...
Go(here, there) ==
  /\ main = here /\ main' = there
  /\ UNCHANGED <<turnVars, gateVars, wsVars, netVars>>

\* ... nor there.
Jump(here, there) == Go(here, there) /\ UNCHANGED streamVars

\* voice_turn_execute returns.
Return(here, how) ==
  /\ main = here /\ main' = "idle"
  /\ outcome' = [outcome EXCEPT ![turn] = how]
  /\ UNCHANGED <<turn, activated, got, foreign, silent, gateVars, wsVars, netVars>>

\* ws_client_expect_tts_stream(NULL): the id, then the bit.
CloseGate(here, there) ==
  /\ main = here /\ main' = there
  /\ expect' = 0 /\ ttsEnd' = FALSE
  /\ UNCHANGED <<turnVars, streamVars, wsVars, netVars>>

\* ws_client_expect_tts_stream(pending_id) in its two steps: ws may run between.
Expect ==
  /\ main = "expect" /\ main' = "clear" /\ expect' = turn
  /\ UNCHANGED <<ttsEnd, turnVars, streamVars, wsVars, netVars>>

ClearEnd ==
  /\ main = "clear" /\ main' = "ack" /\ ttsEnd' = FALSE
  /\ UNCHANGED <<expect, turnVars, streamVars, wsVars, netVars>>

\* play_wav(ack) opens I2S, or fails on it or on the WAV's header.
AckOpens == Go("ack", "ackplay") /\ WavTakesI2s
AckDone  == Go("ackplay", "check") /\ WavReleasesI2s
AckFails == CloseGate("ack", "ackfail")

\* audio_out_stream_is_active guards the stream_end of each failure path.
AckFailEnds  == Go("ackfail", "ackend") /\ EndEnter("main", ShortDrain)
AckFailSkips == ~active /\ Return("ackfail", "error") /\ UNCHANGED streamVars
AckFailEnded ==
  ending["main"] = "no" /\ Return("ackend", "error") /\ UNCHANGED streamVars

\* After the ack: is there a stream to activate?
CheckFinds  == active /\ Jump("check", "activate")
CheckMisses == ~active /\ Jump("check", "wait")

ActivateFrom(here, there) ==
  /\ main = here /\ main' = there /\ Activate
  /\ activated' = TRUE
  /\ foreign' = IF owner = turn THEN foreign ELSE foreign \cup {turn}
  /\ UNCHANGED <<turn, got, outcome, silent, gateVars, wsVars, netVars>>

ActivateNow == ActivateFrom("activate", "wait")

\* No I2S channel, no memory for the task, or the session has gone.
ActivateFails == Jump("activate", "actfail")
ActFailEnds   == Go("actfail", "actend") /\ EndEnter("main", ShortDrain)
ActFailSkips  == ~active /\ Jump("actfail", "wait")
ActFailEnded  == ending["main"] = "no" /\ Jump("actend", "wait")

\* Mutant: the wait has no timeout.
WaitForever(ok) ==
  /\ main = "wait" /\ main' = "unexpect"
  /\ ok /\ ttsEnd = ok /\ ttsEnd' = FALSE /\ got' = ok
  /\ UNCHANGED <<turn, activated, outcome, foreign, silent, expect, streamVars, wsVars,
                 netVars>>

\* ws_client_wait_tts_end(35000): the bit, or the timeout ...
WaitEnds(ok) ==
  /\ main = "wait" /\ main' = "unexpect"
  /\ ttsEnd = ok /\ ttsEnd' = FALSE /\ got' = ok
  /\ UNCHANGED <<turn, activated, outcome, foreign, silent, expect, streamVars, wsVars,
                 netVars>>

WaitGets     == WaitEnds(TRUE)
WaitTimesOut == WaitEnds(FALSE)

\* Mutant: after a timeout the stream is torn down with the gate still open.
UnexpectOnSuccess ==
  /\ main = "unexpect" /\ expect' = IF got THEN 0 ELSE expect
  /\ main' = IF ~got THEN "fbcheck" ELSE IF activated THEN "end" ELSE "late"
  /\ UNCHANGED <<ttsEnd, turnVars, streamVars, wsVars, netVars>>

\* ... and in both cases the expectation is cleared, under the mutex.
Unexpect ==
  /\ main = "unexpect" /\ expect' = 0
  /\ main' = IF ~got THEN "fallback" ELSE IF activated THEN "end" ELSE "late"
  /\ UNCHANGED <<ttsEnd, turnVars, streamVars, wsVars, netVars>>

\* tts_start came after the check: activate now.
LateFinds         == active /\ Jump("late", "lateactivate")
LateMisses        == ~active /\ Jump("late", "fallback")
LateActivates     == ActivateFrom("lateactivate", "end")
LateActivateFails == Jump("lateactivate", "fallback")

\* Mutant: the success path allows the drain no more than the failure paths do.
EndDrainsBriefly == Go("end", "okend") /\ EndEnter("main", ShortDrain)

\* The success path: drain for up to 15 s; the result is logged, not tested.
EndDrains  == Go("end", "okend") /\ EndEnter("main", LongDrain)
EndRefused == ~active /\ Return("end", "stream") /\ UNCHANGED streamVars
EndReturns == ending["main"] = "no" /\ Return("okend", "stream") /\ UNCHANGED streamVars

\* The fallback: gate closed, half-open stream torn down, answer fetched.
Fallback      == CloseGate("fallback", "fbcheck")
FallbackEnds  == Go("fbcheck", "fbend") /\ EndEnter("main", ShortDrain)
FallbackSkips == ~active /\ Jump("fbcheck", "get")
FallbackEnded == ending["main"] = "no" /\ Jump("fbend", "get")

GetAnswers  == Jump("get", "fetched") /\ server[turn] = "stored"
GetFails    == Return("get", "error") /\ UNCHANGED streamVars
ReplyOpens  == Go("fetched", "wavplay") /\ WavTakesI2s
ReplyFails  == Return("fetched", "error") /\ UNCHANGED streamVars
ReplyPlayed == Return("wavplay", "wav") /\ WavReleasesI2s

-----------------------------------------------------------------------------
(* ws: _handle_server_event and _tts_stream_handler, on the ws task.       *)

Receive ==
  /\ ws = "idle" /\ net # <<>>
  /\ frame' = Head(net) /\ net' = Tail(net) /\ ws' = "gate"
  /\ UNCHANGED <<short, owner, streamVars, main, turnVars, gateVars, server, sent, drops>>

WsOnly == UNCHANGED <<short, owner, streamVars, main, turnVars, gateVars>>

\* The ws task goes on to `there`, done with the frame when that is "idle".
Handle(here, there) ==
  /\ ws = here /\ ws' = there
  /\ frame' = IF there = "idle" THEN NoFrame ELSE frame
  /\ UNCHANGED netVars

\* Mutant: the gate tests that some stream is expected, not which.
GateAnyStream(f) == expect # 0

\* The gate, under the mutex; the handler runs after the mutex is released.
Matches(f) == expect # 0 /\ f.turn = expect

GatePasses == Matches(frame) /\ Handle("gate", "matched") /\ WsOnly
GateDrops  == ~Matches(frame) /\ Handle("gate", "idle") /\ WsOnly

\* tts_start over a session that is still active ends it first.
StartResets ==
  /\ frame.kind = "start" /\ Handle("matched", "resetting")
  /\ EndEnter("ws", ShortDrain)
  /\ UNCHANGED <<short, owner, main, turnVars, gateVars>>
ResetDone  == ending["ws"] = "no" /\ Handle("resetting", "begin") /\ WsOnly
StartFresh == frame.kind = "start" /\ ~active /\ Handle("matched", "begin") /\ WsOnly

BeginSession ==
  /\ Handle("begin", "idle") /\ Begin
  /\ owner' = frame.turn
  /\ UNCHANGED <<short, main, turnVars, gateVars>>
\* Already active, or no memory for the ring or the semaphore.
BeginFails == Handle("begin", "idle") /\ WsOnly

ChunkDropped ==
  /\ frame.kind = "chunk" /\ ~PushOpen /\ Handle("matched", "idle") /\ WsOnly
ChunkAccepted ==
  /\ frame.kind = "chunk" /\ PushOpen /\ Handle("matched", "send") /\ WsOnly

ThisChunk == [turn |-> frame.turn, seq |-> frame.seq]

\* The ws task is inside xStreamBufferSend; "blocked" is its wait for room.
Sending == ws \in {"send", "blocked"}
Sent    == Sending /\ Handle(ws, "idle")

ChunkSent ==
  /\ Sent /\ PushFits(ThisChunk)
  /\ UNCHANGED <<short, owner, main, turnVars, gateVars>>
\* The ring is full: the send waits for up to 500 ms.
ChunkBlocks ==
  /\ alloc /\ Len(ring) >= RingCap /\ Handle("send", "blocked") /\ WsOnly
\* A short send leaves at most a fragment: the reply is cut here.
ChunkShort ==
  /\ Handle("blocked", "idle") /\ PushTimesOut
  /\ short' = short \cup {frame.turn}
  /\ UNCHANGED <<owner, main, turnVars, gateVars>>
\* The ring was deleted under the send: the bytes are gone, if nothing worse.
ChunkLost == Sent /\ ~alloc /\ WsOnly

EndSignals ==
  /\ frame.kind = "end" /\ Handle("matched", "idle")
  /\ ttsEnd' = TRUE
  /\ UNCHANGED <<short, owner, main, turnVars, expect, streamVars>>

-----------------------------------------------------------------------------
(* The server's _slow_background and _stream_synthesis_to_ws, the network, *)
(* and the unit's panic handler.                                            *)

Send(f) == Len(net) < NetCap /\ net' = Append(net, f)

Serve(t, from, to) ==
  /\ server[t] = from /\ server' = [server EXCEPT ![t] = to]
  /\ UNCHANGED <<drops, streamVars, main, turnVars, gateVars, wsVars>>

ServerStarts(t) ==
  /\ Serve(t, "working", "streaming") /\ UNCHANGED sent
  /\ Send([kind |-> "start", turn |-> t, seq |-> 0])
\* Mutant: the sub-chunk loop runs one step too far.
ServerChunkPastEnd(t) ==
  /\ Serve(t, "streaming", "streaming") /\ sent[t] <= NChunks
  /\ sent' = [sent EXCEPT ![t] = @ + 1]
  /\ Send([kind |-> "chunk", turn |-> t, seq |-> sent[t] + 1])

ServerChunk(t) ==
  /\ Serve(t, "streaming", "streaming") /\ sent[t] < NChunks
  /\ sent' = [sent EXCEPT ![t] = @ + 1]
  /\ Send([kind |-> "chunk", turn |-> t, seq |-> sent[t] + 1])
\* tts_end follows the last chunk, and only when every send went out.
ServerEnds(t) ==
  /\ Serve(t, "streaming", "stored") /\ sent[t] = NChunks /\ UNCHANGED sent
  /\ Send([kind |-> "end", turn |-> t, seq |-> 0])
\* No unit connected, the stream cut off, or synthesis failed: the stored WAV
\* (the reply, or an apology) is all that is left.
ServerStores(t) ==
  /\ \E from \in {"working", "streaming", "mute"} : Serve(t, from, "stored")
  /\ UNCHANGED <<net, sent>>

\* What a lost connection leaves of each server task.
Muted == [t \in Turn |-> IF server[t] = "streaming" THEN "mute" ELSE server[t]]

\* Frames in flight are lost.  A stream keeps the socket it started with, so
\* nothing more of it reaches the unit, even after a reconnect.
Disconnect ==
  /\ drops < MaxDrops /\ drops' = drops + 1
  /\ net' = <<>>
  /\ server' = Muted
  /\ UNCHANGED <<sent, streamVars, main, turnVars, gateVars, wsVars>>

\* The writer faults on what stream_end destroyed, or the ws task does.
Panic ==
  /\ WriterFaults \/ (Sending /\ ~alloc)
  /\ StreamReset
  /\ main' = "idle" /\ activated' = FALSE /\ got' = FALSE
  /\ expect' = 0 /\ ttsEnd' = FALSE
  /\ outcome' = IF main = "idle" THEN outcome ELSE [outcome EXCEPT ![turn] = "panic"]
  /\ ws' = "idle" /\ frame' = NoFrame /\ net' = <<>>
  /\ server' = Muted
  /\ UNCHANGED <<turn, short, owner, foreign, silent, sent, drops>>

-----------------------------------------------------------------------------
MainStep ==
  \/ Expect \/ ClearEnd \/ AckOpens \/ AckFails \/ AckDone
  \/ AckFailEnds \/ AckFailSkips \/ AckFailEnded
  \/ CheckFinds \/ CheckMisses \/ ActivateNow \/ ActivateFails
  \/ ActFailEnds \/ ActFailSkips \/ ActFailEnded
  \/ WaitGets \/ WaitTimesOut \/ Unexpect
  \/ LateFinds \/ LateMisses \/ LateActivates \/ LateActivateFails
  \/ EndDrains \/ EndRefused \/ EndReturns
  \/ Fallback \/ FallbackEnds \/ FallbackSkips \/ FallbackEnded
  \/ GetAnswers \/ GetFails \/ ReplyOpens \/ ReplyFails \/ ReplyPlayed

WsStep ==
  \/ Receive \/ GatePasses \/ GateDrops
  \/ StartResets \/ ResetDone \/ StartFresh \/ BeginSession \/ BeginFails
  \/ ChunkDropped \/ ChunkAccepted \/ ChunkSent \/ ChunkBlocks \/ ChunkShort
  \/ ChunkLost \/ EndSignals

ServerStep ==
  \E t \in Turn : ServerStarts(t) \/ ServerChunk(t) \/ ServerEnds(t) \/ ServerStores(t)

AudioStep == StreamStep /\ UNCHANGED <<main, turnVars, gateVars, wsVars, netVars>>

\* The one step of the writer task that a turn can end well without noticing.
WriterLost ==
  /\ WriterDies /\ silent' = silent \cup {turn}
  /\ UNCHANGED <<main, turn, activated, got, outcome, foreign, gateVars, wsVars, netVars>>

\* Bound: after MaxTurn turns the unit only listens.
Rest == main = "idle" /\ turn = MaxTurn /\ UNCHANGED vars

Next == Rest \/ StartTurn \/ MainStep \/ WsStep \/ ServerStep \/ AudioStep \/ WriterLost
        \/ Disconnect \/ Panic

Spec == Init /\ [][Next]_vars

\* Every wait of main, of the writer and of stream_end has a timeout, FreeRTOS runs
\* every ready task, and who touches what is gone makes the unit panic.  Nothing is
\* assumed of the WebSocket task, the server and the network.
FairSpec == Spec /\ WF_vars(MainStep) /\ WF_vars(AudioStep \/ Panic)

-----------------------------------------------------------------------------
(* Properties.                                                              *)

\* Each chunk of the reply was played; that they came in order and none of them
\* twice is what HeardInOrder says.
WholeReply(t) ==
  \A i \in 1 .. NChunks : \E j \in DOMAIN spoken : spoken[j] = [turn |-> t, seq |-> i]

\* Over all turns the amplifier plays stream chunks in the order of the replies
\* they belong to, none twice and none after a later one: the gate, the ring
\* and the teardown between turns together keep an old stream out of a new one.
HeardInOrder ==
  \A i, j \in DOMAIN spoken : i < j =>
    \/ spoken[i].turn < spoken[j].turn
    \/ spoken[i].turn = spoken[j].turn /\ spoken[i].seq < spoken[j].seq

\* A turn voice_turn_execute counts as streamed was heard whole, unless a chunk
\* found the ring full for 500 ms (short), main had activated a session left over
\* from another turn (foreign), or its writer task got no memory for its buffers
\* and ended before it played anything (silent).  No other interleaving loses
\* audio while the turn reports success.
AnsweredUnlessCut ==
  \A t \in Turn : outcome[t] = "stream" =>
    WholeReply(t) \/ t \in short \/ t \in foreign \/ t \in silent

\* After a streamed turn the writer task is gone: the 15 s drain is always long
\* enough for what the ring and the writer's hand can hold.  (A turn whose writer
\* never ran had none to wait for.)
LongDrainSuffices ==
  main = "idle" /\ turn # 0 =>
    (outcome[turn] = "stream" => writer = "none" \/ turn \in foreign \cup silent)

\* main and the ws task are inside stream_end together only over a session that
\* an earlier turn left behind: never do both tear down this turn's own stream.
OneEnderPerSession ==
  ending["main"] # "no" /\ ending["ws"] # "no" => owner # turn

\* While the gate still admits a stream that main has activated, the ring is not
\* destroyed under the ws task's send.
ActivatedRingKept == Sending /\ Matches(frame) /\ activated => alloc

\* Every two-phase turn returns to the wake-word loop: none of its waits, for
\* the stream, the writer, or the fallback, can hang.  (It is in the loop again and
\* again, which says the same as that being in a turn leads to being in the loop.)
TurnEnds == []<>(main = "idle")

-----------------------------------------------------------------------------
(* What the documentation says, and the code does not do.                   *)


\* voice_turn.c: the handler "must not block", push is a "non-blocking ring op",
\* so no ring could be deleted under a handler that waits in a send for room.
RingOutlivesSend == ws = "blocked" => alloc

=============================================================================
