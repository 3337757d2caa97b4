---------------------------- MODULE VoiceServer ----------------------------
(***************************************************************************)
(* Slow turns in server/voice_server.py: the _pending store, the           *)
(* _slow_background task that computes a reply, streams it to the unit's   *)
(* connection and keeps it as a WAV, and the long poll GET /voice_result.  *)
(* The connections are those of module WsRegistry, read without the lock.  *)
(*                                                                         *)
(* A reply is NPieces sub-chunks; what is said is left out.  Time is left   *)
(* out too: a poll may come, and an entry may be swept, at any moment.     *)
(***************************************************************************)
EXTENDS WsRegistry

CONSTANTS
  Req,      (* request_ids, each used for one slow turn                    *)
  NPieces   (* TTS_CHUNK_BYTES sub-chunks in a reply                       *)

ASSUME ReplyAssumption == NPieces \in Nat \ {0}

VARIABLES
  pending,   (* per request: is it in _pending?                            *)
  bg,        (* where its _slow_background stands                          *)
  runit,     (* entry["unit_id"]                                           *)
  ws,        (* the connection its stream captured                         *)
  ws_ok,     (* its ws_ok                                                  *)
  made,      (* sub-chunks that piper has produced                         *)
  seq,       (* sub-chunks sent                                            *)
  ended,     (* tts_end went out                                           *)
  streamed,  (* entry["streamed_over_ws"]                                  *)
  wav,       (* entry["wav"]                                               *)
  event,     (* entry["event"] is set                                      *)
  get        (* the unit's GET /voice_result                               *)

replyVars == <<runit, ws, ws_ok, made, seq, ended, streamed, wav, event>>
vars == <<regVars, pending, bg, replyVars, get>>

TypeOK ==
  /\ RegTypeOK
  /\ pending \in [Req -> {"no", "stored", "gone"}]
  /\ bg \in [Req -> {"off", "tool", "synth", "failed", "ready", "done"}]
  /\ runit \in [Req -> Unit \cup {None}] /\ ws \in [Req -> Conn \cup {None}]
  /\ ws_ok \in [Req -> BOOLEAN] /\ ended \in [Req -> BOOLEAN]
  /\ streamed \in [Req -> BOOLEAN] /\ event \in [Req -> BOOLEAN]
  /\ made \in [Req -> 0 .. NPieces] /\ seq \in [Req -> 0 .. NPieces]
  /\ wav \in [Req -> {"none", "reply", "apology", "empty"}]
  /\ get \in [Req -> {"no", "wait", "answered", "timeout", "missing"}]

Init ==
  /\ RegInit
  /\ pending = [r \in Req |-> "no"] /\ bg = [r \in Req |-> "off"]
  /\ runit = [r \in Req |-> None] /\ ws = [r \in Req |-> None]
  /\ ws_ok = [r \in Req |-> FALSE] /\ ended = [r \in Req |-> FALSE]
  /\ streamed = [r \in Req |-> FALSE] /\ event = [r \in Req |-> FALSE]
  /\ made = [r \in Req |-> 0] /\ seq = [r \in Req |-> 0]
  /\ wav = [r \in Req |-> "none"] /\ get = [r \in Req |-> "no"]

-----------------------------------------------------------------------------
(* POST /voice_turn and the background task.                                *)

Put(f, r, x) == f' = [f EXCEPT ![r] = x]
Works(r, from, to) ==
  bg[r] = from /\ Put(bg, r, to) /\ UNCHANGED <<regVars, pending, get>>

\* voice_turn acknowledges a slow turn: the entry is in the store before the task
\* starts and before the unit learns the id.
Post(r) ==
  /\ bg[r] = "off" /\ Put(bg, r, "tool") /\ Put(pending, r, "stored")
  /\ \E u \in Unit \cup {None} : Put(runit, r, u)
  /\ UNCHANGED <<regVars, ws, ws_ok, made, seq, ended, streamed, wav, event, get>>

\* The tool or the composer raises.
ToolFails(r) == Works(r, "tool", "failed") /\ UNCHANGED replyVars

Entry(r) == IF runit[r] = None THEN None ELSE clients[runit[r]]

\* tts_start goes to the connection the registry holds now ...
StreamOpens(r) ==
  /\ Works(r, "tool", "synth")
  /\ Entry(r) # None /\ ~closed[Entry(r)]
  /\ Put(ws, r, Entry(r)) /\ Put(ws_ok, r, TRUE)
  /\ UNCHANGED <<runit, made, seq, ended, streamed, wav, event>>
\* ... or nowhere: no unit, no open connection, or the send raises.
StreamMuted(r) ==
  /\ Works(r, "tool", "synth")
  /\ Put(ws, r, Entry(r))
  /\ UNCHANGED <<runit, ws_ok, made, seq, ended, streamed, wav, event>>

\* Mutant: one sub-chunk too many.
PiecePastEnd(r) ==
  /\ Works(r, "synth", "synth") /\ made[r] <= NPieces /\ Put(made, r, made[r] + 1)
  /\ UNCHANGED <<runit, ws, ended, streamed, wav, event>>

\* A sub-chunk of PCM, kept for the WAV; a muted stream sends nothing more.
Piece(r) ==
  /\ Works(r, "synth", "synth") /\ made[r] < NPieces /\ Put(made, r, made[r] + 1)
  /\ UNCHANGED <<runit, ws, ended, streamed, wav, event>>
PieceSent(r) ==
  Piece(r) /\ ws_ok[r] /\ ~closed[ws[r]] /\ Put(seq, r, seq[r] + 1) /\ UNCHANGED ws_ok

\* Mutant: a lost sub-chunk is skipped and the stream goes on.
SkipsLost(r) == UNCHANGED ws_ok

\* The socket is closed or the send raises: muted from here on.
Mutes(r) == Put(ws_ok, r, FALSE)
PieceUnsent(r) == Piece(r) /\ Mutes(r) /\ UNCHANGED seq

\* piper raises, at any sentence.
SynthFails(r) == Works(r, "synth", "failed") /\ UNCHANGED replyVars

\* All is synthesized: tts_end, the streamed flag, and the WAV.
Finish(r) ==
  /\ Works(r, "synth", "ready") /\ made[r] = NPieces
  /\ Put(wav, r, "reply")
  /\ UNCHANGED <<runit, ws, made, seq, event>>
CanEnd(r) == ws_ok[r] /\ ~closed[ws[r]]
FinishEnds(r)   == Finish(r) /\ CanEnd(r) /\ Put(ended, r, TRUE)
                   /\ Put(streamed, r, TRUE) /\ UNCHANGED ws_ok
FinishRaises(r) == Finish(r) /\ CanEnd(r) /\ Put(ws_ok, r, FALSE)
                   /\ Put(streamed, r, FALSE) /\ UNCHANGED ended
FinishCut(r)    == Finish(r) /\ ~CanEnd(r) /\ Put(streamed, r, ws_ok[r])
                   /\ UNCHANGED <<ended, ws_ok>>

\* The apology is synthesized, or is empty when that fails too.
Apologise(r) ==
  /\ Works(r, "failed", "ready")
  /\ \E w \in {"apology", "empty"} : Put(wav, r, w)
  /\ Put(streamed, r, FALSE)
  /\ UNCHANGED <<runit, ws, ws_ok, made, seq, ended, event>>

\* finally: the event; pending_ready follows and changes nothing here.
Signal(r) ==
  /\ Works(r, "ready", "done") /\ Put(event, r, TRUE)
  /\ UNCHANGED <<runit, ws, ws_ok, made, seq, ended, streamed, wav>>

-----------------------------------------------------------------------------
(* GET /voice_result, and the sweep.                                        *)

Polls(r, from, to) ==
  get[r] = from /\ Put(get, r, to) /\ UNCHANGED <<regVars, bg, replyVars>>

\* The unit falls back to polling; the poll keeps the entry even if it is swept.
Poll(r)       == pending[r] = "stored" /\ Polls(r, "no", "wait") /\ UNCHANGED pending
PollMisses(r) == pending[r] = "gone" /\ Polls(r, "no", "missing") /\ UNCHANGED pending

Answer(r)       == event[r] /\ Polls(r, "wait", "answered") /\ Put(pending, r, "gone")
PollTimesOut(r) == ~event[r] /\ Polls(r, "wait", "timeout") /\ Put(pending, r, "gone")

\* Mutant: only entries nobody ever filled are swept.
SweepsUnfilled(r) == wav[r] = "none"
\* Stale by age alone.
Stale(r) == TRUE
Sweep(r) ==
  /\ pending[r] = "stored" /\ Stale(r)
  /\ Put(pending, r, "gone")
  /\ UNCHANGED <<regVars, bg, replyVars, get>>

-----------------------------------------------------------------------------
BgStep(r) ==
  \/ ToolFails(r) \/ StreamOpens(r) \/ StreamMuted(r) \/ PieceSent(r) \/ PieceUnsent(r)
  \/ SynthFails(r) \/ FinishEnds(r) \/ FinishRaises(r) \/ FinishCut(r) \/ Apologise(r)
  \/ Signal(r)

StoreStep(r) == Answer(r) \/ PollTimesOut(r) \/ Sweep(r)

UnitStep(r) == Post(r) \/ Poll(r) \/ PollMisses(r)

Connections == RegStep /\ UNCHANGED <<pending, bg, replyVars, get>>

\* Bound: every connection and every request has been used.
Rest ==
  /\ \A c \in Conn : pc[c] = "done"
  /\ \A r \in Req : bg[r] = "done" /\ pending[r] = "gone"
  /\ UNCHANGED vars

Next == Rest \/ Connections \/ \E r \in Req : BgStep(r) \/ StoreStep(r) \/ UnitStep(r)

Spec == Init /\ [][Next]_vars

\* The sweeper and the poll's timeout come due; no unit need ever poll.
FairSpec == Spec /\ RegFair /\ \A r \in Req : WF_vars(StoreStep(r))

-----------------------------------------------------------------------------
(* Properties.                                                              *)

\* A stream that was ended was sent whole: a piece that could not be sent, on a
\* connection lost or superseded meanwhile, is never skipped over.
EndedIsWhole == \A r \in Req : ended[r] => seq[r] = NPieces

\* Every entry leaves the store, whether or not the unit ever asks for it.
EntriesLeave == \A r \in Req : pending[r] = "stored" ~> pending[r] = "gone"

-----------------------------------------------------------------------------
(* What the documentation says, and the code does not do.                   *)

\* _stream_synthesis_to_ws: "if the unit isn't connected or the WS closes mid-stream,
\* returns (False, ...)": a reply flagged as streamed had its tts_end.
StreamedIsEnded == \A r \in Req : streamed[r] => ended[r]
=============================================================================
