----------------------------- MODULE WakeGate -----------------------------
(***************************************************************************)
(* The gate between the wake word and the conversation: app_main's loop in *)
(* main/main.c and the task of main/wake_word_task.c, which share the      *)
(* event bit, s_paused, s_warmup_left and the model's streaming state, and *)
(* the wake ring that audio_in's reader fills and that the task and        *)
(* followup_detect_speech both drain.                                      *)
(*                                                                         *)
(* One Tick is one chunk of audio.  Between two ticks every task runs      *)
(* until it blocks, interleaved step by step; what does not block takes no *)
(* time.  A chunk is abstracted to whether the unit itself was speaking    *)
(* when it was captured, an inference to whether its score passes.         *)
(***************************************************************************)
EXTENDS Naturals, Sequences

CONSTANTS
  RingCap,     (* The wake ring (1 s), in chunks.                          *)
  Mute,        (* POST_DETECT_MUTE_MS (25 s), in chunks.                   *)
  Warmup,      (* WARMUP_STEPS_AFTER_RESET, in inference steps.            *)
  Consecutive, (* WAKE_CONSECUTIVE_STEPS.                                  *)
  RecordTime   (* The least time from a turn's start to its reply.         *)

\* Recording alone takes longer than the ring holds, and the mute is longer than
\* app_main's own delays.  That a reset owes a warm-up at all is what keeps a streak
\* begun before a reset from being finished after it.
ASSUME GateAssumption ==
  /\ RingCap \in Nat \ {0} /\ Mute \in Nat /\ Mute > 1 /\ Warmup \in Nat \ {0}
  /\ Consecutive \in Nat \ {0} /\ RecordTime \in Nat /\ RecordTime >= RingCap

VARIABLES
  main,       (* where app_main's loop stands                              *)
  age,        (* time main has spent at a blocking call, up to RecordTime  *)
  bit,        (* WAKE_WORD_BIT                                             *)
  paused,     (* s_paused                                                  *)
  warmup,     (* s_warmup_left                                             *)
  task,       (* where wake_word_task_fn stands                            *)
  chunk,      (* the chunk it holds                                        *)
  steps,      (* the result of wake_word_feed: inferences run (0 or 1) ... *)
  above,      (* ... and whether the score reached the threshold           *)
  loaded,     (* its copy of s_warmup_left                                 *)
  consec,     (* consec_above                                              *)
  sleep,      (* what is left of its vTaskDelay                            *)
  ring,       (* wake_ring                                                 *)
  room,       (* whether the sensors, with their holdoff, see somebody     *)
  occupied,   (* was_occupied                                              *)
  fresh,      (* history: inferences since the model was last reset        *)
  ownHeard,   (* history: the unit's own speech has reached the model      *)
  outlasted,  (* history: a conversation has outlasted the mute            *)
  raced       (* history: since the model was last reset, main's resume    *)
              (* and the task's work on a chunk have overlapped            *)

mainVars == <<main, age, bit>>
taskVars == <<task, chunk, steps, above, loaded, consec, sleep, occupied>>
flagVars == <<paused, warmup>>
histVars == <<fresh, ownHeard, outlasted, raced>>
vars     == <<mainVars, taskVars, flagVars, ring, room, histVars>>

\* main between wake_word_task_pause and the end of wake_word_task_resume.
InChain == main \notin {"wait", "check", "skip"}

\* Counting further than this tells no property anything.
Enough == Warmup + Consecutive

TypeOK ==
  /\ main \in {"wait", "check", "skip", "turn", "speak", "settle", "quieting",
               "followup", "resume", "rewarm", "unpause"}
  /\ age \in 0 .. RecordTime
  /\ bit \in BOOLEAN /\ paused \in BOOLEAN /\ room \in BOOLEAN /\ occupied \in BOOLEAN
  /\ warmup \in 0 .. Warmup /\ loaded \in 0 .. Warmup
  /\ task \in {"consume", "gate", "fed", "drain", "judge", "mute", "sleep", "unmute"}
  /\ chunk \in {"room", "own"} /\ ring \in Seq({"room", "own"}) /\ Len(ring) <= RingCap
  /\ steps \in {0, 1} /\ above \in BOOLEAN
  /\ consec \in 0 .. Consecutive - 1
  /\ sleep \in 0 .. Mute
  /\ fresh \in 0 .. Enough /\ ownHeard \in BOOLEAN
  /\ outlasted \in BOOLEAN /\ raced \in BOOLEAN

\* At boot the model is new and no warm-up is owed.
Init ==
  /\ main = "wait" /\ age = 0 /\ bit = FALSE
  /\ paused = FALSE /\ warmup = 0
  /\ task = "consume" /\ chunk = "room" /\ steps = 0 /\ above = FALSE
  /\ loaded = 0 /\ consec = 0 /\ sleep = 0 /\ occupied = TRUE
  /\ ring = <<>> /\ room = TRUE
  /\ fresh = Enough /\ ownHeard = FALSE /\ outlasted = FALSE /\ raced = FALSE

-----------------------------------------------------------------------------
(* Time, the microphone and the room.                                       *)

\* Mutant: a full ring makes room by dropping its oldest chunk.
KeepNewest(c) == IF Len(ring) < RingCap THEN Append(ring, c) ELSE Append(Tail(ring), c)

\* xRingbufferSend with no wait: a full ring drops the new chunk.
Keep(c) == IF Len(ring) < RingCap THEN Append(ring, c) ELSE ring

\* Time passes only when both tasks block; main's fixed delays (0.5 to 2 s) are
\* one tick each.
Tick ==
  /\ \/ (main = "wait" /\ ~bit)
     \/ main \in {"turn", "speak", "followup"}
     \/ (main \in {"skip", "settle", "quieting"} /\ age = 0)
  /\ task = "consume" \/ (task = "sleep" /\ sleep > 0)
  /\ ring' = Keep(IF main = "speak" THEN "own" ELSE "room")
  /\ age' = IF age < RecordTime THEN age + 1 ELSE age
  /\ sleep' = IF sleep > 0 THEN sleep - 1 ELSE 0
  /\ UNCHANGED <<main, bit, task, chunk, steps, above, loaded, consec, occupied,
                 flagVars, room, histVars>>

RoomChanges ==
  /\ room' = ~room
  /\ UNCHANGED <<mainVars, taskVars, flagVars, ring, histVars>>

-----------------------------------------------------------------------------
(* app_main's loop, voice_turn_execute, followup_detect_speech.             *)

Go(here, there) == main = here /\ main' = there /\ age' = 0

\* A step of main that touches only its own position.
Pass(here, there) ==
  Go(here, there) /\ UNCHANGED <<bit, taskVars, flagVars, ring, room, histVars>>

\* xEventGroupWaitBits clears the bit on exit.
Wakes ==
  /\ Go("wait", "check") /\ bit /\ bit' = FALSE
  /\ UNCHANGED <<taskVars, flagVars, ring, room, histVars>>

\* No WiFi: two seconds of red, and no pause.
WifiDown  == Pass("check", "skip")
SkipEnds  == age > 0 /\ Pass("skip", "wait")

\* wake_word_task_pause.
Pause ==
  /\ Go("check", "turn") /\ paused' = TRUE
  /\ UNCHANGED <<bit, taskVars, warmup, ring, room, histVars>>

\* voice_turn_execute has an answer to play.
TurnSpeaks == age = RecordTime /\ Pass("turn", "speak")

\* The turn or its answer fails, or the follow-up window is off: no wait, no drain ...
ChainEnds == \E here \in {"turn", "speak"} : Pass(here, "settle")

\* ... or on, after a turn without an answer as after one that spoke: the ring is
\* flushed, a second later drained to the bottom, and then read chunk by chunk until
\* speech or the deadline.
Flush(here, there) ==
  /\ Go(here, there) /\ ring' = <<>>
  /\ UNCHANGED <<bit, taskVars, flagVars, room, histVars>>
FollowupFlushes == \E here \in {"turn", "speak"} : Flush(here, "quieting")
FollowupOpens   == age > 0 /\ Flush("quieting", "followup")
FollowupReads ==
  /\ main = "followup" /\ ring # <<>> /\ ring' = Tail(ring)
  /\ UNCHANGED <<mainVars, taskVars, flagVars, room, histVars>>
FollowupHears   == Pass("followup", "turn")
FollowupExpires == Pass("followup", "settle")

\* The task is between its test of s_paused and what it makes of the score.
AtWork == task \in {"fed", "drain", "judge"}

\* Half a second later wake_word_task_resume: reset, warm-up, s_paused = false.
Settles == age > 0 /\ Pass("settle", "resume")
ResumeResets ==
  /\ Go("resume", "rewarm") /\ fresh' = 0 /\ raced' = AtWork
  /\ UNCHANGED <<bit, taskVars, flagVars, ring, room, ownHeard, outlasted>>
ResumeWarms ==
  /\ Go("rewarm", "unpause") /\ warmup' = Warmup /\ raced' = (raced \/ AtWork)
  /\ UNCHANGED <<bit, taskVars, paused, ring, room, fresh, ownHeard, outlasted>>

\* Mutant: resume ends without clearing s_paused.
ResumeForgets == Go("unpause", "wait") /\ UNCHANGED paused

ResumeClears == Go("unpause", "wait") /\ paused' = FALSE
Resumes == ResumeClears /\ UNCHANGED <<bit, taskVars, warmup, ring, room, histVars>>

-----------------------------------------------------------------------------
(* wake_word_task_fn.                                                       *)

\* A chunk from the ring, and the presence gate: coming back into the room
\* resets the model; nobody there, the chunk is dropped.
Consume ==
  /\ task = "consume" /\ ring # <<>>
  /\ chunk' = Head(ring) /\ ring' = Tail(ring)
  /\ occupied' = room
  /\ IF room /\ ~occupied THEN warmup' = Warmup /\ fresh' = 0 /\ raced' = FALSE
                          ELSE UNCHANGED <<warmup, fresh, raced>>
  /\ task' = IF room THEN "gate" ELSE "consume"
  /\ UNCHANGED <<mainVars, steps, above, loaded, consec, sleep, paused, room,
                 ownHeard, outlasted>>

Task(here, there) == task = here /\ task' = there

\* s_paused: the chunk is dropped unseen.
PausedDrops ==
  /\ Task("gate", "consume") /\ paused
  /\ UNCHANGED <<mainVars, chunk, steps, above, loaded, consec, sleep, occupied,
                 flagVars, ring, room, histVars>>

\* wake_word_feed: every third hop runs an inference.
Feed ==
  /\ Task("gate", "fed") /\ ~paused
  /\ steps' \in {0, 1} /\ above' \in BOOLEAN
  /\ fresh' = IF fresh + steps' < Enough THEN fresh + steps' ELSE Enough
  /\ ownHeard' = (ownHeard \/ chunk = "own")
  /\ raced' = (raced \/ main = "rewarm")
  /\ UNCHANGED <<mainVars, chunk, loaded, consec, sleep, occupied, flagVars, ring,
                 room, outlasted>>

\* Warm-up: load s_warmup_left; credits still owed swallow the result.
LoadWarmup ==
  /\ task = "fed" /\ task' = (IF warmup > 0 THEN "drain" ELSE "judge")
  /\ loaded' = warmup
  /\ UNCHANGED <<mainVars, chunk, steps, above, consec, sleep, occupied, flagVars,
                 ring, room, histVars>>
DrainWarmup ==
  /\ Task("drain", "consume")
  /\ warmup' = loaded - steps /\ consec' = 0
  /\ UNCHANGED <<mainVars, chunk, steps, above, loaded, sleep, occupied, paused,
                 ring, room, histVars>>

Passing == steps = 1 /\ above
\* The streak after this inference; without one the streak stands.
Streak == IF Passing THEN consec + 1 ELSE IF steps = 1 THEN 0 ELSE consec

\* Mutant: a fired streak is not cleared.
FireKeepsStreak == consec' = Streak

\* Below the gate, or enough steps but a noisy second before them.
FireClearsStreak == consec' = 0
Judge ==
  /\ Task("judge", "consume")
  /\ IF Passing /\ Streak >= Consecutive THEN FireClearsStreak ELSE consec' = Streak
  /\ UNCHANGED <<mainVars, chunk, steps, above, loaded, sleep, occupied, flagVars,
                 ring, room, histVars>>

\* The detection: xEventGroupSetBits ...
Fire ==
  /\ Task("judge", "mute") /\ Passing /\ Streak >= Consecutive
  /\ FireClearsStreak
  /\ bit' = TRUE
  /\ UNCHANGED <<main, age, chunk, steps, above, loaded, sleep, occupied, flagVars,
                 ring, room, histVars>>
\* ... then reset, s_paused = true, and the 25 s delay.
MutesItself ==
  /\ Task("mute", "sleep")
  /\ fresh' = 0 /\ raced' = FALSE /\ paused' = TRUE /\ sleep' = Mute
  /\ UNCHANGED <<mainVars, chunk, steps, above, loaded, consec, occupied, warmup,
                 ring, room, ownHeard, outlasted>>

\* Mutant: no warm-up is owed after the delay.
ForgetWarmup == UNCHANGED warmup
OweWarmup == warmup' = Warmup

\* The delay is over: reset and warm-up ...
WakesUp ==
  /\ Task("sleep", "unmute") /\ sleep = 0
  /\ fresh' = 0 /\ raced' = FALSE /\ OweWarmup
  /\ UNCHANGED <<mainVars, chunk, steps, above, loaded, consec, sleep, occupied,
                 paused, ring, room, ownHeard, outlasted>>
\* ... and s_paused = false, whatever main is doing.
Unmutes ==
  /\ Task("unmute", "consume")
  /\ paused' = FALSE
  /\ outlasted' = (outlasted \/ InChain)
  /\ UNCHANGED <<mainVars, chunk, steps, above, loaded, consec, sleep, occupied,
                 warmup, ring, room, fresh, ownHeard, raced>>

-----------------------------------------------------------------------------
MainStep ==
  \/ Wakes \/ WifiDown \/ SkipEnds \/ Pause \/ TurnSpeaks
  \/ ChainEnds \/ FollowupFlushes \/ FollowupOpens \/ FollowupReads
  \/ FollowupHears \/ FollowupExpires \/ Settles \/ ResumeResets \/ ResumeWarms
  \/ Resumes

TaskStep ==
  \/ Consume \/ PausedDrops \/ Feed \/ LoadWarmup \/ DrainWarmup \/ Judge \/ Fire
  \/ MutesItself \/ WakesUp \/ Unmutes

Next == Tick \/ RoomChanges \/ MainStep \/ TaskStep

Spec == Init /\ [][Next]_vars

\* Time passes, and the scheduler runs what is ready.  Nothing makes main leave a
\* turn but its own timeouts, so main is fair as a whole and no single branch is.
FairSpec == Spec /\ WF_vars(Tick) /\ WF_vars(MainStep) /\ WF_vars(TaskStep)

-----------------------------------------------------------------------------
(* Properties.                                                              *)

\* No reply of the unit ever reaches its own model while conversations end before
\* the 25 s mute does: the ring, which drops what is new, holds the start of the
\* turn by the time the unit speaks, and the task is asleep.
OwnVoiceUnheard == ownHeard => outlasted

\* A detection rests on a streak scored after the last reset and its warm-up, whichever
\* task reset the model, with one exception: a resume of main, after a conversation
\* that outlasted the mute, that reset the model or its credits while the task was at
\* work on a chunk, or between whose two steps the task fed one.  Such a resume can
\* complete an old streak or lose credits; it spoils detections until the next reset.
FreshStreak == [][Fire => fresh = Enough \/ (raced /\ outlasted)]_vars

\* As long as every conversation ends, the unit never goes deaf for good: whatever
\* main and the task do to s_paused, the task gets back to listening.
ListensAgain == []<>(main = "wait") => []<>(task = "consume" /\ ~paused)

-----------------------------------------------------------------------------
(* What the documentation says, and the code does not do.                   *)

\* wake_word_task.h: paused, "detections do not set the trigger event. Use during
\* voice_turn so the device's own TTS playback can't trip the wake word".
NoWakeInTurn == [][Fire => ~InChain]_vars
=============================================================================
