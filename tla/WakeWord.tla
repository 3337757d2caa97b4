----------------------------- MODULE WakeWord -----------------------------
(***************************************************************************)
(* What lies between the microphone and a score: the bring-up of the       *)
(* reader (audio_in_init) and of the model (wake_word_init), and then      *)
(* wake_word_feed of components/wake_word/wake_word.cc: windows of WinLen  *)
(* samples, one per Hop (frontend_tflm.cc, window.c), Stride of them to an *)
(* inference, over a streaming model that remembers the earlier ones.      *)
(* wake_word_reset clears the buffers of all three stages; the wake-word   *)
(* task calls it between feeds, main at the end of a conversation, with no *)
(* lock.  A sample is its number, a feature frame the window it is of; of  *)
(* the front end's buffers the window's stands for all.                    *)
(***************************************************************************)
EXTENDS Naturals, Sequences

CONSTANTS
  Hop,     (* the samples of one feature hop, and of a chunk of the task   *)
  WinLen,  (* the samples of one window                                    *)
  Stride,  (* g_max_stride_steps                                           *)
  MaxFed   (* bound: the samples fed                                       *)

ASSUME WakeAssumption ==
  Hop \in Nat \ {0} /\ WinLen \in Nat /\ Hop < WinLen /\ Stride \in Nat \ {0} /\ MaxFed \in Nat

VARIABLES
  mic,       (* rx_chan and wake_ring                                      *)
  reader,    (* the task that fills wake_ring                              *)
  ear,       (* where the wake-word task stands                            *)
  fed,       (* how many samples it has fed                                *)
  pcm,       (* those of this feed that the front end has not taken        *)
  held,      (* window.input, up to input_used                             *)
  input,     (* window.input as the front end has just filled it           *)
  feats,     (* g_features: the frames not yet pushed                      *)
  slot,      (* g_current_stride_step                                      *)
  at,        (* the slot last written                                      *)
  tensor,    (* g_input                                                    *)
  seen,      (* the model's resource variables: the frames they go back to *)
  memo,      (* those an inference under way started from                  *)
  score,     (* g_last_score: the frames it rests on, none for 0           *)
  counted,   (* steps > 0                                                  *)
  chain,     (* a conversation, which main ends with a reset               *)
  cleaning,  (* how far main's wake_word_reset has come                    *)
  overlap,   (* history: this reset has met a feed                         *)
  spoiled,   (* history: ... the last one has, or an inference failed      *)
  resetAt    (* history: what had been fed at the last reset               *)

feedVars  == <<pcm, input, feats, at, tensor, memo, counted>>
modelVars == <<held, slot, seen, score>>
upVars    == <<mic, reader>>
resetVars == <<chain, cleaning, overlap>>
earVars   == <<upVars, ear, fed, feedVars, modelVars, resetVars, spoiled, resetAt>>

WakeInit ==
  /\ mic = "off" /\ reader = "none" /\ ear = "none"
  /\ fed = 0 /\ pcm = <<>> /\ held = <<>> /\ input = <<>> /\ feats = <<>>
  /\ slot = 0 /\ at = 0 /\ tensor = [s \in 0..Stride - 1 |-> <<>>]
  /\ seen = <<>> /\ memo = <<>> /\ score = <<>> /\ counted = FALSE
  /\ chain = FALSE /\ cleaning = "no" /\ overlap = FALSE
  /\ spoiled = FALSE /\ resetAt = 0

-----------------------------------------------------------------------------
(* Bring-up.  app_main goes on whatever comes of it.                        *)
UpOnly == UNCHANGED <<fed, feedVars, modelVars, resetVars, spoiled, resetAt>>

\* audio_in_init; each failure takes back the channel and the ring.
MicInit ==
  /\ mic = "off" /\ mic' \in {"up", "failed"}
  /\ UNCHANGED <<reader, ear>> /\ UpOnly

\* The reader runs, or exits for want of its two buffers and leaves the ring empty.
ReaderStarts ==
  /\ mic = "up" /\ reader = "none" /\ reader' \in {"runs", "gone"}
  /\ UNCHANGED <<mic, ear>> /\ UpOnly

\* wake_word_init in the task: without front end, arena or interpreter the task ends,
\* and wake_word_task_start has returned ESP_OK.
ModelInit ==
  /\ ear = "none" /\ mic # "off" /\ ear' \in {"listen", "deleted"}
  /\ UNCHANGED upVars /\ UpOnly

-----------------------------------------------------------------------------
(* wake_word_feed.                                                          *)
Busy == ear \in {"copy", "shift", "push", "advance", "invoke", "count", "judge", "lost"}

EarGoes(here, there) == ear = here /\ ear' = there /\ UNCHANGED upVars

\* What audio_in_consume_wake returns: at most a hop, less at the end of what the
\* reader has written, so that a feed has a frame or none and never fills g_features.
\* Without a ring it returns nothing, at once.
Takes(n) ==
  /\ EarGoes("listen", "copy") /\ reader = "runs" /\ fed + n <= MaxFed
  /\ pcm' = [i \in 1..n |-> fed + i] /\ fed' = fed + n
  /\ counted' = FALSE
  /\ overlap' = (cleaning # "no") /\ spoiled' = (spoiled \/ cleaning # "no")
  /\ UNCHANGED <<input, feats, at, tensor, memo, modelVars, chain, cleaning, resetAt>>

FeedOnly == UNCHANGED <<fed, resetVars, resetAt>>

\* WindowProcessSamples: fill the window ...
Copies ==
  /\ ear = "copy" /\ UNCHANGED upVars
  /\ LET space == WinLen - Len(held)
         k     == IF Len(pcm) < space THEN Len(pcm) ELSE space
     IN /\ held' = held \o SubSeq(pcm, 1, k)
        /\ pcm'  = SubSeq(pcm, k + 1, Len(pcm))
        /\ ear'  = IF Len(pcm) < space THEN "push" ELSE "shift"
  /\ input' = held'
  /\ UNCHANGED <<feats, slot, at, tensor, seen, memo, score, counted, spoiled>> /\ FeedOnly

\* Mutant: the window moves on by its own length.
ShiftsAll(w) == <<>>

Shifted(w) == SubSeq(w, Hop + 1, Len(w))

\* ... and when it is full give a frame and shift it by a hop.  If main has emptied it
\* meanwhile, that is lost, or input_used goes below zero and the next copy writes
\* outside the buffer.
Shifts ==
  /\ ear = "shift" /\ UNCHANGED upVars
  /\ feats' = Append(feats, input)
  /\ \/ held' = Shifted(input) /\ ear' = (IF pcm = <<>> THEN "push" ELSE "copy")
     \/ held # input /\ ear' = "lost" /\ UNCHANGED held
  /\ UNCHANGED <<pcm, input, slot, at, tensor, seen, memo, score, counted, spoiled>> /\ FeedOnly

\* push_feature_frame: write the frame at the current slot ...
Pushes ==
  /\ EarGoes("push", "advance") /\ feats # <<>>
  /\ tensor' = [tensor EXCEPT ![slot] = Head(feats)] /\ at' = slot
  /\ feats' = Tail(feats)
  /\ UNCHANGED <<pcm, input, memo, counted, modelVars, spoiled>> /\ FeedOnly

\* ... go on to the next, from the slot as it was written or as it is now ...
Advances ==
  /\ ear = "advance" /\ UNCHANGED upVars
  /\ \E s \in {at, slot} :
       IF s + 1 < Stride THEN slot' = s + 1 /\ ear' = "count"
                         ELSE slot' = 0 /\ ear' = "invoke"
  /\ memo' = seen
  /\ UNCHANGED <<pcm, held, input, feats, at, tensor, seen, score, counted, spoiled>> /\ FeedOnly

Window == [s \in 1..Stride |-> tensor[s - 1]]

\* ... and run the model on a full tensor.
Invokes ==
  /\ EarGoes("invoke", "count")
  /\ \E past \in {memo, seen} : seen' = past \o Window
  /\ score' = seen'
  /\ UNCHANGED <<held, slot, feedVars, spoiled>> /\ FeedOnly

InvokeFails ==
  /\ EarGoes("invoke", "count")
  /\ seen' \in {seen, memo \o Window}
  /\ spoiled' = TRUE
  /\ UNCHANGED <<held, slot, score, feedVars>> /\ FeedOnly

\* "an Invoke just fired": the slot is 0.
Counts ==
  /\ EarGoes("count", "push")
  /\ counted' = (counted \/ slot = 0)
  /\ UNCHANGED <<pcm, input, feats, at, tensor, memo, modelVars, spoiled>> /\ FeedOnly

FeedReturns ==
  /\ EarGoes("push", "judge") /\ feats = <<>>
  /\ UNCHANGED <<feedVars, modelVars, spoiled>> /\ FeedOnly

-----------------------------------------------------------------------------
(* wake_word_reset from the task.                                           *)

\* Mutant: the model's variables are not reset.
KeepsVariables == held' = <<>> /\ slot' = 0 /\ score' = <<>> /\ UNCHANGED seen

Clears == held' = <<>> /\ slot' = 0 /\ score' = <<>> /\ seen' = <<>>

TaskResets ==
  /\ Clears /\ resetAt' = fed
  /\ spoiled' = (spoiled /\ cleaning # "no")
  /\ UNCHANGED <<fed, feedVars, cleaning, overlap>>

Judges   == EarGoes("judge", "listen") /\ UNCHANGED <<fed, feedVars, modelVars, resetVars, spoiled, resetAt>>
Detects  == EarGoes("judge", "asleep") /\ counted /\ chain' = TRUE /\ TaskResets
WakesEar == EarGoes("asleep", "listen") /\ TaskResets /\ UNCHANGED chain
\* Somebody comes back into the room.
Reenters == EarGoes("listen", "listen") /\ fed # resetAt /\ TaskResets /\ UNCHANGED chain

-----------------------------------------------------------------------------
(* wake_word_reset from main, in wake_word_task_resume.                     *)
Cleans(here, there) ==
  /\ cleaning = here /\ cleaning' = there
  /\ overlap' = (Busy \/ (overlap /\ here # "no"))
  /\ UNCHANGED <<upVars, ear, fed, feedVars>>

CleansFrontend ==
  /\ Cleans("no", "model") /\ chain /\ held' = <<>>
  /\ spoiled' = (spoiled \/ Busy)
  /\ UNCHANGED <<slot, seen, score, chain, resetAt>>
CleansModel ==
  /\ Cleans("model", "slot") /\ seen' = <<>>
  /\ spoiled' = (spoiled \/ Busy)
  /\ UNCHANGED <<held, slot, score, chain, resetAt>>
CleansSlot ==
  /\ Cleans("slot", "score") /\ slot' = 0
  /\ spoiled' = (spoiled \/ Busy)
  /\ UNCHANGED <<held, seen, score, chain, resetAt>>
CleansScore ==
  /\ Cleans("score", "no") /\ score' = <<>> /\ chain' = FALSE
  /\ spoiled' = overlap' /\ resetAt' = fed
  /\ UNCHANGED <<held, slot, seen>>

WakeNext ==
  \/ MicInit \/ ReaderStarts \/ ModelInit
  \/ (\E n \in 1..Hop : Takes(n)) \/ Copies \/ Shifts \/ Pushes \/ Advances
  \/ Invokes \/ InvokeFails \/ Counts \/ FeedReturns
  \/ Judges \/ Detects \/ WakesEar \/ Reenters
  \/ CleansFrontend \/ CleansModel \/ CleansSlot \/ CleansScore

WakeSpec == WakeInit /\ [][WakeNext]_earVars

-----------------------------------------------------------------------------
(* Properties.                                                              *)

\* However the samples were cut into chunks, a score rests on every sample fed since
\* the last reset and on none before it, in windows a hop apart, unless that reset met a
\* feed on the other task or an inference failed; and the next reset that meets none
\* makes good what these have spoiled.  Nor does a copy leave the window's buffer.
EvidenceSound ==
  ~spoiled => ear # "lost" /\
    \A i \in 1..Len(score) : score[i] = [j \in 1..WinLen |-> resetAt + (i - 1) * Hop + j]
=============================================================================
