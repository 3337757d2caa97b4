---------------------------- MODULE WakeProofs ----------------------------
(***************************************************************************)
(* The way to a detection.  Of the gate (WakeGate), for any ring, mute,    *)
(* warm-up and streak: the unit does not hear itself as long as no         *)
(* conversation outlasts the mute, and detects only on what the model      *)
(* scored since its last reset, but for a resume that races the task.  Of  *)
(* the inference (WakeWord), for any window, hop and stride: on which      *)
(* audio a score rests, with resets and failed inferences in between.      *)
(***************************************************************************)
EXTENDS WakeGate, WakeWord, TLAPS

-----------------------------------------------------------------------------
(* The gate: what makes its properties inductive.                           *)

\* While credits are swallowed there are some.
CreditsLoaded == task = "drain" => loaded > 0

GateTypeOK == TypeOK /\ CreditsLoaded

\* Where the task cannot feed.
Silenced == task \in {"mute", "sleep", "unmute"}

\* A detection that main has not yet acted upon is as young as its mute.
JustMuted == task = "mute" \/ (task = "sleep" /\ sleep = Mute)
BitFollowed ==
  /\ bit => main = "wait"
  /\ bit \/ main = "check" => JustMuted

\* The two seconds without WiFi are over before the mute is.
SkipMuted ==
  main = "skip" => \/ JustMuted
                   \/ task = "sleep" /\ sleep = Mute - 1 /\ age > 0

\* During a conversation the task does not feed.
ChainSilenced == InChain => Silenced

\* A conversation fills the ring before the unit speaks.
RingFills ==
  /\ main = "turn" => Len(ring) >= age \/ Len(ring) >= RingCap
  /\ main = "speak" => Len(ring) = RingCap

\* So nothing the unit says is in the ring or on its way to the model.
OnlyRoom ==
  /\ chunk = "room" /\ ~ownHeard
  /\ \A i \in 1..Len(ring) : ring[i] = "room"

\* Credits and inferences since the reset make up the warm-up, and beyond it the
\* streak: before, after and without the result at hand.  Main's resume owes the
\* credits a step after the reset; what the task does meanwhile is a race.
Credited(n) ==
  /\ warmup + fresh >= Warmup + n
  /\ warmup = 0 => fresh >= Warmup + consec + n
StreakIsFresh ==
  /\ Silenced => consec = 0
  /\ task = "unmute" => warmup = Warmup
  /\ ~raced =>
       /\ main = "rewarm" => ~AtWork
       /\ task \in {"consume", "gate"} /\ main # "rewarm" => Credited(0)
       /\ task = "fed" => Credited(steps)
       /\ task = "drain" => loaded = warmup /\ warmup + fresh >= Warmup + steps
       /\ task = "judge" => warmup = 0 /\ fresh >= Warmup + consec + steps

GateInv ==
  /\ ~outlasted =>
       BitFollowed /\ SkipMuted /\ ChainSilenced /\ RingFills /\ OnlyRoom /\ ~raced
  /\ StreakIsFresh

-----------------------------------------------------------------------------
(* What happens to the ring.                                                *)

LEMMA NoneKept == <<>> \in Seq({"room", "own"}) /\ Len(<<>>) = 0
  OBVIOUS

\* A chunk from its front.
LEMMA TakenFacts ==
  ASSUME ring \in Seq({"room", "own"}), ring # <<>>
  PROVE  /\ Head(ring) \in {"room", "own"} /\ Head(ring) = ring[1]
         /\ Tail(ring) \in Seq({"room", "own"}) /\ Len(Tail(ring)) = Len(ring) - 1
         /\ \A i \in 1..Len(Tail(ring)) : i + 1 \in 1..Len(ring) /\ Tail(ring)[i] = ring[i + 1]
  OBVIOUS

\* A chunk at its end.
LEMMA KeptFacts ==
  ASSUME ring \in Seq({"room", "own"}), Len(ring) <= RingCap, NEW c \in {"room", "own"}
  PROVE  /\ Keep(c) \in Seq({"room", "own"}) /\ Len(Keep(c)) <= RingCap
         /\ Len(ring) = RingCap => Keep(c) = ring
         /\ Len(ring) < RingCap => Len(Keep(c)) = Len(ring) + 1
         /\ (c = "room" /\ \A i \in 1..Len(ring) : ring[i] = "room")
              => \A i \in 1..Len(Keep(c)) : Keep(c)[i] = "room"
  BY GateAssumption DEF Keep

\* Counting stops at a limit.
LEMMA CountsUp ==
  ASSUME NEW e \in Nat, NEW a \in 0..e, NEW n \in {0, 1}, NEW b, b = IF a + n < e THEN a + n ELSE e
  PROVE  b \in 0..e /\ b \in Nat /\ (b = e \/ b = a + n)
  OBVIOUS

LEMMA CreditCounts ==
  ASSUME NEW owed \in Nat, NEW least \in Nat \ {0}, NEW credit \in Nat, NEW streak \in 0..least - 1,
         NEW a \in 0..owed + least, NEW n \in {0, 1}, NEW b, b = owed + least \/ b = a + n,
         credit + a >= owed, credit = 0 => a >= owed + streak
  PROVE  credit + b >= owed + n /\ (credit = 0 => b >= owed + streak + n)
  OBVIOUS

-----------------------------------------------------------------------------
(* Types.                                                                   *)

LEMMA GateInitOK == Init => GateTypeOK /\ GateInv
  <1> SUFFICES ASSUME Init PROVE GateTypeOK /\ GateInv
    OBVIOUS
  <1> USE GateAssumption DEF Init
  <1>1. ring \in Seq({"room", "own"}) /\ Len(ring) = 0
    BY NoneKept
  <1>2. GateTypeOK
    <2>1. fresh \in 0..Enough /\ warmup \in 0..Warmup /\ consec \in 0..Consecutive - 1
      BY DEF Enough
    <2>2. /\ bit \in BOOLEAN /\ paused \in BOOLEAN /\ above \in BOOLEAN /\ occupied \in BOOLEAN
          /\ room \in BOOLEAN /\ ownHeard \in BOOLEAN /\ outlasted \in BOOLEAN
          /\ raced \in BOOLEAN
      OBVIOUS
    <2>3. /\ main = "wait" /\ task = "consume" /\ chunk = "room"
          /\ age = 0 /\ steps = 0 /\ loaded = 0 /\ sleep = 0
      OBVIOUS
    <2> HIDE DEF Init
    <2> QED BY <1>1, <2>1, <2>2, <2>3 DEF GateTypeOK, TypeOK, CreditsLoaded
  <1>3. BitFollowed /\ SkipMuted /\ ChainSilenced /\ RingFills
    BY DEF BitFollowed, SkipMuted, ChainSilenced, InChain, RingFills
  <1>4. OnlyRoom
    BY <1>1 DEF OnlyRoom
  <1>5. StreakIsFresh /\ ~raced
    BY DEF StreakIsFresh, AtWork, Silenced, Credited, Enough
  <1> QED BY <1>2, <1>3, <1>4, <1>5 DEF GateInv

\* Every step keeps the types.
LEMMA GateStepTypes == GateTypeOK /\ [Next]_vars => GateTypeOK'
  <1> SUFFICES ASSUME GateTypeOK, [Next]_vars PROVE GateTypeOK'
    OBVIOUS
  <1> USE GateAssumption DEF GateTypeOK, TypeOK, CreditsLoaded
  <1>1. CASE Tick
    <2>1. ring' \in Seq({"room", "own"}) /\ Len(ring') <= RingCap
      BY <1>1, KeptFacts DEF Tick
    <2>2. age' \in 0..RecordTime /\ sleep' \in 0..Mute
      BY <1>1 DEF Tick
    <2> QED BY <1>1, <2>1, <2>2 DEF Tick, flagVars, histVars
  <1>2. CASE RoomChanges
    BY <1>2 DEF RoomChanges, mainVars, taskVars, flagVars, histVars
  <1>3. CASE WifiDown \/ SkipEnds \/ TurnSpeaks \/ ChainEnds \/ FollowupHears
             \/ FollowupExpires \/ Settles
    BY <1>3 DEF WifiDown, SkipEnds, TurnSpeaks, ChainEnds, FollowupHears,
       FollowupExpires, Settles, Pass, Go, taskVars, flagVars, histVars
  <1>4. CASE Wakes \/ Pause \/ Resumes
    <2>1. CASE Wakes
      <3>1. bit' \in BOOLEAN
        BY <2>1 DEF Wakes
      <3> QED BY <2>1, <3>1 DEF Wakes, Go, taskVars, flagVars, histVars
    <2>2. CASE Pause
      BY <2>2 DEF Pause, Go, taskVars, histVars
    <2>3. CASE Resumes
      <3>1. paused' \in BOOLEAN
        BY <2>3 DEF Resumes, ResumeClears
      <3> QED BY <2>3, <3>1 DEF Resumes, ResumeClears, Go, taskVars, histVars
    <2> QED BY <1>4, <2>1, <2>2, <2>3
  <1>5. CASE ResumeResets \/ ResumeWarms
    <2>1. CASE ResumeResets
      <3>1. raced' \in BOOLEAN
        BY <2>1 DEF ResumeResets, AtWork
      <3> QED BY <2>1, <3>1 DEF ResumeResets, Go, Enough, taskVars, flagVars, histVars
    <2>2. CASE ResumeWarms
      <3>1. raced' \in BOOLEAN
        BY <2>2 DEF ResumeWarms, AtWork
      <3> QED BY <2>2, <3>1 DEF ResumeWarms, Go, Enough, taskVars, flagVars, histVars
    <2> QED BY <1>5, <2>1, <2>2
  <1>6. CASE FollowupFlushes \/ FollowupOpens
    <2>1. ring' \in Seq({"room", "own"}) /\ Len(ring') = 0
      BY <1>6, NoneKept DEF FollowupFlushes, FollowupOpens, Flush
    <2>2. CASE FollowupFlushes
      BY <2>1, <2>2 DEF FollowupFlushes, Flush, Go, taskVars, flagVars, histVars
    <2>3. CASE FollowupOpens
      BY <2>1, <2>3 DEF FollowupOpens, Flush, Go, taskVars, flagVars, histVars
    <2> QED BY <1>6, <2>2, <2>3
  <1>7. CASE FollowupReads
    BY <1>7, TakenFacts DEF FollowupReads, mainVars, taskVars, flagVars, histVars
  <1>8. CASE Consume
    <2>1. ring' \in Seq({"room", "own"}) /\ Len(ring') <= RingCap /\ chunk' \in {"room", "own"}
      BY <1>8, TakenFacts DEF Consume
    <2>2. raced' \in BOOLEAN
      BY <1>8 DEF Consume
    <2> QED BY <1>8, <2>1, <2>2 DEF Consume, mainVars, Enough
  <1>9. CASE PausedDrops
    BY <1>9 DEF PausedDrops, Task, mainVars, flagVars, histVars
  <1>10. CASE Feed
    <2>1. ownHeard' \in BOOLEAN /\ above' \in BOOLEAN /\ raced' \in BOOLEAN
      BY <1>10 DEF Feed
    <2>2. steps' \in {0, 1} /\ fresh' = IF fresh + steps' < Enough THEN fresh + steps' ELSE Enough
      BY <1>10 DEF Feed
    <2>3. fresh' \in 0..Enough
      <3>1. Enough \in Nat /\ fresh \in 0..Enough
        BY DEF Enough
      <3> HIDE DEF GateTypeOK, TypeOK, CreditsLoaded
      <3> QED BY <2>2, <3>1, CountsUp
    <2> QED BY <1>10, <2>1, <2>2, <2>3 DEF Feed, Task, mainVars, flagVars
  <1>11. CASE LoadWarmup
    BY <1>11 DEF LoadWarmup, mainVars, flagVars, histVars
  <1>12. CASE DrainWarmup
    BY <1>12 DEF DrainWarmup, Task, mainVars, histVars
  <1>13. CASE Judge
    <2>1. consec' \in 0..Consecutive - 1
      BY <1>13 DEF Judge, FireClearsStreak, Streak, Passing
    <2> QED BY <1>13, <2>1 DEF Judge, Task, mainVars, flagVars, histVars
  <1>14. CASE Fire
    <2>1. bit' \in BOOLEAN /\ consec' \in 0..Consecutive - 1
      BY <1>14 DEF Fire, FireClearsStreak
    <2> QED BY <1>14, <2>1 DEF Fire, FireClearsStreak, Task, flagVars, histVars
  <1>15. CASE MutesItself
    <2>1. raced' \in BOOLEAN /\ paused' \in BOOLEAN
      BY <1>15 DEF MutesItself
    <2> QED BY <1>15, <2>1 DEF MutesItself, Task, Enough, mainVars
  <1>16. CASE WakesUp
    <2>1. raced' \in BOOLEAN
      BY <1>16 DEF WakesUp
    <2> QED BY <1>16, <2>1 DEF WakesUp, OweWarmup, Task, Enough, mainVars
  <1>17. CASE Unmutes
    <2>1. outlasted' \in BOOLEAN /\ paused' \in BOOLEAN
      BY <1>17 DEF Unmutes
    <2> QED BY <1>17, <2>1 DEF Unmutes, Task, mainVars
  <1>18. CASE UNCHANGED vars
    BY <1>18 DEF vars, mainVars, taskVars, flagVars, histVars
  <1> QED
    BY <1>1, <1>2, <1>3, <1>4, <1>5, <1>6, <1>7, <1>8, <1>9, <1>10, <1>11, <1>12, <1>13, <1>14,
       <1>15, <1>16, <1>17, <1>18 DEF Next, MainStep, TaskStep

\* THEOREM.  Every state of the gate is well typed: the ring never holds more than
\* RingCap chunks, the credits never fall below zero.
THEOREM GateTypes == Spec => []TypeOK
  <1>1. Init => GateTypeOK
    BY GateInitOK
  <1>2. GateTypeOK /\ [Next]_vars => GateTypeOK'
    BY GateStepTypes
  <1>3. GateTypeOK => TypeOK
    BY DEF GateTypeOK
  <1> QED BY <1>1, <1>2, <1>3, PTL DEF Spec

-----------------------------------------------------------------------------
(* The gate: until a conversation outlasts the mute, and the streak beyond. *)

Positions == BitFollowed /\ SkipMuted /\ ChainSilenced

\* What a step does not touch, it keeps.
LEMMA PositionsStay ==
  ASSUME Positions, UNCHANGED <<mainVars, task, sleep>> PROVE Positions'
  BY DEF Positions, BitFollowed, SkipMuted, ChainSilenced, JustMuted, InChain, Silenced, mainVars
LEMMA FillStays ==
  ASSUME RingFills, UNCHANGED <<main, age, ring>> PROVE RingFills'
  BY DEF RingFills
LEMMA RoomStays ==
  ASSUME OnlyRoom, UNCHANGED <<chunk, ring, ownHeard>> PROVE OnlyRoom'
  BY DEF OnlyRoom
LEMMA StreakStays ==
  ASSUME StreakIsFresh, UNCHANGED <<task, steps, loaded, consec, warmup, fresh, raced>>,
         main' = "rewarm" <=> main = "rewarm"
  PROVE  StreakIsFresh'
  BY DEF StreakIsFresh, AtWork, Credited, Silenced

GatePromise == Positions /\ RingFills /\ OnlyRoom /\ ~raced

LEMMA TickInv ==
  ASSUME GateTypeOK, GatePromise, Tick PROVE GatePromise'
  <1> USE GateAssumption DEF GateTypeOK, TypeOK, GatePromise
  <1>1. Positions'
    <2>1. BitFollowed'
      BY DEF Tick, Positions, BitFollowed, JustMuted, flagVars
    <2>2. SkipMuted'
      BY DEF Tick, Positions, SkipMuted, JustMuted
    <2>3. ChainSilenced'
      BY DEF Tick, Positions, ChainSilenced, InChain, Silenced
    <2> QED BY <2>1, <2>2, <2>3 DEF Positions
  <1>2. RingFills'
    <2>1. CASE main = "turn"
      BY <2>1, KeptFacts DEF Tick, RingFills
    <2>2. CASE main = "speak"
      BY <2>2, KeptFacts DEF Tick, RingFills
    <2>3. CASE main \notin {"turn", "speak"}
      BY <2>3 DEF Tick, RingFills
    <2> QED BY <2>1, <2>2, <2>3
  <1>3. OnlyRoom'
    <2>1. CASE main = "speak"
      BY <2>1, KeptFacts DEF Tick, RingFills, OnlyRoom, histVars
    <2>2. CASE main # "speak"
      BY <2>2, KeptFacts DEF Tick, OnlyRoom, histVars
    <2> QED BY <2>1, <2>2
  <1>4. ~raced'
    BY DEF Tick, histVars
  <1> QED BY <1>1, <1>2, <1>3, <1>4

\* main's steps.  Only where it wakes or leaves a wait does its position say anything new.
LEMMA MainInv ==
  ASSUME GateTypeOK, GatePromise, MainStep PROVE GatePromise'
  <1> USE DEF GatePromise
  <1>1. Positions'
    <2>1. CASE Wakes
      BY <2>1 DEF Wakes, Go, Positions, BitFollowed, SkipMuted, ChainSilenced, JustMuted, InChain, Silenced,
         taskVars
    <2>2. CASE WifiDown \/ SkipEnds
      BY <2>2 DEF WifiDown, SkipEnds, Pass, Go, Positions, BitFollowed, SkipMuted, ChainSilenced, JustMuted,
         InChain, Silenced, taskVars
    <2>3. CASE Pause
      BY <2>3 DEF Pause, Go, Positions, BitFollowed, SkipMuted, ChainSilenced, JustMuted, InChain, Silenced,
         taskVars
    <2>4. CASE TurnSpeaks \/ ChainEnds \/ FollowupHears \/ FollowupExpires \/ Settles
      BY <2>4 DEF TurnSpeaks, ChainEnds, FollowupHears, FollowupExpires, Settles, Pass, Go,
         Positions, BitFollowed, SkipMuted, ChainSilenced, InChain, Silenced, taskVars
    <2>5. CASE FollowupFlushes \/ FollowupOpens \/ FollowupReads
      BY <2>5 DEF FollowupFlushes, FollowupOpens, FollowupReads, Flush, Go, Positions, BitFollowed,
         SkipMuted, ChainSilenced, InChain, Silenced, mainVars, taskVars
    <2>6. CASE ResumeResets \/ ResumeWarms \/ Resumes
      BY <2>6 DEF ResumeResets, ResumeWarms, Resumes, ResumeClears, Go, Positions, BitFollowed, SkipMuted, ChainSilenced,
         InChain, Silenced, taskVars
    <2> QED BY <2>1, <2>2, <2>3, <2>4, <2>5, <2>6 DEF MainStep
  <1>2. RingFills'
    <2>1. CASE TurnSpeaks
      BY <2>1, GateAssumption DEF TurnSpeaks, Pass, Go, RingFills, GateTypeOK, TypeOK
    <2>2. CASE Pause \/ FollowupHears
      BY <2>2 DEF Pause, FollowupHears, Pass, Go, RingFills, GateTypeOK, TypeOK
    <2>3. main' \notin {"turn", "speak"} \/ TurnSpeaks \/ Pause \/ FollowupHears
      BY DEF MainStep, Wakes, WifiDown, SkipEnds, ChainEnds, FollowupFlushes, FollowupOpens,
         FollowupReads, FollowupExpires, Settles, ResumeResets, ResumeWarms, Resumes, ResumeClears, Pass,
         Flush, Go, mainVars
    <2> QED BY <2>1, <2>2, <2>3 DEF RingFills
  <1>3. OnlyRoom'
    <2>1. CASE FollowupFlushes \/ FollowupOpens
      BY <2>1, NoneKept DEF FollowupFlushes, FollowupOpens, Flush, OnlyRoom, taskVars, histVars
    <2>2. CASE FollowupReads
      BY <2>2, TakenFacts DEF FollowupReads, OnlyRoom, taskVars, histVars, GateTypeOK, TypeOK
    <2>3. UNCHANGED <<chunk, ring, ownHeard>> \/ FollowupFlushes \/ FollowupOpens \/ FollowupReads
      BY DEF MainStep, Wakes, WifiDown, SkipEnds, Pause, TurnSpeaks, ChainEnds, FollowupHears,
         FollowupExpires, Settles, ResumeResets, ResumeWarms, Resumes, Pass, taskVars, histVars
    <2> QED BY <2>1, <2>2, <2>3, RoomStays
  <1>4. ~raced'
    <2>1. CASE ResumeResets \/ ResumeWarms
      <3>1. Silenced
        BY <2>1 DEF ResumeResets, ResumeWarms, Go, Positions, ChainSilenced, InChain
      <3> QED BY <2>1, <3>1 DEF ResumeResets, ResumeWarms, AtWork, Silenced
    <2>2. UNCHANGED raced \/ ResumeResets \/ ResumeWarms
      BY DEF MainStep, Wakes, WifiDown, SkipEnds, Pause, TurnSpeaks, ChainEnds, FollowupFlushes,
         FollowupOpens, FollowupReads, FollowupHears, FollowupExpires, Settles, Resumes, Pass, Flush, taskVars,
         flagVars, histVars
    <2> QED BY <2>1, <2>2
  <1> QED BY <1>1, <1>2, <1>3, <1>4

\* The task's steps; the one that could break the promise is marked by outlasted.
LEMMA TaskInv ==
  ASSUME GateTypeOK, GatePromise, TaskStep, ~outlasted' PROVE GatePromise'
  <1> USE GateAssumption DEF GatePromise
  <1>1. Positions'
    <2>1. CASE Consume
      BY <2>1 DEF Consume, Positions, BitFollowed, SkipMuted, ChainSilenced, JustMuted, Silenced, InChain, mainVars
    <2>2. CASE PausedDrops \/ Feed \/ LoadWarmup \/ DrainWarmup \/ Judge
      BY <2>2 DEF PausedDrops, Feed, LoadWarmup, DrainWarmup, Judge, Task, Positions, BitFollowed, SkipMuted,
         ChainSilenced, JustMuted, Silenced, InChain, mainVars
    <2>3. CASE Fire
      <3>1. main = "wait"
        BY <2>3 DEF Fire, Task, Positions, BitFollowed, SkipMuted, ChainSilenced, JustMuted, Silenced, InChain
      <3> QED BY <2>3, <3>1 DEF Fire, Task, Positions, BitFollowed, SkipMuted, ChainSilenced, JustMuted, InChain
    <2>4. CASE MutesItself
      BY <2>4 DEF MutesItself, Task, Positions, BitFollowed, SkipMuted, ChainSilenced, JustMuted, Silenced,
         InChain, mainVars
    <2>5. CASE WakesUp
      BY <2>5 DEF WakesUp, Task, Positions, BitFollowed, SkipMuted, ChainSilenced, JustMuted, Silenced,
         InChain, mainVars
    <2>6. CASE Unmutes
      BY <2>6 DEF Unmutes, Task, Positions, BitFollowed, SkipMuted, ChainSilenced, JustMuted, Silenced,
         InChain, mainVars
    <2> QED BY <2>1, <2>2, <2>3, <2>4, <2>5, <2>6 DEF TaskStep
  <1>2. RingFills'
    <2>1. CASE Consume
      <3>1. main \notin {"turn", "speak"}
        BY <2>1 DEF Consume, Positions, ChainSilenced, Silenced, InChain
      <3> QED BY <2>1, <3>1 DEF Consume, RingFills, mainVars
    <2>2. UNCHANGED <<main, age, ring>> \/ Consume
      BY DEF TaskStep, PausedDrops, Feed, LoadWarmup, DrainWarmup, Judge, Fire, MutesItself, WakesUp, Unmutes,
         mainVars
    <2> QED BY <2>1, <2>2, FillStays
  <1>3. OnlyRoom'
    <2>1. CASE Consume
      BY <2>1, TakenFacts DEF Consume, OnlyRoom, GateTypeOK, TypeOK
    <2>2. CASE Feed
      BY <2>2 DEF Feed, OnlyRoom
    <2>3. UNCHANGED <<chunk, ring, ownHeard>> \/ Consume \/ Feed
      BY DEF TaskStep, PausedDrops, LoadWarmup, DrainWarmup, Judge, Fire, MutesItself, WakesUp, Unmutes, histVars
    <2> QED BY <2>1, <2>2, <2>3, RoomStays
  <1>4. ~raced'
    <2>1. CASE Feed
      BY <2>1 DEF Feed, Task, Positions, ChainSilenced, InChain, Silenced
    <2>2. UNCHANGED raced \/ raced' = FALSE \/ Feed
      BY DEF TaskStep, Consume, PausedDrops, LoadWarmup, DrainWarmup, Judge, Fire, MutesItself, WakesUp,
         Unmutes, histVars
    <2> QED BY <2>1, <2>2
  <1> QED BY <1>1, <1>2, <1>3, <1>4

\* Main's steps and the streak: a resume that meets the task at work is a race.
LEMMA StreakMain ==
  ASSUME GateTypeOK, StreakIsFresh, MainStep PROVE StreakIsFresh'
  <1> USE GateAssumption
  <1>1. CASE ResumeResets
    <2>1. /\ main' = "rewarm" /\ (raced' <=> AtWork)
          /\ UNCHANGED <<task, consec, warmup>>
      BY <1>1 DEF ResumeResets, Go, taskVars, flagVars
    <2> QED BY <2>1 DEF StreakIsFresh, AtWork, Silenced
  <1>2. CASE ResumeWarms
    <2>1. /\ main' = "unpause" /\ warmup' = Warmup /\ (raced' <=> raced \/ AtWork)
          /\ UNCHANGED <<task, consec, fresh>>
      BY <1>2 DEF ResumeWarms, Go, taskVars
    <2>2. fresh \in Nat
      BY DEF GateTypeOK, TypeOK
    <2> QED BY <2>1, <2>2 DEF StreakIsFresh, AtWork, Silenced, Credited
  <1>3. CASE ~ResumeResets /\ ~ResumeWarms
    <2>1. UNCHANGED <<task, steps, loaded, consec, warmup, fresh, raced>>
      BY <1>3 DEF MainStep, Wakes, WifiDown, SkipEnds, Pause, TurnSpeaks, ChainEnds, FollowupFlushes,
         FollowupOpens, FollowupReads, FollowupHears, FollowupExpires, Settles, Resumes, Pass, Flush, taskVars,
         flagVars, histVars
    <2>2. main' = "rewarm" <=> main = "rewarm"
      BY <1>3 DEF MainStep, Wakes, WifiDown, SkipEnds, Pause, TurnSpeaks, ChainEnds, FollowupFlushes,
         FollowupOpens, FollowupReads, FollowupHears, FollowupExpires, Settles, Resumes, ResumeClears, Pass,
         Flush, Go, mainVars
    <2> QED BY <2>1, <2>2, StreakStays
  <1> QED BY <1>1, <1>2, <1>3

\* The task's steps and the streak.
LEMMA StreakTask ==
  ASSUME GateTypeOK, StreakIsFresh, TaskStep PROVE StreakIsFresh'
  <1> USE GateAssumption
  <1> USE DEF GateTypeOK, TypeOK
  <1>0. main' = main
    BY DEF TaskStep, Consume, PausedDrops, Feed, LoadWarmup, DrainWarmup, Judge, Fire, MutesItself, WakesUp,
       Unmutes, mainVars
  <1>1. CASE Consume
    <2>1. CASE room /\ ~occupied
      BY <1>1, <2>1 DEF Consume, StreakIsFresh, AtWork, Credited, Silenced
    <2>2. CASE ~(room /\ ~occupied)
      <3>1. UNCHANGED <<consec, warmup, fresh, raced>> /\ task = "consume" /\ task' \in {"gate", "consume"}
        BY <1>1, <2>2 DEF Consume
      <3> QED BY <1>0, <3>1 DEF StreakIsFresh, AtWork, Credited, Silenced
    <2> QED BY <2>1, <2>2
  <1>2. CASE PausedDrops
    BY <1>0, <1>2 DEF PausedDrops, Task, StreakIsFresh, AtWork, Credited, Silenced, flagVars, histVars
  <1>3. CASE Feed
    <2>1. /\ task = "gate" /\ task' = "fed" /\ UNCHANGED <<warmup, consec>> /\ steps' \in {0, 1}
          /\ fresh' = IF fresh + steps' < Enough THEN fresh + steps' ELSE Enough
      BY <1>3 DEF Feed, Task, flagVars
    <2>2. ~raced' => ~raced /\ main # "rewarm"
      BY <1>3 DEF Feed
    <2>3. /\ Warmup \in Nat /\ Consecutive \in Nat \ {0} /\ Enough = Warmup + Consecutive
          /\ warmup \in Nat /\ consec \in 0..Consecutive - 1 /\ fresh \in 0..Enough
      BY DEF Enough
    <2>4. ASSUME ~raced' PROVE Credited(steps)'
      <3>1. warmup + fresh >= Warmup /\ (warmup = 0 => fresh >= Warmup + consec)
        BY <2>1, <2>2, <2>3, <2>4 DEF StreakIsFresh, Credited
      <3> HIDE GateAssumption DEF GateTypeOK, TypeOK
      <3>2. Enough \in Nat
        BY <2>3
      <3>3. fresh' \in Nat /\ (fresh' = Enough \/ fresh' = fresh + steps')
        BY <2>1, <2>3, <3>2, CountsUp
      <3>4. warmup + fresh' >= Warmup + steps' /\ (warmup = 0 => fresh' >= Warmup + consec + steps')
        BY <2>1, <2>3, <3>1, <3>3, CreditCounts
      <3> QED BY <2>1, <3>4 DEF Credited
    <2> QED BY <1>0, <2>1, <2>2, <2>4 DEF StreakIsFresh, AtWork, Silenced
  <1>4. CASE LoadWarmup
    BY <1>0, <1>4 DEF LoadWarmup, StreakIsFresh, AtWork, Credited, Silenced, flagVars, histVars
  <1>5. CASE DrainWarmup
    BY <1>0, <1>5 DEF DrainWarmup, Task, StreakIsFresh, AtWork, Credited, Silenced, histVars, CreditsLoaded
  <1>6. CASE Judge
    BY <1>0, <1>6 DEF Judge, Task, FireClearsStreak, Streak, Passing, StreakIsFresh, AtWork, Credited,
       Silenced, flagVars, histVars
  <1>7. CASE Fire
    BY <1>0, <1>7 DEF Fire, Task, FireClearsStreak, StreakIsFresh, AtWork, Credited, Silenced, flagVars, histVars
  <1>8. CASE MutesItself \/ WakesUp
    BY <1>0, <1>8 DEF MutesItself, WakesUp, OweWarmup, Task, StreakIsFresh, AtWork, Credited, Silenced
  <1>9. CASE Unmutes
    <2>1. /\ task = "unmute" /\ task' = "consume" /\ UNCHANGED <<warmup, consec, fresh, raced>>
      BY <1>9 DEF Unmutes, Task
    <2> QED BY <1>0, <2>1 DEF StreakIsFresh, AtWork, Credited, Silenced
  <1> QED BY <1>1, <1>2, <1>3, <1>4, <1>5, <1>6, <1>7, <1>8, <1>9 DEF TaskStep

LEMMA GateStepInv == GateTypeOK /\ GateInv /\ [Next]_vars => GateInv'
  <1> SUFFICES ASSUME GateTypeOK, GateInv, [Next]_vars PROVE GateInv'
    OBVIOUS
  <1>1. StreakIsFresh'
    <2>1. CASE Tick \/ RoomChanges \/ UNCHANGED vars
      <3>1. UNCHANGED <<main, task, steps, loaded, consec, warmup, fresh, raced>>
        BY <2>1 DEF Tick, RoomChanges, vars, mainVars, taskVars, flagVars, histVars
      <3> QED BY <3>1, StreakStays DEF GateInv
    <2> QED BY <2>1, StreakMain, StreakTask DEF Next, GateInv
  <1>2. ASSUME ~outlasted' PROVE GatePromise'
    <2>1. ~outlasted
      BY <1>2 DEF Next, Tick, RoomChanges, MainStep, Wakes, WifiDown, SkipEnds, Pause, TurnSpeaks,
         ChainEnds, FollowupFlushes, FollowupOpens, FollowupReads, FollowupHears, FollowupExpires, Settles,
         ResumeResets, ResumeWarms, Resumes, Pass, Flush, TaskStep, Consume, PausedDrops, Feed, LoadWarmup,
         DrainWarmup, Judge, Fire, MutesItself, WakesUp, Unmutes, histVars, vars
    <2>2. GatePromise
      BY <2>1 DEF GateInv, GatePromise, Positions
    <2>3. CASE RoomChanges \/ UNCHANGED vars
      <3>1. UNCHANGED <<mainVars, taskVars, flagVars, ring, histVars>>
        BY <2>3 DEF RoomChanges, vars
      <3>2. Positions' /\ RingFills' /\ OnlyRoom' /\ ~raced'
        BY <2>2, <3>1, PositionsStay, FillStays, RoomStays DEF GatePromise, mainVars, taskVars, histVars
      <3> QED BY <3>2 DEF GatePromise
    <2> QED BY <1>2, <2>2, <2>3, TickInv, MainInv, TaskInv DEF Next
  <1> QED BY <1>1, <1>2 DEF GateInv, GatePromise, Positions

LEMMA GateInductive == Spec => [](GateTypeOK /\ GateInv)
  BY GateInitOK, GateStepTypes, GateStepInv, PTL DEF Spec

\* THEOREM.  What the unit says itself reaches its model only after a conversation has
\* outlasted the mute, whatever the sizes: the ring, which drops what is new, is full of
\* the beginning of the turn when the reply begins.
THEOREM OwnVoiceKeptOut == Spec => []OwnVoiceUnheard
  <1>1. GateTypeOK /\ GateInv => OwnVoiceUnheard
    BY DEF GateInv, OnlyRoom, OwnVoiceUnheard
  <1> QED BY <1>1, GateInductive, PTL

\* THEOREM.  A detection rests on Consecutive inferences since the last reset, and the
\* warm-up before them, whichever task did the reset and however long the conversation
\* was, unless a resume of main that was left without its pause ran into the task's work
\* since that reset.
THEOREM DetectsFresh == Spec => FreshStreak
  <1>1. GateTypeOK /\ GateInv /\ [Next]_vars => [Fire => fresh = Enough \/ (raced /\ outlasted)]_vars
    <2> SUFFICES ASSUME GateTypeOK, GateInv, Fire PROVE fresh = Enough \/ (raced /\ outlasted)
      OBVIOUS
    <2>1. CASE raced
      BY <2>1 DEF GateInv
    <2>2. CASE ~raced
      <3>1. fresh >= Warmup + consec + 1 /\ consec + 1 >= Consecutive
        BY <2>2 DEF GateInv, StreakIsFresh, Fire, Task, Passing, Streak
      <3> QED BY <3>1, GateAssumption DEF GateTypeOK, TypeOK, Enough
    <2> QED BY <2>1, <2>2
  <1> QED BY <1>1, GateInductive, PTL DEF Spec, FreshStreak

-----------------------------------------------------------------------------
(* The evidence: what makes its property inductive.                         *)

Rests == ear \in {"none", "deleted", "listen", "judge", "asleep"}

EarTypeOK ==
  /\ ear \in {"none", "deleted", "listen", "copy", "shift", "push", "advance", "invoke",
              "count", "judge", "asleep", "lost"}
  /\ cleaning \in {"no", "model", "slot", "score"}
  /\ fed \in Nat /\ resetAt \in Nat
  /\ pcm \in Seq(Nat)
  /\ held \in Seq(Nat) /\ Len(held) <= WinLen
  /\ input \in Seq(Nat) /\ Len(input) <= WinLen
  /\ feats \in Seq(Seq(Nat)) /\ seen \in Seq(Seq(Nat)) /\ memo \in Seq(Seq(Nat))
  /\ score \in Seq(Seq(Nat))
  /\ slot \in 0..Stride - 1 /\ at \in 0..Stride - 1
  /\ tensor \in [0..Stride - 1 -> Seq(Nat)]

\* A feed that is over has left nothing behind in the front end's hands.
Consumed ==
  /\ ear \notin {"copy", "shift", "lost"} => pcm = <<>>
  /\ Rests => feats = <<>>

\* Where the n-th window from the last reset ends to be the one before the next, and that next.
Start(r, n) == r + n * Hop
Win(r, i)   == [j \in 1..WinLen |-> r + (i - 1) * Hop + j]

\* Slots of the tensor that hold frames the model has not seen.
Filled == IF ear = "invoke" THEN Stride ELSE IF ear = "advance" THEN slot + 1 ELSE slot
Pushed == Len(seen) + Filled
Framed == Pushed + Len(feats)

\* Every sample since the reset is in one stage or another: seen by the model, in its tensor,
\* in a frame on the way to it, in the window or still to be taken.
Steady ==
  /\ score = seen
  /\ \A i \in 1..Len(seen) : seen[i] = Win(resetAt, i)
  /\ \A s \in 0..Filled - 1 : tensor[s] = Win(resetAt, Len(seen) + s + 1)
  /\ \A i \in 1..Len(feats) : feats[i] = Win(resetAt, Pushed + i)
  /\ \A j \in 1..Len(held) : held[j] = Start(resetAt, Framed) + j
  /\ \A j \in 1..Len(pcm) : pcm[j] = Start(resetAt, Framed) + Len(held) + j
  /\ fed = Start(resetAt, Framed) + Len(held) + Len(pcm)

\* What the task relies on between its steps.
InStep ==
  /\ ear # "lost"
  /\ IF ear = "shift" THEN Len(held) = WinLen /\ input = held ELSE Len(held) < WinLen
  /\ ear = "advance" => at = slot
  /\ ear = "invoke" => slot = 0 /\ memo = seen

ScoreSound == \A i \in 1..Len(score) : score[i] = Win(resetAt, i)

\* A reset of main's that has met no feed has cleared what it has passed.
Cleared ==
  cleaning # "no" /\ ~overlap =>
    /\ ~Busy /\ held = <<>>
    /\ cleaning \in {"slot", "score"} => seen = <<>>
    /\ cleaning = "score" => slot = 0

Sound ==
  ~spoiled =>
    /\ ScoreSound
    /\ IF cleaning = "no" THEN Steady /\ InStep ELSE ~Busy

EarInv == EarTypeOK /\ Consumed /\ Cleared /\ Sound

\* Windows are a hop apart.
LEMMA StartFacts ==
  ASSUME NEW r \in Nat, NEW n \in Nat
  PROVE  /\ Start(r, n) \in Nat /\ Start(r, 0) = r
         /\ Start(r, n + 1) = Start(r, n) + Hop
         /\ Win(r, n + 1) = [j \in 1..WinLen |-> Start(r, n) + j]
  <1>1. Hop \in Nat /\ n * Hop \in Nat /\ 0 * Hop = 0 /\ (n + 1) * Hop = n * Hop + Hop
    BY WakeAssumption DEF WakeAssumption
  <1>2. (n + 1) - 1 = n
    OBVIOUS
  <1> QED BY <1>1, <1>2 DEF Start, Win

\* Some sequences of this model.
LEMMA EmptySeqs ==
  ASSUME NEW S PROVE <<>> \in Seq(S) /\ Len(<<>>) = 0
  OBVIOUS

\* The two parts of a sequence.
LEMMA CutFacts ==
  ASSUME NEW S, NEW s \in Seq(S), NEW k \in Nat, k <= Len(s)
  PROVE  /\ SubSeq(s, 1, k) \in Seq(S) /\ Len(SubSeq(s, 1, k)) = k
         /\ \A i \in 1..k : SubSeq(s, 1, k)[i] = s[i]
         /\ SubSeq(s, k + 1, Len(s)) \in Seq(S) /\ Len(SubSeq(s, k + 1, Len(s))) = Len(s) - k
         /\ \A i \in 1..Len(s) - k : SubSeq(s, k + 1, Len(s))[i] = s[k + i]
  OBVIOUS

\* One sequence after another.
LEMMA JoinFacts ==
  ASSUME NEW S, NEW s \in Seq(S), NEW t \in Seq(S)
  PROVE  /\ s \o t \in Seq(S) /\ Len(s \o t) = Len(s) + Len(t)
         /\ \A i \in 1..Len(s) : (s \o t)[i] = s[i]
         /\ \A i \in 1..Len(t) : (s \o t)[Len(s) + i] = t[i]
  OBVIOUS

\* A full tensor, as the model sees it.
LEMMA WindowFacts ==
  ASSUME tensor \in [0..Stride - 1 -> Seq(Nat)]
  PROVE  /\ Window \in Seq(Seq(Nat)) /\ Len(Window) = Stride
         /\ \A i \in 1..Stride : Window[i] = tensor[i - 1]
  <1>1. Stride \in Nat
    BY WakeAssumption DEF WakeAssumption
  <1>2. \A i \in 1..Stride : tensor[i - 1] \in Seq(Nat)
    BY <1>1
  <1>3. Window \in [1..Stride -> Seq(Nat)]
    BY <1>2 DEF Window
  <1>4. \A i \in 1..Stride : Window[i] = tensor[i - 1]
    BY DEF Window
  <1> HIDE DEF Window
  <1>5. Window \in Seq(Seq(Nat)) /\ Len(Window) = Stride
    BY <1>1, <1>3
  <1> QED BY <1>4, <1>5

LEMMA InitEar == WakeInit => EarInv
  <1> SUFFICES ASSUME WakeInit PROVE EarInv
    OBVIOUS
  <1> USE WakeAssumption DEF WakeAssumption
  <1>1. /\ pcm = <<>> /\ held = <<>> /\ input = <<>> /\ feats = <<>> /\ seen = <<>> /\ memo = <<>> /\ score = <<>>
        /\ Len(<<>>) = 0 /\ ear = "none" /\ cleaning = "no" /\ slot = 0 /\ at = 0 /\ fed = 0 /\ resetAt = 0
        /\ tensor = [s \in 0..Stride - 1 |-> <<>>]
    BY DEF WakeInit
  <1>2. <<>> \in Seq(Nat) /\ <<>> \in Seq(Seq(Nat))
    OBVIOUS
  <1>3. EarTypeOK
    BY <1>1, <1>2 DEF EarTypeOK
  <1>4. Consumed /\ Cleared
    BY <1>1 DEF Consumed, Cleared
  <1>5. Filled = 0 /\ Pushed = 0 /\ Framed = 0
    BY <1>1 DEF Filled, Pushed, Framed
  <1>6. Start(resetAt, Framed) = 0
    BY <1>1, <1>5, StartFacts
  <1>7. Steady /\ InStep /\ ScoreSound
    BY <1>1, <1>5, <1>6 DEF Steady, InStep, ScoreSound
  <1> QED BY <1>1, <1>3, <1>4, <1>7 DEF EarInv, Sound

-----------------------------------------------------------------------------
(* The evidence: types.                                                     *)

LEMMA TakesTypes ==
  ASSUME EarTypeOK, NEW n \in 1..Hop, Takes(n) PROVE EarTypeOK'
  <1>1. n \in Nat /\ fed \in Nat
    BY WakeAssumption DEF WakeAssumption, EarTypeOK
  <1>2. [i \in 1..n |-> fed + i] \in Seq(Nat)
    BY <1>1
  <1> QED BY <1>1, <1>2 DEF Takes, EarGoes, modelVars, EarTypeOK

\* What a copy takes: all that has come, or what the window has room for.
LEMMA CopyFacts ==
  ASSUME EarTypeOK, Copies
  PROVE  \E k \in Nat :
           /\ k <= Len(pcm) /\ Len(held) + k <= WinLen
           /\ held' \in Seq(Nat) /\ Len(held') = Len(held) + k
           /\ \A i \in 1..Len(held) : held'[i] = held[i]
           /\ \A i \in 1..k : held'[Len(held) + i] = pcm[i]
           /\ pcm' \in Seq(Nat) /\ Len(pcm') = Len(pcm) - k
           /\ \A i \in 1..Len(pcm) - k : pcm'[i] = pcm[k + i]
           /\ \/ ear' = "push" /\ Len(held') < WinLen /\ pcm' = <<>>
              \/ ear' = "shift" /\ Len(held') = WinLen
  <1> DEFINE space == WinLen - Len(held)
             k == IF Len(pcm) < space THEN Len(pcm) ELSE space
  <1>1. /\ pcm \in Seq(Nat) /\ held \in Seq(Nat) /\ Len(pcm) \in Nat /\ Len(held) \in Nat
        /\ WinLen \in Nat /\ space \in Nat
    BY WakeAssumption DEF WakeAssumption, EarTypeOK
  <1>2. k \in Nat /\ k <= Len(pcm) /\ Len(held) + k <= WinLen
    BY <1>1
  <1>3. /\ held' = held \o SubSeq(pcm, 1, k) /\ pcm' = SubSeq(pcm, k + 1, Len(pcm))
        /\ ear' = IF Len(pcm) < space THEN "push" ELSE "shift"
    BY DEF Copies
  <1>4. /\ Len(pcm) < space => Len(held) + k < WinLen /\ k = Len(pcm)
        /\ ~(Len(pcm) < space) => Len(held) + k = WinLen
    BY <1>1
  <1> HIDE DEF k, space
  <1>5. SubSeq(pcm, 1, k) \in Seq(Nat) /\ Len(SubSeq(pcm, 1, k)) = k /\ \A i \in 1..k : SubSeq(pcm, 1, k)[i] = pcm[i]
    BY <1>1, <1>2, CutFacts
  <1>6. /\ held' \in Seq(Nat) /\ Len(held') = Len(held) + k
        /\ \A i \in 1..Len(held) : held'[i] = held[i]
        /\ \A i \in 1..k : held'[Len(held) + i] = pcm[i]
    <2>1. PICK t \in Seq(Nat) : t = SubSeq(pcm, 1, k)
      BY <1>5
    <2>2. /\ held \o t \in Seq(Nat) /\ Len(held \o t) = Len(held) + Len(t)
          /\ \A i \in 1..Len(held) : (held \o t)[i] = held[i]
          /\ \A i \in 1..Len(t) : (held \o t)[Len(held) + i] = t[i]
      BY <1>1, JoinFacts
    <2> QED BY <1>3, <1>5, <2>1, <2>2
  <1>7. /\ pcm' \in Seq(Nat) /\ Len(pcm') = Len(pcm) - k
        /\ \A i \in 1..Len(pcm) - k : pcm'[i] = pcm[k + i]
    BY SMTT(30), <1>1, <1>2, <1>3, CutFacts
  <1>8. Len(pcm) < space => pcm' = <<>>
    BY <1>1, <1>4, <1>7
  <1> QED BY <1>2, <1>3, <1>4, <1>6, <1>7, <1>8

\* What a shift keeps.
LEMMA ShiftFacts ==
  ASSUME NEW w \in Seq(Nat)
  PROVE  /\ Shifted(w) \in Seq(Nat)
         /\ Len(w) >= Hop => /\ Len(Shifted(w)) = Len(w) - Hop
                             /\ \A j \in 1..Len(w) - Hop : Shifted(w)[j] = w[Hop + j]
         /\ Len(Shifted(w)) <= Len(w)
  <1>1. Hop \in Nat /\ Len(w) \in Nat
    BY WakeAssumption DEF WakeAssumption
  <1>2. CASE Hop <= Len(w)
    <2>1. /\ SubSeq(w, Hop + 1, Len(w)) \in Seq(Nat) /\ Len(SubSeq(w, Hop + 1, Len(w))) = Len(w) - Hop
          /\ \A j \in 1..Len(w) - Hop : SubSeq(w, Hop + 1, Len(w))[j] = w[Hop + j]
      BY <1>1, <1>2, CutFacts
    <2> QED BY <1>1, <2>1 DEF Shifted
  <1>3. CASE ~(Hop <= Len(w))
    <2>1. SubSeq(w, Hop + 1, Len(w)) = <<>>
      BY <1>1, <1>3
    <2> QED BY <1>1, <1>3, <2>1 DEF Shifted
  <1> QED BY <1>2, <1>3

LEMMA EarTypes ==
  ASSUME EarTypeOK, [WakeNext]_earVars PROVE EarTypeOK'
  <1> USE WakeAssumption DEF WakeAssumption, EarGoes, FeedOnly, UpOnly, feedVars, modelVars, upVars, resetVars
  <1>1. CASE UNCHANGED earVars
    BY <1>1 DEF earVars, EarTypeOK
  <1>2. CASE MicInit \/ ReaderStarts \/ ModelInit
    BY <1>2 DEF MicInit, ReaderStarts, ModelInit, EarTypeOK
  <1>3. CASE Copies
    <2>1. held' \in Seq(Nat) /\ Len(held') <= WinLen /\ pcm' \in Seq(Nat) /\ ear' \in {"push", "shift"}
      BY <1>3, CopyFacts DEF EarTypeOK
    <2> QED BY <1>3, <2>1 DEF Copies, EarTypeOK
  <1>4. CASE Shifts
    <2>1. Shifted(input) \in Seq(Nat) /\ Len(Shifted(input)) <= WinLen
      BY ShiftFacts DEF EarTypeOK
    <2>2. held' \in Seq(Nat) /\ Len(held') <= WinLen /\ ear' \in {"push", "copy", "lost"}
      BY <1>4, <2>1 DEF Shifts, EarTypeOK
    <2>3. feats' \in Seq(Seq(Nat))
      BY <1>4 DEF Shifts, EarTypeOK
    <2> QED BY <1>4, <2>2, <2>3 DEF Shifts, EarTypeOK
  <1>5. CASE Pushes
    <2>1. Head(feats) \in Seq(Nat) /\ Tail(feats) \in Seq(Seq(Nat))
      BY <1>5 DEF Pushes, EarTypeOK
    <2> QED BY <1>5, <2>1 DEF Pushes, EarTypeOK
  <1>6. CASE Advances
    BY <1>6 DEF Advances, EarTypeOK
  <1>7. CASE Invokes \/ InvokeFails
    <2>1. seen' \in Seq(Seq(Nat)) /\ score' \in Seq(Seq(Nat))
      <3>1. Window \in Seq(Seq(Nat))
        BY WindowFacts DEF EarTypeOK
      <3>2. \A p \in Seq(Seq(Nat)) : p \o Window \in Seq(Seq(Nat))
        BY <3>1
      <3> QED BY <1>7, <3>2 DEF Invokes, InvokeFails, EarTypeOK
    <2> QED BY <1>7, <2>1 DEF Invokes, InvokeFails, EarTypeOK
  <1>8. CASE Counts \/ FeedReturns \/ Judges
    BY <1>8 DEF Counts, FeedReturns, Judges, EarTypeOK
  <1>9. <<>> \in Seq(Nat) /\ <<>> \in Seq(Seq(Nat)) /\ Len(<<>>) = 0
    OBVIOUS
  <1>10. CASE Detects \/ WakesEar \/ Reenters
    <2>1. /\ held' = <<>> /\ seen' = <<>> /\ score' = <<>> /\ slot' = 0 /\ resetAt' = fed
          /\ UNCHANGED <<fed, feedVars, cleaning>> /\ ear' \in {"listen", "asleep"}
      BY <1>10 DEF Detects, WakesEar, Reenters, TaskResets, Clears
    <2> QED BY <1>9, <2>1 DEF EarTypeOK
  <1>11. CASE CleansFrontend \/ CleansModel \/ CleansSlot \/ CleansScore
    <2>1. /\ held' \in {held, <<>>} /\ seen' \in {seen, <<>>} /\ score' \in {score, <<>>} /\ slot' \in {slot, 0}
          /\ resetAt' \in {resetAt, fed}
          /\ UNCHANGED <<ear, fed, feedVars>> /\ cleaning' \in {"no", "model", "slot", "score"}
      BY <1>11 DEF CleansFrontend, CleansModel, CleansSlot, CleansScore, Cleans
    <2>2. held' \in Seq(Nat) /\ Len(held') <= WinLen
      <3>1. CASE held' = held
        BY <3>1 DEF EarTypeOK
      <3>2. CASE held' = <<>>
        BY <1>9, <3>2
      <3> QED BY <2>1, <3>1, <3>2
    <2>3. seen' \in Seq(Seq(Nat)) /\ score' \in Seq(Seq(Nat))
      BY <1>9, <2>1 DEF EarTypeOK
    <2>4. slot' \in 0..Stride - 1 /\ resetAt' \in Nat
      <3>1. slot' \in {slot, 0} /\ resetAt' \in {resetAt, fed}
        BY <2>1
      <3>2. slot \in 0..Stride - 1 /\ 0 \in 0..Stride - 1 /\ resetAt \in Nat /\ fed \in Nat
        BY WakeAssumption DEF EarTypeOK, WakeAssumption
      <3> QED BY <3>1, <3>2
    <2> QED BY <2>1, <2>2, <2>3, <2>4 DEF EarTypeOK
  <1> QED BY <1>1, <1>2, <1>3, <1>4, <1>5, <1>6, <1>7, <1>8, <1>10, <1>11, TakesTypes DEF WakeNext

LEMMA StepConsumed ==
  ASSUME EarTypeOK, Consumed, [WakeNext]_earVars PROVE Consumed'
  <1> USE DEF EarGoes, FeedOnly, UpOnly, feedVars, modelVars, upVars, resetVars, Consumed, Rests
  <1>1. CASE UNCHANGED earVars \/ MicInit \/ ReaderStarts \/ ModelInit
    BY <1>1 DEF earVars, MicInit, ReaderStarts, ModelInit
  <1>2. CASE \E n \in 1..Hop : Takes(n)
    BY <1>2 DEF Takes
  <1>3. CASE Copies
    BY <1>3, CopyFacts DEF Copies
  <1>4. CASE Shifts
    BY <1>4 DEF Shifts
  <1>5. CASE Pushes \/ Advances \/ Invokes \/ InvokeFails \/ Counts \/ FeedReturns \/ Judges
    BY <1>5 DEF Pushes, Advances, Invokes, InvokeFails, Counts, FeedReturns, Judges
  <1>6. CASE Detects \/ WakesEar \/ Reenters
    BY <1>6 DEF Detects, WakesEar, Reenters, TaskResets, Clears
  <1>7. CASE CleansFrontend \/ CleansModel \/ CleansSlot \/ CleansScore
    BY <1>7 DEF CleansFrontend, CleansModel, CleansSlot, CleansScore, Cleans
  <1> QED BY <1>1, <1>2, <1>3, <1>4, <1>5, <1>6, <1>7 DEF WakeNext

LEMMA StepCleared ==
  ASSUME EarTypeOK, Cleared, [WakeNext]_earVars PROVE Cleared'
  <1> USE DEF EarGoes, FeedOnly, UpOnly, feedVars, modelVars, upVars, resetVars, Cleared, Busy
  <1>1. CASE UNCHANGED earVars \/ MicInit \/ ReaderStarts \/ ModelInit
    BY <1>1 DEF earVars, MicInit, ReaderStarts, ModelInit
  <1>2. CASE \E n \in 1..Hop : Takes(n)
    BY <1>2 DEF Takes
  <1>3. CASE \/ Copies \/ Shifts \/ Pushes \/ Advances \/ Invokes \/ InvokeFails \/ Counts \/ FeedReturns
             \/ Judges \/ Detects
    BY <1>3 DEF Copies, Shifts, Pushes, Advances, Invokes, InvokeFails, Counts, FeedReturns, Judges, Detects,
       TaskResets
  <1>4. CASE WakesEar \/ Reenters
    BY <1>4 DEF WakesEar, Reenters, TaskResets, Clears
  <1>5. CASE CleansFrontend \/ CleansModel \/ CleansSlot \/ CleansScore
    BY <1>5 DEF CleansFrontend, CleansModel, CleansSlot, CleansScore, Cleans
  <1> QED BY <1>1, <1>2, <1>3, <1>4, <1>5 DEF WakeNext

\* The windows so far are a number.
LEMMA FramedNat ==
  ASSUME EarTypeOK
  PROVE  Filled \in Nat /\ Filled <= Stride /\ Pushed \in Nat /\ Framed \in Nat /\ Len(seen) \in Nat /\ Len(feats) \in Nat
  <1>1. slot \in Nat /\ slot + 1 <= Stride /\ Stride \in Nat /\ Len(seen) \in Nat /\ Len(feats) \in Nat
    BY WakeAssumption DEF WakeAssumption, EarTypeOK
  <1> QED BY <1>1 DEF Filled, Pushed, Framed

-----------------------------------------------------------------------------
(* The evidence: the stages of a feed.                                      *)

\* Where the model and its tensor do not move, neither does the place of a window.
LEMMA CopiesSteady ==
  ASSUME EarTypeOK, Consumed, Steady, InStep, Copies PROVE Steady' /\ InStep'
  <1>1. /\ ear = "copy" /\ UNCHANGED <<score, seen, tensor, feats, slot, at, memo, resetAt, fed>> /\ input' = held'
    BY DEF Copies, FeedOnly
  <1>2. PICK k \in Nat :
           /\ k <= Len(pcm) /\ Len(held) + k <= WinLen
           /\ held' \in Seq(Nat) /\ Len(held') = Len(held) + k
           /\ \A i \in 1..Len(held) : held'[i] = held[i]
           /\ \A i \in 1..k : held'[Len(held) + i] = pcm[i]
           /\ pcm' \in Seq(Nat) /\ Len(pcm') = Len(pcm) - k
           /\ \A i \in 1..Len(pcm) - k : pcm'[i] = pcm[k + i]
           /\ \/ ear' = "push" /\ Len(held') < WinLen /\ pcm' = <<>>
              \/ ear' = "shift" /\ Len(held') = WinLen
    BY CopyFacts
  <1>3. Filled' = Filled /\ Pushed' = Pushed /\ Framed' = Framed
    BY <1>1, <1>2 DEF Filled, Pushed, Framed
  <1>4. PICK b : b = Start(resetAt, Framed) /\ b \in Nat
    BY StartFacts, FramedNat DEF EarTypeOK
  <1>5. Start(resetAt, Framed)' = b
    BY <1>1, <1>3, <1>4 DEF Start
  <1>6. Len(held) \in Nat /\ Len(pcm) \in Nat
    BY DEF EarTypeOK
  <1>7. ASSUME NEW j \in 1..Len(held') PROVE held'[j] = b + j
    <2>1. CASE j \in 1..Len(held)
      BY <1>2, <1>4, <2>1 DEF Steady
    <2>2. CASE j \notin 1..Len(held)
      <3>1. PICK i \in 1..k : j = Len(held) + i
        <4>1. j - Len(held) \in 1..k /\ j = Len(held) + (j - Len(held))
          BY <1>2, <1>6, <2>2
        <4> QED BY <4>1
      <3>2. held'[j] = pcm[i] /\ i \in 1..Len(pcm)
        <4>1. held'[Len(held) + i] = pcm[i]
          BY <1>2
        <4>2. i \in 1..Len(pcm)
          BY <1>2, <1>6
        <4> QED BY <3>1, <4>1, <4>2
      <3>3. pcm[i] = b + Len(held) + i
        BY <1>4, <3>2 DEF Steady
      <3> QED BY <1>4, <1>6, <3>1, <3>2, <3>3
    <2> QED BY <2>1, <2>2
  <1>8. ASSUME NEW j \in 1..Len(pcm') PROVE pcm'[j] = b + Len(held') + j
    <2>1. k + j \in 1..Len(pcm) /\ pcm'[j] = pcm[k + j]
      <3>1. j \in 1..Len(pcm) - k
        BY <1>2
      <3>2. pcm'[j] = pcm[k + j]
        BY <1>2, <3>1
      <3>3. k + j \in 1..Len(pcm)
        BY <1>2, <1>6, <3>1
      <3> QED BY <3>2, <3>3
    <2>2. pcm[k + j] = b + Len(held) + (k + j)
      BY <1>4, <2>1 DEF Steady
    <2> QED BY <1>2, <1>4, <1>6, <2>1, <2>2
  <1>9. fed' = b + Len(held') + Len(pcm')
    BY <1>1, <1>2, <1>4, <1>6 DEF Steady
  <1>10. Steady'
    BY <1>1, <1>3, <1>5, <1>7, <1>8, <1>9 DEF Steady, Win
  <1>11. InStep'
    BY <1>1, <1>2 DEF InStep
  <1> QED BY <1>10, <1>11

\* A feed starts where the last one ended.
LEMMA TakesSteady ==
  ASSUME EarTypeOK, Consumed, Steady, InStep, NEW n \in 1..Hop, Takes(n) PROVE Steady' /\ InStep'
  <1>1. /\ ear = "listen" /\ ear' = "copy" /\ pcm' = [i \in 1..n |-> fed + i] /\ fed' = fed + n
        /\ UNCHANGED <<score, seen, tensor, feats, slot, at, memo, resetAt, held, input>>
    BY DEF Takes, EarGoes, modelVars
  <1>2. pcm = <<>> /\ Len(<<>>) = 0
    BY <1>1 DEF Consumed
  <1>3. Filled' = Filled /\ Pushed' = Pushed /\ Framed' = Framed
    BY <1>1 DEF Filled, Pushed, Framed
  <1>4. PICK b : b = Start(resetAt, Framed) /\ b \in Nat
    BY StartFacts, FramedNat DEF EarTypeOK
  <1>5. Start(resetAt, Framed)' = b
    BY <1>1, <1>3, <1>4 DEF Start
  <1>6. n \in Nat /\ Len(held) \in Nat /\ fed \in Nat
    BY WakeAssumption DEF WakeAssumption, EarTypeOK
  <1>7. fed = b + Len(held)
    BY <1>2, <1>4, <1>6 DEF Steady
  <1>8. Len(pcm') = n /\ \A j \in 1..n : pcm'[j] = b + Len(held) + j
    <2>1. Len([i \in 1..n |-> fed + i]) = n
      BY <1>6
    <2>2. \A j \in 1..n : pcm'[j] = fed + j
      BY <1>1
    <2> QED BY <1>1, <1>7, <2>1, <2>2
  <1>9. \A j \in 1..Len(held) : held[j] = b + j
    BY <1>4 DEF Steady
  <1>10. Steady'
    BY SMTT(30), <1>1, <1>3, <1>5, <1>6, <1>7, <1>8, <1>9 DEF Steady, Win
  <1>11. InStep'
    BY <1>1 DEF InStep
  <1> QED BY <1>10, <1>11

\* A frame given is the window at the next place, and what is kept is the start of the one after.
LEMMA ShiftsSteady ==
  ASSUME EarTypeOK, Consumed, Steady, InStep, Shifts PROVE Steady' /\ InStep'
  <1>1. /\ ear = "shift" /\ UNCHANGED <<score, seen, tensor, slot, at, memo, resetAt, fed, pcm, input>>
        /\ feats' = Append(feats, input) /\ input = held /\ Len(held) = WinLen
    BY DEF Shifts, FeedOnly, InStep
  <1>2. held' = Shifted(held) /\ ear' = IF pcm = <<>> THEN "push" ELSE "copy"
    BY <1>1 DEF Shifts
  <1>3. ear' \in {"push", "copy"}
    BY <1>2
  <1>4. /\ Hop \in Nat /\ WinLen \in Nat /\ Hop > 0 /\ Hop < WinLen /\ held \in Seq(Nat) /\ Len(pcm) \in Nat
        /\ feats \in Seq(Seq(Nat)) /\ Len(feats) \in Nat
    BY WakeAssumption DEF WakeAssumption, EarTypeOK
  <1>5. /\ Len(held') = WinLen - Hop /\ \A j \in 1..WinLen - Hop : held'[j] = held[Hop + j]
    <2>1. Len(held) >= Hop
      BY <1>1, <1>4
    <2>2. Len(Shifted(held)) = Len(held) - Hop /\ \A j \in 1..Len(held) - Hop : Shifted(held)[j] = held[Hop + j]
      BY <1>4, <2>1, ShiftFacts
    <2> QED BY <1>1, <1>2, <2>2
  <1>6. /\ Len(feats') = Len(feats) + 1 /\ feats'[Len(feats) + 1] = held
        /\ \A i \in 1..Len(feats) : feats'[i] = feats[i]
    BY <1>1, <1>4
  <1>7. Filled' = Filled /\ Pushed' = Pushed /\ Framed' = Framed + 1 /\ Framed = Pushed + Len(feats) /\ Framed \in Nat /\ Pushed \in Nat
    <2>1. Filled' = Filled
      BY <1>1, <1>3 DEF Filled
    <2>2. Pushed' = Pushed
      BY <1>1, <2>1 DEF Pushed
    <2>3. Framed' = Pushed + Len(feats')
      BY <2>2 DEF Framed
    <2>4. Framed = Pushed + Len(feats) /\ Framed \in Nat /\ Pushed \in Nat
      BY FramedNat DEF Framed
    <2> QED BY <1>4, <1>6, <2>1, <2>2, <2>3, <2>4
  <1>8. PICK b : b = Start(resetAt, Framed) /\ b \in Nat
    BY <1>7, StartFacts DEF EarTypeOK
  <1>9. Start(resetAt, Framed)' = b + Hop
    <2>1. Start(resetAt, Framed + 1) = b + Hop
      BY <1>7, <1>8, StartFacts DEF EarTypeOK
    <2> QED BY <1>1, <1>7, <2>1 DEF Start
  <1>10. held = Win(resetAt, Framed + 1)
    <2>1. Win(resetAt, Framed + 1) = [j \in 1..WinLen |-> b + j]
      BY SMTT(30), <1>7, <1>8, StartFacts DEF EarTypeOK
    <2>2. \A j \in 1..WinLen : held[j] = b + j
      BY <1>1, <1>8 DEF Steady
    <2>3. held = [j \in 1..WinLen |-> held[j]]
      BY <1>1, <1>4
    <2> QED BY <2>1, <2>2, <2>3
  <1>11. ASSUME NEW i \in 1..Len(feats') PROVE feats'[i] = Win(resetAt, Pushed + i)
    <2>1. CASE i \in 1..Len(feats)
      BY <1>6, <2>1 DEF Steady
    <2>2. CASE i \notin 1..Len(feats)
      <3>1. i = Len(feats) + 1
        BY <1>4, <1>6, <2>2
      <3>2. Pushed + i = Framed + 1
        BY <1>4, <1>7, <3>1
      <3> QED BY <1>6, <1>10, <3>1, <3>2
    <2> QED BY <2>1, <2>2
  <1>12. ASSUME NEW j \in 1..Len(held') PROVE held'[j] = b + Hop + j
    <2>1. j \in 1..WinLen - Hop
      BY <1>5
    <2>2. Hop + j \in 1..Len(held)
      BY <1>1, <1>4, <2>1
    <2>3. held[Hop + j] = b + (Hop + j)
      BY <1>8, <2>2 DEF Steady
    <2>4. held'[j] = held[Hop + j]
      BY <1>5, <2>1
    <2> QED BY <1>4, <1>8, <2>1, <2>3, <2>4
  <1>13. \A j \in 1..Len(pcm) : pcm[j] = b + WinLen + j
    BY <1>1, <1>8 DEF Steady
  <1>14. /\ \A j \in 1..Len(pcm) : pcm[j] = (b + Hop) + Len(held') + j
         /\ fed = (b + Hop) + Len(held') + Len(pcm)
    <2>1. b + WinLen = b + Hop + Len(held')
      BY <1>4, <1>5, <1>8
    <2>2. fed = b + WinLen + Len(pcm)
      BY <1>1, <1>8 DEF Steady
    <2> QED BY <1>13, <2>1, <2>2
  <1>15. Steady'
    <2>1. score' = seen' /\ \A i \in 1..Len(seen') : seen'[i] = Win(resetAt', i)
      BY <1>1 DEF Steady
    <2>2. \A s \in 0..Filled' - 1 : tensor'[s] = Win(resetAt', Len(seen') + s + 1)
      BY <1>1, <1>7 DEF Steady
    <2>3. \A i \in 1..Len(feats') : feats'[i] = Win(resetAt', Pushed' + i)
      BY <1>1, <1>7, <1>11
    <2>4. \A j \in 1..Len(held') : held'[j] = Start(resetAt, Framed)' + j
      BY <1>9, <1>12
    <2>5. /\ \A j \in 1..Len(pcm') : pcm'[j] = Start(resetAt, Framed)' + Len(held') + j
          /\ fed' = Start(resetAt, Framed)' + Len(held') + Len(pcm')
      BY <1>1, <1>9, <1>14
    <2> QED BY <2>1, <2>2, <2>3, <2>4, <2>5 DEF Steady, Win
  <1>16. InStep'
    <2>1. Len(held') < WinLen
      BY <1>4, <1>5
    <2> QED BY <1>3, <2>1 DEF InStep
  <1> QED BY <1>15, <1>16

\* A frame pushed is the one after those in the tensor.
LEMMA PushesSteady ==
  ASSUME EarTypeOK, Consumed, Steady, InStep, Pushes PROVE Steady' /\ InStep'
  <1>1. /\ ear = "push" /\ ear' = "advance" /\ UNCHANGED <<score, seen, slot, memo, resetAt, fed, pcm, input, held>>
        /\ tensor' = [tensor EXCEPT ![slot] = Head(feats)] /\ at' = slot /\ feats' = Tail(feats) /\ feats # <<>>
    BY DEF Pushes, FeedOnly, EarGoes, modelVars
  <1>2. slot \in 0..Stride - 1 /\ tensor \in [0..Stride - 1 -> Seq(Nat)] /\ slot \in Nat /\ Stride \in Nat
    BY WakeAssumption DEF WakeAssumption, EarTypeOK
  <1>3. feats \in Seq(Seq(Nat)) /\ Len(feats) \in Nat /\ Len(feats) > 0
    BY <1>1 DEF EarTypeOK
  <1>4. Len(feats') = Len(feats) - 1 /\ \A i \in 1..Len(feats) - 1 : feats'[i] = feats[i + 1]
    BY <1>1, <1>3
  <1>5. Filled = slot /\ Filled' = slot + 1
    BY <1>1 DEF Filled
  <1>6. Pushed = Len(seen) + slot /\ Pushed' = Pushed + 1 /\ Framed' = Framed /\ Len(seen) \in Nat
    <2>1. Len(seen) \in Nat
      BY DEF EarTypeOK
    <2>2. Pushed = Len(seen) + slot /\ Pushed' = Len(seen) + (slot + 1)
      BY <1>1, <1>5 DEF Pushed
    <2>3. Framed = Pushed + Len(feats) /\ Framed' = Pushed' + Len(feats')
      BY DEF Framed
    <2> QED BY <1>2, <1>3, <1>4, <2>1, <2>2, <2>3
  <1>7. feats[1] = Win(resetAt, Pushed + 1)
    BY <1>3 DEF Steady
  <1>8. ASSUME NEW s \in 0..slot PROVE tensor'[s] = Win(resetAt, Len(seen) + s + 1)
    <2>1. CASE s = slot
      BY <1>1, <1>2, <1>3, <1>6, <1>7, <2>1
    <2>2. CASE s # slot
      <3>1. s \in 0..Filled - 1
        BY <1>2, <1>5, <2>2
      <3>2. tensor[s] = Win(resetAt, Len(seen) + s + 1)
        BY <3>1 DEF Steady
      <3> QED BY <1>1, <1>2, <2>2, <3>2
    <2> QED BY <2>1, <2>2
  <1>9. ASSUME NEW i \in 1..Len(feats') PROVE feats'[i] = Win(resetAt, (Pushed + 1) + i)
    <2>1. i \in 1..Len(feats) - 1 /\ i + 1 \in 1..Len(feats)
      BY <1>3, <1>4
    <2>2. feats[i + 1] = Win(resetAt, Pushed + (i + 1))
      BY <2>1 DEF Steady
    <2>3. Pushed + (i + 1) = (Pushed + 1) + i
      BY <1>2, <1>6
    <2> QED BY <1>4, <2>1, <2>2, <2>3
  <1>10. Start(resetAt, Framed)' = Start(resetAt, Framed)
    BY <1>1, <1>6 DEF Start
  <1>11. Steady'
    <2>1. score' = seen' /\ \A i \in 1..Len(seen') : seen'[i] = Win(resetAt', i)
      BY <1>1 DEF Steady
    <2>2. \A s \in 0..Filled' - 1 : tensor'[s] = Win(resetAt', Len(seen') + s + 1)
      <3>1. Filled' - 1 = slot
        BY <1>2, <1>5
      <3> QED BY <1>1, <1>8, <3>1
    <2>3. \A i \in 1..Len(feats') : feats'[i] = Win(resetAt', Pushed' + i)
      BY <1>1, <1>6, <1>9
    <2>4. /\ \A j \in 1..Len(held') : held'[j] = Start(resetAt, Framed)' + j
          /\ \A j \in 1..Len(pcm') : pcm'[j] = Start(resetAt, Framed)' + Len(held') + j
          /\ fed' = Start(resetAt, Framed)' + Len(held') + Len(pcm')
      BY <1>1, <1>10 DEF Steady
    <2> QED BY <2>1, <2>2, <2>3, <2>4 DEF Steady, Win
  <1>12. InStep'
    BY <1>1 DEF InStep
  <1> QED BY <1>11, <1>12

\* The next slot, or the first with the tensor full.
LEMMA AdvancesSteady ==
  ASSUME EarTypeOK, Consumed, Steady, InStep, Advances PROVE Steady' /\ InStep'
  <1>1. /\ ear = "advance" /\ UNCHANGED <<score, seen, tensor, feats, at, resetAt, fed, pcm, input, held>>
        /\ memo' = seen /\ at = slot
        /\ IF slot + 1 < Stride THEN slot' = slot + 1 /\ ear' = "count" ELSE slot' = 0 /\ ear' = "invoke"
    BY DEF Advances, FeedOnly, InStep
  <1>2. slot \in Nat /\ slot + 1 <= Stride /\ Stride \in Nat
    BY WakeAssumption DEF WakeAssumption, EarTypeOK
  <1>3. Filled' = Filled
    <2>1. CASE slot + 1 < Stride
      BY <1>1, <2>1 DEF Filled
    <2>2. CASE ~(slot + 1 < Stride)
      <3>1. slot + 1 = Stride
        BY <1>2, <2>2
      <3> QED BY <1>1, <2>2, <3>1 DEF Filled
    <2> QED BY <2>1, <2>2
  <1>4. Pushed' = Pushed /\ Framed' = Framed
    BY <1>1, <1>3 DEF Pushed, Framed
  <1>5. Start(resetAt, Framed)' = Start(resetAt, Framed)
    BY <1>1, <1>4 DEF Start
  <1>6. Steady'
    BY <1>1, <1>3, <1>4, <1>5 DEF Steady, Win
  <1>7. InStep'
    <2>1. ear' \in {"count", "invoke"} /\ (ear' = "invoke" => slot' = 0)
      BY <1>1
    <2> QED BY <1>1, <2>1 DEF InStep
  <1> QED BY <1>6, <1>7

\* An inference sees the full tensor after what it has seen.
LEMMA InvokesSteady ==
  ASSUME EarTypeOK, Consumed, Steady, InStep, Invokes PROVE Steady' /\ InStep'
  <1>1. /\ ear = "invoke" /\ ear' = "count" /\ UNCHANGED <<tensor, feats, slot, at, resetAt, fed, pcm, input, held, memo>>
        /\ score' = seen' /\ seen' = seen \o Window /\ slot = 0
    BY DEF Invokes, FeedOnly, EarGoes, InStep, feedVars
  <1>2. Stride \in Nat /\ seen \in Seq(Seq(Nat)) /\ Len(seen) \in Nat
    BY WakeAssumption DEF WakeAssumption, EarTypeOK
  <1>3. PICK w \in Seq(Seq(Nat)) : w = Window /\ Len(w) = Stride /\ \A i \in 1..Stride : w[i] = tensor[i - 1]
    BY WindowFacts DEF EarTypeOK
  <1>4. /\ Len(seen') = Len(seen) + Stride
        /\ \A i \in 1..Len(seen) : seen'[i] = seen[i]
        /\ \A i \in 1..Stride : seen'[Len(seen) + i] = w[i]
    <2>1. /\ Len(seen \o w) = Len(seen) + Len(w)
          /\ \A i \in 1..Len(seen) : (seen \o w)[i] = seen[i]
          /\ \A i \in 1..Len(w) : (seen \o w)[Len(seen) + i] = w[i]
      BY <1>2, JoinFacts
    <2> QED BY <1>1, <1>3, <2>1
  <1>5. Filled = Stride /\ Filled' = 0
    BY <1>1 DEF Filled
  <1>6. Pushed' = Pushed /\ Framed' = Framed
    <2>1. Pushed = Len(seen) + Stride /\ Pushed' = Len(seen') + 0
      BY <1>5 DEF Pushed
    <2>2. Pushed' = Pushed
      BY <1>2, <1>4, <2>1
    <2> QED BY <1>1, <2>2 DEF Framed
  <1>7. ASSUME NEW i \in 1..Len(seen') PROVE seen'[i] = Win(resetAt, i)
    <2>1. CASE i \in 1..Len(seen)
      BY <1>4, <2>1 DEF Steady
    <2>2. CASE i \notin 1..Len(seen)
      <3>1. PICK s \in 0..Stride - 1 : i = Len(seen) + (s + 1) /\ s + 1 \in 1..Stride /\ (s + 1) - 1 = s
        <4>1. i - Len(seen) - 1 \in 0..Stride - 1 /\ i = Len(seen) + ((i - Len(seen) - 1) + 1)
          BY <1>2, <1>4, <2>2
        <4>2. \A s \in 0..Stride - 1 : s + 1 \in 1..Stride /\ (s + 1) - 1 = s
          BY <1>2
        <4> QED BY <4>1, <4>2
      <3>2. seen'[i] = tensor[s]
        BY <1>3, <1>4, <3>1
      <3>3. tensor[s] = Win(resetAt, Len(seen) + s + 1)
        BY <1>5 DEF Steady
      <3>4. Len(seen) + s + 1 = i
        BY <1>2, <3>1
      <3> QED BY <3>2, <3>3, <3>4
    <2> QED BY <2>1, <2>2
  <1>8. Start(resetAt, Framed)' = Start(resetAt, Framed)
    BY <1>1, <1>6 DEF Start
  <1>9. Steady'
    <2>1. score' = seen' /\ \A i \in 1..Len(seen') : seen'[i] = Win(resetAt', i)
      BY <1>1, <1>7
    <2>2. \A s \in 0..Filled' - 1 : tensor'[s] = Win(resetAt', Len(seen') + s + 1)
      BY <1>5
    <2>3. \A i \in 1..Len(feats') : feats'[i] = Win(resetAt', Pushed' + i)
      BY <1>1, <1>6 DEF Steady
    <2>4. /\ \A j \in 1..Len(held') : held'[j] = Start(resetAt, Framed)' + j
          /\ \A j \in 1..Len(pcm') : pcm'[j] = Start(resetAt, Framed)' + Len(held') + j
          /\ fed' = Start(resetAt, Framed)' + Len(held') + Len(pcm')
      BY <1>1, <1>8 DEF Steady
    <2> QED BY <2>1, <2>2, <2>3, <2>4 DEF Steady, Win
  <1>10. InStep'
    BY <1>1 DEF InStep
  <1> QED BY <1>9, <1>10

\* The steps that move none of it.
LEMMA PassesSteady ==
  ASSUME EarTypeOK, Steady, InStep,
         \/ UNCHANGED earVars \/ MicInit \/ ReaderStarts \/ ModelInit \/ Counts \/ FeedReturns \/ Judges
  PROVE  Steady' /\ InStep'
  <1>1. /\ UNCHANGED <<score, seen, tensor, feats, slot, at, memo, resetAt, fed, pcm, input, held>>
        /\ \/ ear' = ear
           \/ ear \in {"none", "count", "push", "judge"} /\ ear' \in {"deleted", "listen", "push", "judge"}
    BY DEF earVars, MicInit, ReaderStarts, ModelInit, Counts, FeedReturns, Judges, EarGoes, FeedOnly, UpOnly, feedVars,
       modelVars
  <1>2. Filled' = Filled
    BY <1>1 DEF Filled
  <1>3. Pushed' = Pushed /\ Framed' = Framed
    BY <1>1, <1>2 DEF Pushed, Framed
  <1>4. Start(resetAt, Framed)' = Start(resetAt, Framed)
    BY <1>1, <1>3 DEF Start
  <1>5. Steady'
    BY <1>1, <1>2, <1>3, <1>4 DEF Steady, Win
  <1>6. InStep'
    BY <1>1 DEF InStep
  <1> QED BY <1>5, <1>6

\* After a reset that met no feed there is nothing.
LEMMA NothingLeft ==
  ASSUME EarTypeOK', Consumed', ear' \in {"none", "deleted", "listen", "asleep"},
         seen' = <<>>, held' = <<>>, score' = <<>>, slot' = 0, resetAt' = fed'
  PROVE  Steady' /\ InStep'
  <1> USE WakeAssumption DEF WakeAssumption
  <1>1. pcm' = <<>> /\ feats' = <<>> /\ Len(<<>>) = 0
    BY DEF Consumed, Rests
  <1>2. Filled' = 0 /\ Pushed' = 0 /\ Framed' = 0
    BY <1>1 DEF Filled, Pushed, Framed
  <1>3. Start(resetAt', 0) = fed' /\ fed' \in Nat
    BY StartFacts DEF EarTypeOK
  <1>4. Start(resetAt, Framed)' = fed'
    BY <1>2, <1>3 DEF Start
  <1>5. Steady'
    BY <1>1, <1>2, <1>3, <1>4 DEF Steady
  <1>6. InStep'
    BY <1>1 DEF InStep
  <1> QED BY <1>5, <1>6

-----------------------------------------------------------------------------
(* The evidence: every step, and the theorem.                               *)

LEMMA StepSound ==
  ASSUME EarTypeOK, Consumed, Cleared, Sound, [WakeNext]_earVars, EarTypeOK', Consumed'
  PROVE  Sound'
  <1> SUFFICES ASSUME ~spoiled' PROVE ScoreSound' /\ IF cleaning' = "no" THEN Steady' /\ InStep' ELSE ~Busy'
    BY DEF Sound
  <1>1. ASSUME Steady' PROVE ScoreSound'
    BY <1>1 DEF Steady, ScoreSound
  <1>2. ASSUME score' = <<>> PROVE ScoreSound'
    <2>1. Len(<<>>) = 0
      OBVIOUS
    <2> QED BY <1>2, <2>1 DEF ScoreSound
  <1>3. ASSUME UNCHANGED <<score, resetAt>>, ScoreSound PROVE ScoreSound'
    BY <1>3 DEF ScoreSound, Win
  <1>4. ~spoiled /\ Busy => cleaning = "no" /\ Steady /\ InStep
    BY DEF Sound
  <1>5. CASE \E n \in 1..Hop : Takes(n)
    <2>1. PICK n \in 1..Hop : Takes(n)
      BY <1>5
    <2>2. ~spoiled /\ cleaning = "no" /\ cleaning' = "no"
      BY <2>1 DEF Takes
    <2>3. Steady' /\ InStep'
      BY <2>1, <2>2, TakesSteady DEF Sound
    <2> QED BY <1>1, <2>2, <2>3
  <1>6. CASE Copies \/ Shifts \/ Pushes \/ Advances \/ Invokes
    <2>1. Busy /\ spoiled' = spoiled /\ cleaning' = cleaning
      BY <1>6 DEF Copies, Shifts, Pushes, Advances, Invokes, Busy, EarGoes, FeedOnly, resetVars
    <2>2. cleaning = "no" /\ Steady /\ InStep
      BY <1>4, <2>1
    <2>3. Steady' /\ InStep'
      BY <1>6, <2>2, CopiesSteady, ShiftsSteady, PushesSteady, AdvancesSteady, InvokesSteady
    <2> QED BY <1>1, <2>1, <2>2, <2>3
  <1>7. CASE InvokeFails
    BY <1>7 DEF InvokeFails
  <1>8. CASE \/ UNCHANGED earVars \/ MicInit \/ ReaderStarts \/ ModelInit \/ Counts \/ FeedReturns \/ Judges
    <2>1. spoiled' = spoiled /\ cleaning' = cleaning /\ UNCHANGED <<score, resetAt>>
      BY <1>8 DEF earVars, MicInit, ReaderStarts, ModelInit, Counts, FeedReturns, Judges, FeedOnly, UpOnly,
         resetVars, modelVars
    <2>2. CASE cleaning = "no"
      <3>1. Steady' /\ InStep'
        BY <1>8, <2>1, <2>2, PassesSteady DEF Sound
      <3> QED BY <1>1, <2>1, <2>2, <3>1
    <2>3. CASE cleaning # "no"
      <3>1. ~Busy /\ ScoreSound
        BY <2>1, <2>3 DEF Sound
      <3>2. ~Busy'
        BY <1>8, <3>1 DEF earVars, MicInit, ReaderStarts, ModelInit, Counts, FeedReturns, Judges, EarGoes, Busy
      <3> QED BY <1>3, <2>1, <2>3, <3>1, <3>2
    <2> QED BY <2>2, <2>3
  <1>9. CASE Detects \/ WakesEar \/ Reenters
    <2>1. /\ ear' \in {"listen", "asleep"} /\ seen' = <<>> /\ held' = <<>> /\ score' = <<>> /\ slot' = 0
          /\ resetAt' = fed' /\ cleaning' = cleaning
      BY <1>9 DEF Detects, WakesEar, Reenters, TaskResets, Clears, EarGoes
    <2>2. Steady' /\ InStep'
      BY <2>1, NothingLeft
    <2>3. ~Busy'
      BY <2>1 DEF Busy
    <2> QED BY <1>2, <2>1, <2>2, <2>3
  <1>10. CASE CleansFrontend \/ CleansModel \/ CleansSlot
    <2>1. /\ ~spoiled /\ ~Busy /\ ear' = ear /\ cleaning' # "no" /\ UNCHANGED <<score, resetAt>>
      BY <1>10 DEF CleansFrontend, CleansModel, CleansSlot, Cleans
    <2>2. ~Busy' /\ ScoreSound
      BY <2>1 DEF Busy, Sound
    <2> QED BY <1>3, <2>1, <2>2
  <1>11. CASE CleansScore
    <2>1. /\ cleaning = "score" /\ cleaning' = "no" /\ overlap' = (Busy \/ overlap) /\ spoiled' = overlap'
          /\ score' = <<>> /\ resetAt' = fed /\ UNCHANGED <<held, slot, seen, ear, fed>>
      BY <1>11 DEF CleansScore, Cleans
    <2>2. ~overlap /\ ~Busy
      BY <2>1
    <2>3. held = <<>> /\ seen = <<>> /\ slot = 0
      BY <2>1, <2>2 DEF Cleared
    <2>4. ear' \in {"none", "deleted", "listen", "asleep"}
      BY <2>1, <2>2 DEF Busy, EarTypeOK
    <2>5. Steady' /\ InStep'
      BY <2>1, <2>3, <2>4, NothingLeft
    <2> QED BY <1>2, <2>1, <2>5
  <1> QED BY <1>5, <1>6, <1>7, <1>8, <1>9, <1>10, <1>11 DEF WakeNext

\* However the samples were cut into chunks, a score rests on every sample fed since the last
\* reset and on none before it, in windows a hop apart, unless that reset (wake_word_reset,
\* which main calls with no lock) met a feed or an inference failed, and a copy never leaves
\* the window's buffer (WindowProcessSamples).
THEOREM ScoresOnEvidence == WakeSpec => []EvidenceSound
<1>1. WakeInit => EarInv
  BY InitEar
<1>2. EarInv /\ [WakeNext]_earVars => EarInv'
  <2> SUFFICES ASSUME EarInv, [WakeNext]_earVars PROVE EarInv'
    OBVIOUS
  <2>1. EarTypeOK /\ Consumed /\ Cleared /\ Sound
    BY DEF EarInv
  <2>2. EarTypeOK'
    BY <2>1, EarTypes
  <2>3. Consumed' /\ Cleared'
    BY <2>1, StepConsumed, StepCleared
  <2>4. Sound'
    BY <2>1, <2>2, <2>3, StepSound
  <2> QED BY <2>2, <2>3, <2>4 DEF EarInv
<1>3. EarInv => EvidenceSound
  <2> SUFFICES ASSUME EarInv, ~spoiled
              PROVE  ear # "lost" /\ \A i \in 1..Len(score) : score[i] = [j \in 1..WinLen |-> resetAt + (i - 1) * Hop + j]
    BY DEF EvidenceSound
  <2>1. ScoreSound /\ IF cleaning = "no" THEN InStep ELSE ~Busy
    BY DEF EarInv, Sound
  <2>2. ear # "lost"
    BY <2>1 DEF InStep, Busy
  <2> QED BY <2>1, <2>2 DEF ScoreSound, Win
<1> QED BY <1>1, <1>2, <1>3, PTL DEF WakeSpec
=============================================================================
