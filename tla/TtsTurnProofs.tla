--------------------------- MODULE TtsTurnProofs ---------------------------
(***************************************************************************)
(* The two-phase turn, for every number of turns, reply length, ring size, *)
(* drain time, number of frames in flight and of lost connections: its     *)
(* type correctness; that an activated ring is never destroyed under a     *)
(* send its gate admits; that the amplifier plays the replies in order,    *)
(* none of their chunks twice; that main and the ws task never tear down   *)
(* the same stream of the running turn; that the drain at the end of a     *)
(* streamed turn outlasts what is left to play; and that such a turn was   *)
(* heard whole.                                                            *)
(***************************************************************************)
EXTENDS TtsTurn, TLAPS

\* What type correctness needs beside itself: the writer writes a real chunk,
\* the handler sends a real chunk, and a running turn has a number.
StreamOK == StreamTypeOK /\ (writer = "write" => hand \in Chunk)

SendsChunk ==
  Sending => frame \in [kind : {"chunk"}, turn : Turn, seq : 1 .. NChunks]
TurnKnown  == main # "idle" => turn # 0

USE StreamAssumption, TurnAssumption DEF StreamAssumption, TurnAssumption, Sending

\* The empty ring is a ring.
LEMMA EmptyRing == <<>> \in Seq(Chunk)
  OBVIOUS

LEMMA StreamInitOK == StreamInit => StreamOK
  <1> SUFFICES ASSUME StreamInit PROVE StreamOK
    OBVIOUS
  <1>1. ending \in [Caller -> {"no", "drain", "i2s", "unpublish", "free"}]
    BY DEF StreamInit
  <1>2. left \in [Caller -> Nat]
    BY DEF StreamInit
  <1>3. ring \in Seq(Chunk) /\ spoken \in Seq(Chunk)
    BY EmptyRing DEF StreamInit
  <1> QED BY <1>1, <1>2, <1>3 DEF StreamInit, StreamOK, StreamTypeOK

\* The producer's calls keep the session well typed.
LEMMA ProducerOK ==
  ASSUME StreamOK, NEW c \in Chunk, Begin \/ PushFits(c) \/ PushTimesOut
  PROVE  StreamOK'
  <1>1. CASE Begin
    BY <1>1, EmptyRing DEF Begin, StreamOK, StreamTypeOK
  <1>2. CASE PushFits(c)
    BY <1>2 DEF PushFits, StreamOK, StreamTypeOK
  <1>3. CASE PushTimesOut
    BY <1>3 DEF PushTimesOut, StreamOK, StreamTypeOK, streamVars
  <1> QED BY <1>1, <1>2, <1>3

LEMMA SpeakerOK ==
  ASSUME StreamOK, Activate \/ WavTakesI2s \/ WavReleasesI2s \/ StreamReset
  PROVE  StreamOK'
  <1>1. CASE Activate
    BY <1>1 DEF Activate, StreamOK, StreamTypeOK
  <1>2. CASE WavTakesI2s
    BY <1>2 DEF WavTakesI2s, StreamOK, StreamTypeOK
  <1>3. CASE WavReleasesI2s
    BY <1>3 DEF WavReleasesI2s, StreamOK, StreamTypeOK
  <1>4. CASE StreamReset
    BY <1>4, EmptyRing DEF StreamReset, StreamOK, StreamTypeOK
  <1> QED BY <1>1, <1>2, <1>3, <1>4

LEMMA EndEnterOK ==
  ASSUME StreamOK, NEW c \in Caller, NEW budget \in Nat, EndEnter(c, budget)
  PROVE  StreamOK'
  BY DEF EndEnter, StreamOK, StreamTypeOK, Caller

LEMMA StreamStepOK ==
  ASSUME StreamOK, StreamStep
  PROVE  StreamOK'
  <1>1. CASE WriterReceives
    <2>1. Head(ring) \in Chunk /\ Tail(ring) \in Seq(Chunk)
      BY <1>1 DEF WriterReceives, StreamOK, StreamTypeOK
    <2> QED BY <1>1, <2>1 DEF WriterReceives, StreamOK, StreamTypeOK
  <1>2. CASE WriterPlays
    BY <1>2 DEF WriterPlays, StreamOK, StreamTypeOK, Caller
  <1>3. CASE WriterExits
    BY <1>3 DEF WriterExits, StreamOK, StreamTypeOK
  <1>4. ASSUME NEW c \in Caller, EndDrained(c) \/ EndTimesOut(c)
        PROVE  StreamOK'
    <2>1. ending' \in [Caller -> {"no", "drain", "i2s", "unpublish", "free"}]
      BY <1>4 DEF EndDrained, EndTimesOut, StreamOK, StreamTypeOK
    <2>2. CASE EndDrained(c)
      BY <2>1, <2>2 DEF EndDrained, StreamOK, StreamTypeOK
    <2>3. CASE EndTimesOut(c)
      BY <2>1, <2>3 DEF EndTimesOut, StreamOK, StreamTypeOK
    <2> QED BY <1>4, <2>2, <2>3
  <1>5. ASSUME NEW c \in Caller, EndReleasesI2s(c) \/ EndUnpublishes(c)
        PROVE  StreamOK'
    BY <1>5 DEF EndReleasesI2s, EndUnpublishes, StreamOK, StreamTypeOK
  <1>6. ASSUME NEW c \in Caller, EndFrees(c)
        PROVE  StreamOK'
    BY <1>6, EmptyRing DEF EndFrees, StreamOK, StreamTypeOK
  <1>7. CASE WriterRuns
    BY <1>7 DEF WriterRuns, StreamOK, StreamTypeOK
  <1> QED BY <1>1, <1>2, <1>3, <1>4, <1>5, <1>6, <1>7 DEF StreamStep

-----------------------------------------------------------------------------
(* The inductive invariant.                                                 *)

\* main is inside stream_end only at the four places that call it; the ws task
\* only while it resets a session for a new tts_start.
EndersKnown ==
  /\ ending["main"] # "no" => main \in {"ackend", "actend", "okend", "fbend"}
  /\ ending["ws"] # "no" => ws = "resetting"

\* The gate is closed outside the stretch from arming it to clearing it, and
\* when a turn begins the ws task is not past it.
GateClosed ==
  /\ main \notin {"clear", "ack", "ackplay", "check", "activate", "actfail",
                  "actend", "wait", "unexpect"} => expect = 0
  /\ main = "expect" => ws \in {"idle", "gate"}

NotYetActivated ==
  main \in {"expect", "clear", "ack", "ackplay", "check", "activate", "actfail",
           "actend"} => ~activated

\* The ring can be gone under an admitted send only after main tore down a
\* session it had failed to activate.
RingGone ==
  Sending /\ ~alloc /\ expect # 0 =>
    ~activated /\ main \in {"actend", "wait", "unexpect"}

Control == EndersKnown /\ GateClosed /\ NotYetActivated /\ RingGone

IInv == StreamOK /\ TurnTypeOK /\ SendsChunk /\ TurnKnown /\ Control

\* The moves of main that change nothing else.
LEMMA JumpTypes ==
  ASSUME IInv, \/ CheckFinds \/ CheckMisses \/ ActivateFails \/ ActFailSkips
               \/ ActFailEnded \/ LateFinds \/ LateMisses \/ LateActivateFails
               \/ FallbackSkips \/ FallbackEnded \/ GetAnswers
  PROVE  TurnTypeOK' /\ SendsChunk' /\ TurnKnown'
  <1> USE DEF IInv, Jump, Go, turnVars, gateVars, wsVars, netVars, TurnTypeOK, MainAt,
       SendsChunk, TurnKnown
  <1>1. CASE CheckFinds
    BY <1>1 DEF CheckFinds
  <1>2. CASE CheckMisses
    BY <1>2 DEF CheckMisses
  <1>3. CASE ActivateFails
    BY <1>3 DEF ActivateFails
  <1>4. CASE ActFailSkips
    BY <1>4 DEF ActFailSkips
  <1>5. CASE ActFailEnded
    BY <1>5 DEF ActFailEnded
  <1>6. CASE LateFinds
    BY <1>6 DEF LateFinds
  <1>7. CASE LateMisses
    BY <1>7 DEF LateMisses
  <1>8. CASE LateActivateFails
    BY <1>8 DEF LateActivateFails
  <1>9. CASE FallbackSkips
    BY <1>9 DEF FallbackSkips
  <1>10. CASE FallbackEnded
    BY <1>10 DEF FallbackEnded
  <1>11. CASE GetAnswers
    BY <1>11 DEF GetAnswers
  <1> QED BY <1>1, <1>2, <1>3, <1>4, <1>5, <1>6, <1>7, <1>8, <1>9, <1>10, <1>11

LEMMA JumpControl ==
  ASSUME IInv, \/ CheckFinds \/ CheckMisses \/ ActivateFails \/ ActFailSkips
               \/ ActFailEnded \/ LateFinds \/ LateMisses \/ LateActivateFails
               \/ FallbackSkips \/ FallbackEnded \/ GetAnswers
  PROVE  Control'
  <1> USE DEF IInv, Jump, Go, turnVars, gateVars, wsVars, netVars, streamVars,
       TurnTypeOK, MainAt, SendsChunk, TurnKnown, Control, EndersKnown, GateClosed,
       NotYetActivated, RingGone, StreamOK, StreamTypeOK, Caller
  <1>1. CASE CheckFinds
    BY <1>1 DEF CheckFinds
  <1>2. CASE CheckMisses
    BY <1>2 DEF CheckMisses
  <1>3. CASE ActivateFails
    BY <1>3 DEF ActivateFails
  <1>4. CASE ActFailSkips
    BY <1>4 DEF ActFailSkips
  <1>5. CASE ActFailEnded
    BY <1>5 DEF ActFailEnded
  <1>6. CASE LateFinds
    BY <1>6 DEF LateFinds
  <1>7. CASE LateMisses
    BY <1>7 DEF LateMisses
  <1>8. CASE LateActivateFails
    BY <1>8 DEF LateActivateFails
  <1>9. CASE FallbackSkips
    BY <1>9 DEF FallbackSkips
  <1>10. CASE FallbackEnded
    BY <1>10 DEF FallbackEnded
  <1>11. CASE GetAnswers
    BY <1>11 DEF GetAnswers
  <1> QED BY <1>1, <1>2, <1>3, <1>4, <1>5, <1>6, <1>7, <1>8, <1>9, <1>10, <1>11

\* Clearing the expectation.
LEMMA CloseGateTypes ==
  ASSUME IInv, NEW here \in MainAt \ {"idle"}, NEW there \in MainAt, CloseGate(here, there)
  PROVE  TurnTypeOK' /\ SendsChunk' /\ TurnKnown'
  <1>1. expect' \in 0 .. MaxTurn
    BY DEF CloseGate
  <1>3. ttsEnd' \in BOOLEAN
    BY DEF CloseGate
  <1>2. main' \in MainAt /\ turn' # 0
    BY DEF CloseGate, turnVars, IInv, TurnKnown
  <1> QED
    BY <1>1, <1>2, <1>3 DEF CloseGate, turnVars, wsVars, netVars, IInv, TurnTypeOK,
       SendsChunk, TurnKnown

\* Arming, waiting and clearing.
LEMMA GateTypes ==
  ASSUME IInv, \/ Expect \/ ClearEnd \/ Unexpect \/ Fallback \/ AckFails \/ WaitGets
               \/ WaitTimesOut
  PROVE  TurnTypeOK' /\ SendsChunk' /\ TurnKnown'
  <1> USE DEF IInv, CloseGate, WaitEnds, turnVars, gateVars, wsVars, netVars,
       TurnTypeOK, MainAt, SendsChunk, TurnKnown
  <1>1. CASE Expect
    BY <1>1 DEF Expect
  <1>2. CASE ClearEnd
    BY <1>2 DEF ClearEnd
  <1>3. CASE Unexpect
    BY <1>3 DEF Unexpect
  <1>4. CASE Fallback
    BY <1>4, CloseGateTypes DEF Fallback, MainAt
  <1>5. CASE AckFails
    BY <1>5, CloseGateTypes DEF AckFails, MainAt
  <1>6. CASE WaitGets
    BY <1>6 DEF WaitGets
  <1>7. CASE WaitTimesOut
    BY <1>7 DEF WaitTimesOut
  <1> QED BY <1>1, <1>2, <1>3, <1>4, <1>5, <1>6, <1>7

LEMMA GateControl ==
  ASSUME IInv, \/ Expect \/ ClearEnd \/ Unexpect \/ Fallback \/ AckFails \/ WaitGets
               \/ WaitTimesOut
  PROVE  Control'
  <1> USE DEF IInv, CloseGate, WaitEnds, turnVars, gateVars, wsVars, netVars,
       streamVars, TurnTypeOK, MainAt, SendsChunk, TurnKnown, Control, EndersKnown,
       GateClosed, NotYetActivated, RingGone, StreamOK, StreamTypeOK, Caller
  <1>1. CASE Expect
    BY <1>1 DEF Expect
  <1>2. CASE ClearEnd
    BY <1>2 DEF ClearEnd
  <1>3. CASE Unexpect
    BY <1>3 DEF Unexpect
  <1>4. CASE Fallback
    BY <1>4 DEF Fallback
  <1>5. CASE AckFails
    BY <1>5 DEF AckFails
  <1>6. CASE WaitGets
    BY <1>6 DEF WaitGets
  <1>7. CASE WaitTimesOut
    BY <1>7 DEF WaitTimesOut
  <1> QED BY <1>1, <1>2, <1>3, <1>4, <1>5, <1>6, <1>7

\* The returns.
LEMMA ReturnTypes ==
  ASSUME IInv, \/ AckFailSkips \/ AckFailEnded \/ EndRefused \/ EndReturns
               \/ GetFails \/ ReplyFails
  PROVE  TurnTypeOK' /\ SendsChunk' /\ TurnKnown'
  <1> USE DEF IInv, Return, turnVars, gateVars, wsVars, netVars, TurnTypeOK, MainAt,
       SendsChunk, TurnKnown
  <1>1. CASE AckFailSkips
    BY <1>1 DEF AckFailSkips
  <1>2. CASE AckFailEnded
    BY <1>2 DEF AckFailEnded
  <1>3. CASE EndRefused
    BY <1>3 DEF EndRefused
  <1>4. CASE EndReturns
    BY <1>4 DEF EndReturns
  <1>5. CASE GetFails
    BY <1>5 DEF GetFails
  <1>6. CASE ReplyFails
    BY <1>6 DEF ReplyFails
  <1> QED BY <1>1, <1>2, <1>3, <1>4, <1>5, <1>6

LEMMA ReturnControl ==
  ASSUME IInv, \/ AckFailSkips \/ AckFailEnded \/ EndRefused \/ EndReturns
               \/ GetFails \/ ReplyFails
  PROVE  Control'
  <1> USE DEF IInv, Return, turnVars, gateVars, wsVars, netVars, streamVars, TurnTypeOK,
       MainAt, SendsChunk, TurnKnown, Control, EndersKnown, GateClosed, NotYetActivated,
       RingGone, StreamOK, StreamTypeOK, Caller
  <1>1. CASE AckFailSkips
    BY <1>1 DEF AckFailSkips
  <1>2. CASE AckFailEnded
    BY <1>2 DEF AckFailEnded
  <1>3. CASE EndRefused
    BY <1>3 DEF EndRefused
  <1>4. CASE EndReturns
    BY <1>4 DEF EndReturns
  <1>5. CASE GetFails
    BY <1>5 DEF GetFails
  <1>6. CASE ReplyFails
    BY <1>6 DEF ReplyFails
  <1> QED BY <1>1, <1>2, <1>3, <1>4, <1>5, <1>6

\* Opening and closing I2S for a WAV.
LEMMA SpeakerTypes ==
  ASSUME IInv, AckOpens \/ AckDone \/ ReplyOpens \/ ReplyPlayed
  PROVE  TurnTypeOK' /\ SendsChunk' /\ TurnKnown'
  <1> USE DEF IInv, Go, Return, WavTakesI2s, WavReleasesI2s, turnVars, gateVars, wsVars,
       netVars, TurnTypeOK, MainAt, SendsChunk, TurnKnown
  <1>1. CASE AckOpens
    BY <1>1 DEF AckOpens
  <1>2. CASE AckDone
    BY <1>2 DEF AckDone
  <1>3. CASE ReplyOpens
    BY <1>3 DEF ReplyOpens
  <1>4. CASE ReplyPlayed
    BY <1>4 DEF ReplyPlayed
  <1> QED BY <1>1, <1>2, <1>3, <1>4

LEMMA SpeakerControl ==
  ASSUME IInv, AckOpens \/ AckDone \/ ReplyOpens \/ ReplyPlayed
  PROVE  Control'
  <1> USE DEF IInv, Go, Return, WavTakesI2s, WavReleasesI2s, turnVars, gateVars, wsVars,
       netVars, streamVars, TurnTypeOK, MainAt, SendsChunk, TurnKnown, Control, EndersKnown,
       GateClosed, NotYetActivated, RingGone, StreamOK, StreamTypeOK, Caller
  <1>1. CASE AckOpens
    BY <1>1 DEF AckOpens
  <1>2. CASE AckDone
    BY <1>2 DEF AckDone
  <1>3. CASE ReplyOpens
    BY <1>3 DEF ReplyOpens
  <1>4. CASE ReplyPlayed
    BY <1>4 DEF ReplyPlayed
  <1> QED BY <1>1, <1>2, <1>3, <1>4

\* Activating a session.
LEMMA ActivateFromTypes ==
  ASSUME IInv, NEW here \in MainAt \ {"idle"}, NEW there \in MainAt, ActivateFrom(here, there)
  PROVE  TurnTypeOK' /\ SendsChunk' /\ TurnKnown'
  <1>1. turn \in Turn
    BY DEF IInv, TurnTypeOK, TurnKnown, Turn, ActivateFrom
  <1>2. foreign' \subseteq Turn /\ activated' \in BOOLEAN
    BY <1>1 DEF ActivateFrom, IInv, TurnTypeOK
  <1>3. main' \in MainAt /\ turn' # 0
    BY DEF ActivateFrom, turnVars, IInv, TurnKnown
  <1> QED
    BY <1>2, <1>3 DEF ActivateFrom, gateVars, wsVars, netVars, IInv, TurnTypeOK,
       SendsChunk, TurnKnown

LEMMA ActivateTypes ==
  ASSUME IInv, ActivateNow \/ LateActivates
  PROVE  TurnTypeOK' /\ SendsChunk' /\ TurnKnown'
  <1>1. CASE ActivateNow
    BY <1>1, ActivateFromTypes DEF ActivateNow, MainAt
  <1>2. CASE LateActivates
    BY <1>2, ActivateFromTypes DEF LateActivates, MainAt
  <1> QED BY <1>1, <1>2

LEMMA ActivateControl ==
  ASSUME IInv, ActivateNow \/ LateActivates
  PROVE  Control'
  <1> USE DEF IInv, ActivateFrom, Activate, CanActivate, turnVars, gateVars, wsVars,
       netVars, streamVars, TurnTypeOK, MainAt, SendsChunk, TurnKnown, Control, EndersKnown,
       GateClosed, NotYetActivated, RingGone, StreamOK, StreamTypeOK, Caller
  <1>1. CASE ActivateNow
    BY <1>1 DEF ActivateNow
  <1>2. CASE LateActivates
    BY <1>2 DEF LateActivates
  <1> QED BY <1>1, <1>2

\* Entering stream_end.
LEMMA EndTypes ==
  ASSUME IInv, AckFailEnds \/ ActFailEnds \/ EndDrains \/ FallbackEnds
  PROVE  TurnTypeOK' /\ SendsChunk' /\ TurnKnown'
  <1> USE DEF IInv, Go, EndEnter, turnVars, gateVars, wsVars, netVars, TurnTypeOK,
       MainAt, SendsChunk, TurnKnown
  <1>1. CASE AckFailEnds
    BY <1>1 DEF AckFailEnds
  <1>2. CASE ActFailEnds
    BY <1>2 DEF ActFailEnds
  <1>3. CASE EndDrains
    BY <1>3 DEF EndDrains
  <1>4. CASE FallbackEnds
    BY <1>4 DEF FallbackEnds
  <1> QED BY <1>1, <1>2, <1>3, <1>4

LEMMA EndControl ==
  ASSUME IInv, AckFailEnds \/ ActFailEnds \/ EndDrains \/ FallbackEnds
  PROVE  Control'
  <1> USE DEF IInv, Go, EndEnter, turnVars, gateVars, wsVars, netVars, streamVars,
       TurnTypeOK, MainAt, SendsChunk, TurnKnown, Control, EndersKnown, GateClosed,
       NotYetActivated, RingGone, StreamOK, StreamTypeOK, Caller
  <1>1. CASE AckFailEnds
    BY <1>1 DEF AckFailEnds
  <1>2. CASE ActFailEnds
    BY <1>2 DEF ActFailEnds
  <1>3. CASE EndDrains
    BY <1>3 DEF EndDrains
  <1>4. CASE FallbackEnds
    BY <1>4 DEF FallbackEnds
  <1> QED BY <1>1, <1>2, <1>3, <1>4

-----------------------------------------------------------------------------
(* main's calls into audio_out. *)

\* Stuttering keeps the session.
LEMMA StreamStutter ==
  ASSUME StreamOK, UNCHANGED streamVars
  PROVE  StreamOK'
  BY DEF StreamOK, StreamTypeOK, streamVars

LEMMA MainStream ==
  ASSUME IInv, MainStep
  PROVE  StreamOK'
  <1> USE DEF IInv
  <1>1. ASSUME UNCHANGED streamVars PROVE StreamOK'
    BY <1>1, StreamStutter
  <1>2. ASSUME Activate \/ WavTakesI2s \/ WavReleasesI2s PROVE StreamOK'
    BY <1>2, SpeakerOK
  <1>3. ASSUME NEW budget \in Nat, EndEnter("main", budget) PROVE StreamOK'
    BY <1>3, EndEnterOK DEF Caller
  <1>4. CASE CheckFinds \/ CheckMisses \/ ActivateFails \/ ActFailSkips \/ ActFailEnded
              \/ LateFinds \/ LateMisses \/ LateActivateFails \/ FallbackSkips
              \/ FallbackEnded \/ GetAnswers
    BY <1>1, <1>4 DEF CheckFinds, CheckMisses, ActivateFails, ActFailSkips,
       ActFailEnded,
       LateFinds, LateMisses, LateActivateFails, FallbackSkips, FallbackEnded,
       GetAnswers, Jump
  <1>5. CASE Expect \/ ClearEnd \/ Unexpect \/ Fallback \/ AckFails \/ WaitGets
             \/ WaitTimesOut
    BY <1>1, <1>5 DEF Expect, ClearEnd, Unexpect, Fallback, AckFails, WaitGets,
       WaitTimesOut,
       CloseGate, WaitEnds
  <1>6. CASE AckFailSkips \/ AckFailEnded \/ EndRefused \/ EndReturns \/ GetFails
             \/ ReplyFails
    BY <1>1, <1>6 DEF AckFailSkips, AckFailEnded, EndRefused, EndReturns, GetFails,
       ReplyFails
  <1>7. CASE AckOpens \/ AckDone \/ ReplyOpens \/ ReplyPlayed \/ ActivateNow
             \/ LateActivates
    BY <1>2, <1>7 DEF AckOpens, AckDone, ReplyOpens, ReplyPlayed, ActivateNow,
       LateActivates,
       ActivateFrom
  <1>8. CASE AckFailEnds \/ ActFailEnds \/ EndDrains \/ FallbackEnds
    BY <1>3, <1>8 DEF AckFailEnds, ActFailEnds, EndDrains, FallbackEnds
  <1> QED BY <1>4, <1>5, <1>6, <1>7, <1>8 DEF MainStep

LEMMA MainOK ==
  ASSUME IInv, MainStep
  PROVE  IInv'
  <1>1. StreamOK'
    BY MainStream
  <1>2. TurnTypeOK' /\ SendsChunk' /\ TurnKnown'
    BY JumpTypes, GateTypes, ReturnTypes, SpeakerTypes, ActivateTypes, EndTypes DEF
       MainStep
  <1>3. Control'
    BY JumpControl, GateControl, ReturnControl, SpeakerControl, ActivateControl,
       EndControl
    DEF MainStep
  <1> QED BY <1>1, <1>2, <1>3 DEF IInv

-----------------------------------------------------------------------------
(* The ws task. *)

LEMMA WsTypes ==
  ASSUME IInv, \/ Receive \/ GatePasses \/ GateDrops \/ StartResets \/ ResetDone
               \/ StartFresh \/ BeginSession \/ BeginFails \/ ChunkDropped
               \/ ChunkAccepted \/ ChunkSent \/ ChunkBlocks \/ ChunkShort \/ ChunkLost
               \/ EndSignals
  PROVE  TurnTypeOK' /\ SendsChunk' /\ TurnKnown'
  <1> USE DEF IInv, Handle, WsOnly, turnVars, gateVars, wsVars, netVars, TurnTypeOK,
       MainAt, SendsChunk, TurnKnown, Frame, NoFrame, Turn
  <1>1. CASE Receive
    BY <1>1 DEF Receive
  <1>2. CASE GatePasses
    BY <1>2 DEF GatePasses
  <1>3. CASE GateDrops
    BY <1>3 DEF GateDrops
  <1>4. CASE StartResets
    BY <1>4 DEF StartResets
  <1>5. CASE ResetDone
    BY <1>5 DEF ResetDone
  <1>6. CASE StartFresh
    BY <1>6 DEF StartFresh
  <1>7. CASE BeginSession
    BY <1>7 DEF BeginSession
  <1>8. CASE BeginFails
    BY <1>8 DEF BeginFails
  <1>9. CASE ChunkDropped
    BY <1>9 DEF ChunkDropped
  <1>10. CASE ChunkAccepted
    BY <1>10 DEF ChunkAccepted
  <1>11. CASE ChunkSent
    BY <1>11 DEF ChunkSent, Sent
  <1>12. CASE ChunkShort
    BY ZenonT(30), <1>12 DEF ChunkShort
  <1>13. CASE ChunkLost
    BY <1>13 DEF ChunkLost, Sent
  <1>14. CASE EndSignals
    BY <1>14 DEF EndSignals
  <1>15. CASE ChunkBlocks
    BY <1>15 DEF ChunkBlocks
  <1> QED BY <1>1, <1>2, <1>3, <1>4, <1>5, <1>6, <1>7, <1>8, <1>9, <1>10, <1>11, <1>12,
  <1>13, <1>14, <1>15

LEMMA WsControl ==
  ASSUME IInv, \/ Receive \/ GatePasses \/ GateDrops \/ StartResets \/ ResetDone
               \/ StartFresh \/ BeginSession \/ BeginFails \/ ChunkDropped
               \/ ChunkAccepted \/ ChunkSent \/ ChunkBlocks \/ ChunkShort \/ ChunkLost
               \/ EndSignals
  PROVE  Control'
  <1> USE DEF IInv, Handle, WsOnly, Matches, EndEnter, Begin, PushOpen, PushFits,
       PushTimesOut, turnVars, gateVars, wsVars, netVars, streamVars, TurnTypeOK, MainAt,
       SendsChunk, TurnKnown, Control, EndersKnown, GateClosed, NotYetActivated, RingGone,
       StreamOK, StreamTypeOK, Caller
  <1>1. CASE Receive
    BY <1>1 DEF Receive
  <1>2. CASE GatePasses
    BY <1>2 DEF GatePasses
  <1>3. CASE GateDrops
    BY <1>3 DEF GateDrops
  <1>4. CASE StartResets
    BY <1>4 DEF StartResets
  <1>5. CASE ResetDone
    BY <1>5 DEF ResetDone
  <1>6. CASE StartFresh
    BY <1>6 DEF StartFresh
  <1>7. CASE BeginSession
    BY <1>7 DEF BeginSession
  <1>8. CASE BeginFails
    BY <1>8 DEF BeginFails
  <1>9. CASE ChunkDropped
    BY <1>9 DEF ChunkDropped
  <1>10. CASE ChunkAccepted
    BY <1>10 DEF ChunkAccepted
  <1>11. CASE ChunkSent
    BY <1>11 DEF ChunkSent, Sent
  <1>12. CASE ChunkShort
    BY <1>12 DEF ChunkShort
  <1>13. CASE ChunkLost
    BY <1>13 DEF ChunkLost, Sent
  <1>14. CASE EndSignals
    BY <1>14 DEF EndSignals
  <1>15. CASE ChunkBlocks
    BY <1>15 DEF ChunkBlocks
  <1> QED BY <1>1, <1>2, <1>3, <1>4, <1>5, <1>6, <1>7, <1>8, <1>9, <1>10, <1>11, <1>12,
  <1>13, <1>14, <1>15

LEMMA WsStream ==
  ASSUME IInv, WsStep
  PROVE  StreamOK'
  <1> USE DEF IInv
  <1>1. ASSUME UNCHANGED streamVars PROVE StreamOK'
    BY <1>1, StreamStutter
  <1>2. CASE StartResets
    BY <1>2, EndEnterOK DEF StartResets, Caller, StreamAssumption
  <1>3. CASE BeginSession
    BY <1>3, EmptyRing DEF BeginSession, Begin, StreamOK, StreamTypeOK
  <1>4. CASE ChunkSent \/ ChunkShort
    <2>1. ThisChunk \in Chunk
      BY <1>4 DEF ChunkSent, ChunkShort, Sent, Handle, SendsChunk, ThisChunk, Chunk
    <2> QED BY <1>1, <1>4, <2>1, ProducerOK DEF ChunkSent, ChunkShort, PushTimesOut
  <1>5. CASE \/ Receive \/ GatePasses \/ GateDrops \/ ResetDone \/ StartFresh
             \/ BeginFails \/ ChunkDropped \/ ChunkAccepted \/ ChunkBlocks \/ ChunkLost
             \/ EndSignals
    BY <1>1, <1>5 DEF Receive, GatePasses, GateDrops, ResetDone, StartFresh, BeginFails,
       ChunkDropped, ChunkAccepted, ChunkBlocks, ChunkLost, EndSignals, WsOnly
  <1> QED BY <1>2, <1>3, <1>4, <1>5 DEF WsStep

LEMMA WsOK ==
  ASSUME IInv, WsStep
  PROVE  IInv'
  BY WsTypes, WsControl, WsStream DEF WsStep, IInv

-----------------------------------------------------------------------------
(* The server, the network, the audio driver, a new turn and a panic.       *)

\* Steps that touch neither the session nor main, the gate and the handler keep
\* the control conjuncts.
LEMMA NetOnlyControl ==
  ASSUME IInv, UNCHANGED <<streamVars, main, turnVars, gateVars, wsVars>>
  PROVE  StreamOK' /\ SendsChunk' /\ TurnKnown' /\ Control'
  <1>1. StreamOK'
    BY StreamStutter DEF IInv
  <1>2. SendsChunk' /\ TurnKnown' /\ Control'
    BY DEF IInv, SendsChunk, TurnKnown, Control, EndersKnown, GateClosed,
       NotYetActivated,
       RingGone, streamVars, turnVars, gateVars, wsVars
  <1> QED BY <1>1, <1>2

LEMMA SendOK ==
  ASSUME net \in Seq(Frame), NEW f \in Frame, Send(f)
  PROVE  net' \in Seq(Frame)
  BY DEF Send

LEMMA ServerOK ==
  ASSUME IInv, ServerStep
  PROVE  IInv'
  <1> PICK t \in Turn : ServerStarts(t) \/ ServerChunk(t) \/ ServerEnds(t)
             \/ ServerStores(t)
    BY DEF ServerStep
  <1>1. UNCHANGED <<drops, streamVars, main, turnVars, gateVars, wsVars>>
    BY DEF ServerStarts, ServerChunk, ServerEnds, ServerStores, Serve
  <1>2. server' \in [Turn -> {"off", "working", "streaming", "mute", "stored"}]
    BY DEF ServerStarts, ServerChunk, ServerEnds, ServerStores, Serve, IInv, TurnTypeOK
  <1>3. sent' \in [Turn -> 0 .. NChunks]
    BY DEF ServerStarts, ServerChunk, ServerEnds, ServerStores, IInv, TurnTypeOK
  <1>4. net' \in Seq(Frame)
    <2> USE DEF IInv, TurnTypeOK
    <2>1. CASE ServerStarts(t)
      BY <2>1, SendOK DEF ServerStarts, Frame
    <2>2. CASE ServerChunk(t)
      <3>1. sent[t] + 1 \in 1 .. NChunks
        BY <2>2 DEF ServerChunk
      <3> QED BY <2>2, <3>1, SendOK DEF ServerChunk, Frame
    <2>3. CASE ServerEnds(t)
      BY <2>3, SendOK DEF ServerEnds, Frame
    <2>4. CASE ServerStores(t)
      BY <2>4 DEF ServerStores
    <2> QED BY <2>1, <2>2, <2>3, <2>4
  <1>5. TurnTypeOK'
    BY <1>1, <1>2, <1>3, <1>4 DEF IInv, TurnTypeOK, turnVars, gateVars, wsVars
  <1> QED BY <1>1, <1>5, NetOnlyControl DEF IInv

LEMMA DisconnectOK ==
  ASSUME IInv, Disconnect
  PROVE  IInv'
  <1>1. /\ <<>> \in Seq(Frame)
        /\ Muted \in [Turn -> {"off", "working", "streaming", "mute", "stored"}]
    BY DEF Muted, IInv, TurnTypeOK
  <1>2. TurnTypeOK'
    BY <1>1 DEF Disconnect, IInv, TurnTypeOK, turnVars, gateVars, wsVars
  <1> QED BY <1>2, NetOnlyControl DEF Disconnect, IInv

LEMMA AudioOK ==
  ASSUME IInv, AudioStep
  PROVE  IInv'
  <1> USE DEF IInv, AudioStep
  <1>1. StreamOK'
    BY StreamStepOK
  <1>2. TurnTypeOK' /\ SendsChunk' /\ TurnKnown'
    BY DEF TurnTypeOK, SendsChunk, TurnKnown, turnVars, gateVars, wsVars, netVars
  <1>3. EndersKnown'
    <2>1. \A c \in Caller : ending[c] = "no" => ending'[c] = "no"
      BY DEF StreamStep, WriterRuns, WriterReceives, WriterPlays, WriterExits,
         EndDrained,
         EndTimesOut,
         EndReleasesI2s, EndUnpublishes, EndFrees, Caller, StreamOK, StreamTypeOK
    <2> QED BY <2>1 DEF Caller, Control, EndersKnown, wsVars
  <1>4. GateClosed' /\ NotYetActivated'
    BY DEF Control, GateClosed, NotYetActivated, turnVars, gateVars, wsVars
  <1>5. RingGone'
    \* Only the last step of stream_end deletes the ring.
    <2>1. alloc => alloc' \/ (\E c \in Caller : EndFrees(c))
      BY DEF StreamStep, WriterRuns, WriterReceives, WriterPlays, WriterExits,
         EndDrained,
         EndTimesOut,
         EndReleasesI2s, EndUnpublishes
    <2>2. ~alloc => RingGone'
      BY DEF Control, RingGone, turnVars, gateVars, wsVars
    <2>3. ASSUME NEW c \in Caller, EndFrees(c) PROVE RingGone'
      BY <2>3 DEF EndFrees, Caller, Control, EndersKnown, GateClosed, NotYetActivated,
         RingGone,
         turnVars, gateVars, wsVars
    <2>4. alloc' => RingGone'
      BY DEF RingGone
    <2> QED BY <2>1, <2>2, <2>3, <2>4 DEF StreamOK, StreamTypeOK
  <1> QED BY <1>1, <1>2, <1>3, <1>4, <1>5 DEF Control

LEMMA WriterLostOK ==
  ASSUME IInv, WriterLost
  PROVE  IInv'
  <1> USE DEF IInv, WriterLost, WriterDies
  <1>1. StreamOK'
    BY DEF StreamOK, StreamTypeOK
  <1>2. silent' \subseteq 0 .. MaxTurn
    BY DEF TurnTypeOK
  <1>3. TurnTypeOK' /\ SendsChunk' /\ TurnKnown'
    BY <1>2 DEF TurnTypeOK, SendsChunk, TurnKnown, gateVars, wsVars, netVars
  <1>4. Control'
    BY DEF Control, EndersKnown, GateClosed, NotYetActivated, RingGone, gateVars, wsVars
  <1> QED BY <1>1, <1>3, <1>4

LEMMA StartTurnOK ==
  ASSUME IInv, StartTurn
  PROVE  IInv'
  <1> USE DEF IInv, StartTurn
  <1>1. StreamOK'
    BY StreamStutter
  <1>2. TurnTypeOK' /\ SendsChunk' /\ TurnKnown'
    <2>1. turn' \in 0 .. MaxTurn /\ turn' # 0 /\ main' \in MainAt
      BY DEF TurnTypeOK, MainAt
    <2>2. activated' \in BOOLEAN /\ got' \in BOOLEAN
      OBVIOUS
    <2>3. server' \in [Turn -> {"off", "working", "streaming", "mute", "stored"}]
      BY DEF TurnTypeOK
    <2>4. SendsChunk'
      BY DEF SendsChunk, wsVars
    <2> QED BY <2>1, <2>2, <2>3, <2>4 DEF TurnTypeOK, TurnKnown, gateVars, wsVars
  <1>3. Control'
    BY DEF Control, EndersKnown, GateClosed, NotYetActivated, RingGone, gateVars,
       wsVars,
       streamVars, TurnTypeOK
  <1> QED BY <1>1, <1>2, <1>3

LEMMA PanicOK ==
  ASSUME IInv, Panic
  PROVE  IInv'
  <1> USE DEF IInv, Panic
  <1>1. StreamOK'
    BY SpeakerOK
  <1>2. /\ <<>> \in Seq(Frame)
        /\ Muted \in [Turn -> {"off", "working", "streaming", "mute", "stored"}]
    BY DEF Muted, TurnTypeOK
  <1>3. outcome' \in [Turn -> {"open", "stream", "wav", "error", "panic"}]
    BY DEF TurnTypeOK
  <1>4. expect' \in 0 .. MaxTurn /\ main' \in MainAt /\ ws' = "idle"
    BY DEF MainAt
  <1>5. activated' \in BOOLEAN /\ got' \in BOOLEAN /\ ttsEnd' \in BOOLEAN
    OBVIOUS
  <1>6. TurnTypeOK'
    BY <1>2, <1>3, <1>4, <1>5 DEF TurnTypeOK, NoFrame
  <1>7. SendsChunk' /\ TurnKnown'
    BY DEF SendsChunk, TurnKnown
  <1>8. Control'
    BY DEF StreamReset, Caller, Control, EndersKnown, GateClosed, NotYetActivated,
       RingGone
  <1> QED BY <1>1, <1>6, <1>7, <1>8

-----------------------------------------------------------------------------
(* The theorems.                                                            *)

LEMMA InitOK == Init => IInv
  <1> SUFFICES ASSUME Init PROVE IInv
    OBVIOUS
  <1>1. StreamOK
    BY StreamInitOK DEF Init
  <1>2. TurnTypeOK
    <2>1. <<>> \in Seq(Frame)
      OBVIOUS
    <2>2. /\ server \in [Turn -> {"off", "working", "streaming", "mute", "stored"}]
          /\ sent \in [Turn -> 0 .. NChunks]
          /\ outcome \in [Turn -> {"open", "stream", "wav", "error", "panic"}]
      BY DEF Init
    <2>3. turn \in 0 .. MaxTurn /\ expect \in 0 .. MaxTurn /\ owner \in 0 .. MaxTurn
      BY DEF Init
    <2>4. activated \in BOOLEAN /\ got \in BOOLEAN /\ ttsEnd \in BOOLEAN
      BY DEF Init
    <2>5. drops \in 0 .. MaxDrops /\ main \in MainAt
      BY DEF Init, MainAt
    <2> QED BY <2>1, <2>2, <2>3, <2>4, <2>5 DEF Init, TurnTypeOK, NoFrame
  <1>3. SendsChunk /\ TurnKnown
    BY DEF Init, SendsChunk, TurnKnown
  <1>4. Control
    BY DEF Init, StreamInit, Caller, Control, EndersKnown, GateClosed, NotYetActivated,
       RingGone
  <1> QED BY <1>1, <1>2, <1>3, <1>4 DEF IInv

LEMMA StepOK == IInv /\ [Next]_vars => IInv'
  <1> SUFFICES ASSUME IInv, [Next]_vars PROVE IInv'
    OBVIOUS
  <1>1. CASE UNCHANGED vars
    <2>1. TurnTypeOK'
      BY <1>1 DEF vars, IInv, TurnTypeOK, turnVars, gateVars, wsVars, netVars
    <2> QED BY <1>1, <2>1, NetOnlyControl DEF vars, IInv
  <1>2. CASE Rest
    BY <1>1, <1>2 DEF Rest
  <1>3. CASE StartTurn
    BY <1>3, StartTurnOK
  <1>4. CASE MainStep
    BY <1>4, MainOK
  <1>5. CASE WsStep
    BY <1>5, WsOK
  <1>6. CASE ServerStep
    BY <1>6, ServerOK
  <1>7. CASE AudioStep
    BY <1>7, AudioOK
  <1>8. CASE Disconnect
    BY <1>8, DisconnectOK
  <1>9. CASE Panic
    BY <1>9, PanicOK
  <1>10. CASE WriterLost
    BY <1>10, WriterLostOK
  <1> QED BY <1>1, <1>2, <1>3, <1>4, <1>5, <1>6, <1>7, <1>8, <1>9, <1>10 DEF Next

LEMMA Inductive == Spec => []IInv
  BY InitOK, StepOK, PTL DEF Spec

\* The turn's state is always well typed: voice_turn_execute, the ws handler, the
\* stream session and the server never leave the values the code gives them.
THEOREM TypeCorrect == Spec => []TypeOK
  <1>1. IInv => TypeOK
    BY DEF IInv, StreamOK, TypeOK
  <1> QED BY <1>1, Inductive, PTL

\* An activated ring outlives every send its gate admits: voice_turn_execute
\* clears the expectation before it tears an activated stream down.
THEOREM RingKept == Spec => []ActivatedRingKept
  <1>1. IInv => ActivatedRingKept
    BY DEF IInv, Control, RingGone, ActivatedRingKept, Matches
  <1> QED BY <1>1, Inductive, PTL
-----------------------------------------------------------------------------
(* The order of what is heard, and whether it is all of it.                 *)

\* Chunk a belongs before chunk b.
Before(a, b) == a.turn < b.turn \/ (a.turn = b.turn /\ a.seq < b.seq)

\* A chunk that audio_out has taken: played, in the ring or in the writer's hand.
Held(c) ==
  \/ \E i \in DOMAIN spoken : spoken[i] = c
  \/ \E i \in DOMAIN ring : ring[i] = c
  \/ writer = "write" /\ hand = c

\* What has been played comes before what the writer holds, and that before
\* what the ring holds.
Played == \A i, j \in DOMAIN spoken : i < j => Before(spoken[i], spoken[j])
Queued ==
  /\ \A i, j \in DOMAIN ring : i < j => Before(ring[i], ring[j])
  /\ \A i \in DOMAIN spoken, j \in DOMAIN ring : Before(spoken[i], ring[j])
InHand ==
  writer = "write" =>
    /\ \A i \in DOMAIN spoken : Before(spoken[i], hand)
    /\ \A j \in DOMAIN ring : Before(hand, ring[j])

\* Nothing is held of a turn to come, nor of a reply not yet sent.
HeldKnown == \A c \in Chunk : Held(c) => c.turn <= turn /\ c.seq <= sent[c.turn]

\* The gate expects the running turn or nobody, and what it let pass is of the
\* running turn.
Current ==
  /\ expect # 0 => expect = turn
  /\ ws \notin {"idle", "gate"} => frame.turn = turn

\* A chunk still on its way is ahead of all that is held of its reply ...
Ahead(f) ==
  f.kind = "chunk" =>
    /\ f.seq <= sent[f.turn]
    /\ \A c \in Chunk : Held(c) /\ c.turn = f.turn => c.seq < f.seq

\* ... and the chunks on their way follow each other.
Follows(f, g) ==
  f.kind = "chunk" /\ g.kind = "chunk" /\ f.turn = g.turn => f.seq < g.seq

FrameAhead ==
  ws # "idle" => Ahead(frame) /\ \A i \in DOMAIN net : Follows(frame, net[i])
NetAhead ==
  /\ \A i \in DOMAIN net : Ahead(net[i])
  /\ \A i, j \in DOMAIN net : i < j => Follows(net[i], net[j])

OrdInv ==
  Played /\ Queued /\ InHand /\ HeldKnown /\ Current /\ FrameAhead /\ NetAhead

-----------------------------------------------------------------------------
(* Sequences, as the queues of this model use them.                         *)

LEMMA TailFacts ==
  ASSUME NEW S, NEW s \in Seq(S), s # <<>>
  PROVE  /\ 1 \in DOMAIN s /\ Head(s) = s[1]
         /\ \A i \in DOMAIN Tail(s) :
              i \in Nat \ {0} /\ i + 1 \in DOMAIN s /\ Tail(s)[i] = s[i + 1]
  OBVIOUS

LEMMA AppendFacts ==
  ASSUME NEW S, NEW s \in Seq(S), NEW e \in S
  PROVE  \A i \in DOMAIN Append(s, e) :
           \/ i \in DOMAIN s /\ Append(s, e)[i] = s[i]
           \/ i = Len(s) + 1 /\ Append(s, e)[i] = e
  OBVIOUS

LEMMA DomainFacts ==
  ASSUME NEW S, NEW s \in Seq(S)
  PROVE  \A i \in DOMAIN s : i \in Nat /\ i <= Len(s) /\ s[i] \in S
  OBVIOUS

LEMMA EmptyDomain == DOMAIN <<>> = {}
  OBVIOUS

-----------------------------------------------------------------------------
(* Steps after which audio_out holds no more than before, nothing new is on *)
(* its way and the gate expects nobody new.                                 *)

Quiet ==
  /\ UNCHANGED <<spoken, turn, sent>>
  /\ ring' = ring \/ ring' = <<>>
  /\ writer' = "write" => writer = "write" /\ hand' = hand
  /\ net' = net \/ net' = <<>>
  /\ ws' # "idle" => ws # "idle" /\ frame' = frame
  /\ ws' \notin {"idle", "gate"} =>
       ws \notin {"idle", "gate"} \/ (expect # 0 /\ frame.turn = expect)
  /\ expect' \in {expect, 0, turn}

LEMMA QuietOK ==
  ASSUME OrdInv, Quiet
  PROVE  OrdInv'
  <1> USE DEF OrdInv, Quiet
  <1>1. /\ ring' = ring \/ DOMAIN ring' = {}
        /\ net' = net \/ DOMAIN net' = {}
    BY EmptyDomain
  <1>2. \A c \in Chunk : Held(c)' => Held(c)
    BY <1>1 DEF Held
  <1>3. Played' /\ Queued' /\ InHand'
    BY <1>1 DEF Played, Queued, InHand
  <1>4. HeldKnown'
    BY <1>2 DEF HeldKnown
  <1>5. Current'
    BY DEF Current
  <1>6. \A f : Ahead(f) => Ahead(f)'
    BY <1>2 DEF Ahead
  <1>7. FrameAhead'
    BY <1>1, <1>6 DEF FrameAhead
  <1>8. NetAhead'
    BY <1>1, <1>6 DEF NetAhead
  <1> QED BY <1>3, <1>4, <1>5, <1>7, <1>8

\* Every step of main but the beginning of a turn is quiet: it plays, sends and
\* receives nothing itself.
LEMMA MainQuiet ==
  ASSUME MainStep
  PROVE  Quiet
  <1> USE DEF Quiet, Go, Jump, Return, CloseGate, turnVars, gateVars, wsVars, netVars,
       streamVars
  <1>1. ASSUME Expect \/ ClearEnd \/ AckFails \/ Unexpect \/ Fallback
        PROVE  Quiet
    BY <1>1 DEF Expect, ClearEnd, AckFails, Unexpect, Fallback
  <1>2. ASSUME AckOpens \/ AckDone \/ ReplyOpens \/ ReplyPlayed
        PROVE  Quiet
    BY <1>2 DEF AckOpens, AckDone, ReplyOpens, ReplyPlayed, WavTakesI2s, WavReleasesI2s
  <1>3. ASSUME AckFailEnds \/ ActFailEnds \/ EndDrains \/ FallbackEnds
        PROVE  Quiet
    BY <1>3 DEF AckFailEnds, ActFailEnds, EndDrains, FallbackEnds, EndEnter
  <1>4. ASSUME \/ AckFailSkips \/ AckFailEnded \/ EndRefused \/ EndReturns
               \/ GetFails \/ ReplyFails
        PROVE  Quiet
    BY <1>4 DEF AckFailSkips, AckFailEnded, EndRefused, EndReturns, GetFails, ReplyFails
  <1>5. ASSUME \/ CheckFinds \/ CheckMisses \/ ActivateFails \/ ActFailSkips
               \/ ActFailEnded \/ LateFinds \/ LateMisses \/ LateActivateFails
               \/ FallbackSkips \/ FallbackEnded \/ GetAnswers
        PROVE  Quiet
    BY <1>5 DEF CheckFinds, CheckMisses, ActivateFails, ActFailSkips, ActFailEnded,
       LateFinds, LateMisses, LateActivateFails, FallbackSkips, FallbackEnded,
       GetAnswers
  <1>6. ASSUME ActivateNow \/ LateActivates
        PROVE  Quiet
    BY <1>6 DEF ActivateNow, LateActivates, ActivateFrom, Activate
  <1>7. ASSUME WaitGets \/ WaitTimesOut
        PROVE  Quiet
    BY <1>7 DEF WaitGets, WaitTimesOut, WaitEnds
  <1> QED BY <1>1, <1>2, <1>3, <1>4, <1>5, <1>6, <1>7 DEF MainStep

\* So is every step of the ws task that neither takes a frame off the network
\* nor puts a chunk into the ring.
LEMMA WsQuiet ==
  ASSUME WsStep, ~Receive, ~ChunkSent
  PROVE  Quiet
  <1> USE DEF Quiet, Handle, WsOnly, turnVars, gateVars, netVars, streamVars
  <1>1. ASSUME GatePasses \/ GateDrops
        PROVE  Quiet
    BY <1>1 DEF GatePasses, GateDrops, Matches
  <1>2. ASSUME StartResets \/ ResetDone \/ StartFresh
        PROVE  Quiet
    BY <1>2 DEF StartResets, ResetDone, StartFresh, EndEnter
  <1>3. ASSUME BeginSession \/ BeginFails
        PROVE  Quiet
    BY <1>3 DEF BeginSession, BeginFails, Begin
  <1>4. ASSUME ChunkDropped \/ ChunkAccepted \/ ChunkBlocks \/ ChunkShort \/ ChunkLost
        PROVE  Quiet
    BY <1>4 DEF ChunkDropped, ChunkAccepted, ChunkBlocks, ChunkShort, ChunkLost, Sent, PushTimesOut
  <1>5. ASSUME EndSignals
        PROVE  Quiet
    BY <1>5 DEF EndSignals
  <1> QED BY <1>1, <1>2, <1>3, <1>4, <1>5 DEF WsStep

\* And what audio_out does beside draining the ring, the server's giving up, a
\* writer that gives up, a lost connection and a panic.
LEMMA AudioQuiet ==
  ASSUME AudioStep, ~WriterReceives, ~WriterPlays
  PROVE  Quiet
  BY DEF AudioStep, StreamStep, WriterRuns, WriterExits, EndDrained, EndTimesOut, EndReleasesI2s,
     EndUnpublishes, EndFrees, Quiet, turnVars, gateVars, wsVars, netVars

LEMMA RestQuiet ==
  ASSUME \/ UNCHANGED vars \/ WriterLost \/ Disconnect \/ Panic
         \/ \E t \in Turn : ServerStores(t)
  PROVE  Quiet
  BY DEF vars, WriterLost, WriterDies, Disconnect, Panic, StreamReset, ServerStores, Serve,
     Quiet, streamVars, turnVars, gateVars, wsVars, netVars

-----------------------------------------------------------------------------
(* The other steps.                                                         *)

LEMMA StartTurnOrder ==
  ASSUME IInv, OrdInv, StartTurn
  PROVE  OrdInv'
  <1> USE DEF IInv, OrdInv, StartTurn, streamVars, wsVars, gateVars
  <1>1. \A c : Held(c)' <=> Held(c)
    BY DEF Held
  <1>2. Played' /\ Queued' /\ InHand'
    BY DEF Played, Queued, InHand
  <1>3. HeldKnown'
    BY <1>1 DEF HeldKnown, TurnTypeOK, Chunk, Turn
  <1>4. Current'
    BY DEF Current, Control, GateClosed
  <1>5. FrameAhead' /\ NetAhead'
    BY <1>1 DEF FrameAhead, NetAhead, Ahead
  <1> QED BY <1>2, <1>3, <1>4, <1>5

LEMMA ReceiveOrder ==
  ASSUME IInv, OrdInv, Receive
  PROVE  OrdInv'
  <1> USE DEF OrdInv, Receive, streamVars, turnVars, gateVars
  <1>1. \A c : Held(c)' <=> Held(c)
    BY DEF Held
  <1>2. Played' /\ Queued' /\ InHand' /\ HeldKnown' /\ Current'
    BY <1>1 DEF Played, Queued, InHand, HeldKnown, Current
  <1>3. \A f : Ahead(f)' <=> Ahead(f)
    BY <1>1 DEF Ahead
  <1>4. /\ 1 \in DOMAIN net /\ frame' = net[1]
        /\ \A i \in DOMAIN net' :
             i \in Nat \ {0} /\ i + 1 \in DOMAIN net /\ net'[i] = net[i + 1]
    BY TailFacts DEF IInv, TurnTypeOK
  <1>5. FrameAhead'
    <2>1. Ahead(frame)'
      BY <1>3, <1>4 DEF NetAhead
    <2>2. \A i \in DOMAIN net' : Follows(frame', net'[i])
      BY <1>4 DEF NetAhead
    <2> QED BY <2>1, <2>2 DEF FrameAhead
  <1>6. NetAhead'
    <2>1. \A i \in DOMAIN net' : Ahead(net[i])'
      BY <1>3, <1>4 DEF NetAhead
    <2>2. \A i, j \in DOMAIN net' : i < j => Follows(net'[i], net'[j])
      BY <1>4 DEF NetAhead
    <2> QED BY <2>1, <2>2 DEF NetAhead
  <1> QED BY <1>2, <1>5, <1>6

\* The chunk that enters the ring comes after all that is held, and before all
\* that is on its way.
LEMMA ChunkSentOrder ==
  ASSUME IInv, OrdInv, ChunkSent
  PROVE  OrdInv'
  <1> USE DEF IInv, OrdInv, ChunkSent, Sent, PushFits, Handle, turnVars, gateVars, netVars
  <1> DEFINE c == ThisChunk
  <1>1. /\ c \in Chunk /\ c.turn = turn /\ c.turn = frame.turn /\ c.seq = frame.seq
        /\ frame.kind = "chunk"
    BY DEF SendsChunk, ThisChunk, Chunk, Current
  <1>2. /\ c.seq <= sent[c.turn]
        /\ \A d \in Chunk : Held(d) => Before(d, c)
    <2>1. Ahead(frame)
      BY DEF FrameAhead
    <2>2. \A d \in Chunk : Held(d) =>
            d.turn <= c.turn /\ (d.turn = c.turn => d.seq < c.seq)
      BY <1>1, <2>1 DEF HeldKnown, Ahead
    <2> QED BY <1>1, <2>1, <2>2 DEF Ahead, Before, Chunk, Turn
  <1>3. /\ \A i \in DOMAIN ring' :
             \/ i \in DOMAIN ring /\ ring'[i] = ring[i]
             \/ i = Len(ring) + 1 /\ ring'[i] = c
        /\ \A i \in DOMAIN ring : i \in Nat /\ i <= Len(ring) /\ ring[i] \in Chunk
        /\ \A i \in DOMAIN spoken : spoken[i] \in Chunk
    BY <1>1, AppendFacts, DomainFacts DEF StreamOK, StreamTypeOK
  <1>4. \A d : Held(d)' => Held(d) \/ d = c
    BY <1>3 DEF Held
  <1>5. Played'
    BY DEF Played
  <1>6. Queued'
    <2>1. \A i \in DOMAIN ring : Before(ring[i], c)
      BY <1>2, <1>3 DEF Held
    <2>2. \A i \in DOMAIN spoken : Before(spoken[i], c)
      BY <1>2, <1>3 DEF Held
    <2>3. \A i, j \in DOMAIN ring' : i < j => i \in DOMAIN ring /\ ring'[i] = ring[i]
      BY <1>3, DomainFacts DEF StreamOK, StreamTypeOK
    <2>4. \A i, j \in DOMAIN ring' : i < j => Before(ring'[i], ring'[j])
      BY <1>3, <2>1, <2>3 DEF Queued
    <2>5. \A i \in DOMAIN spoken, j \in DOMAIN ring' : Before(spoken[i], ring'[j])
      BY <1>3, <2>2 DEF Queued
    <2> QED BY <2>4, <2>5 DEF Queued
  <1>7. InHand'
    <2>1. writer = "write" => Before(hand, c)
      BY <1>2 DEF StreamOK, Held
    <2> QED BY <1>3, <2>1 DEF InHand
  <1>8. HeldKnown'
    BY <1>1, <1>2, <1>4 DEF HeldKnown, Chunk, Turn
  <1>9. Current' /\ FrameAhead'
    BY DEF Current, FrameAhead
  <1>10. NetAhead'
    <2>1. \A i \in DOMAIN net : Ahead(net[i]) /\ Follows(frame, net[i])
      BY DEF FrameAhead, NetAhead
    <2>2. \A f : Ahead(f) /\ Follows(frame, f) => Ahead(f)'
      BY <1>1, <1>4 DEF Ahead, Follows
    <2> QED BY <2>1, <2>2 DEF NetAhead
  <1> QED BY <1>5, <1>6, <1>7, <1>8, <1>9, <1>10

\* A frame the server sends is the last of its reply so far.
LEMMA SendOrder ==
  ASSUME IInv, OrdInv, NEW t \in Turn,
         ServerStarts(t) \/ ServerChunk(t) \/ ServerEnds(t)
  PROVE  OrdInv'
  <1> USE DEF IInv, OrdInv, Serve, streamVars, turnVars, gateVars, wsVars
  <1>1. PICK f \in Frame :
          /\ net' = Append(net, f)
          /\ f.kind = "chunk" => f.turn = t /\ f.seq = sent[t] + 1 /\ sent'[t] = f.seq
          /\ \A u \in Turn : sent'[u] = sent[u] \/ (u = t /\ sent'[u] = sent[u] + 1)
    <2>1. CASE ServerStarts(t)
      BY <2>1 DEF ServerStarts, Send, Frame
    <2>2. CASE ServerChunk(t)
      <3>1. sent[t] + 1 \in 1 .. NChunks
        <4>1. sent[t] \in 0 .. NChunks
          BY DEF TurnTypeOK
        <4>2. sent[t] < NChunks
          BY <2>2 DEF ServerChunk
        <4> QED BY <4>1, <4>2, StreamAssumption DEF StreamAssumption
      <3>2. [kind |-> "chunk", turn |-> t, seq |-> sent[t] + 1] \in Frame
        BY <3>1 DEF Frame
      <3>3. \A u \in Turn : sent'[u] = IF u = t THEN sent[t] + 1 ELSE sent[u]
        BY <2>2 DEF ServerChunk, TurnTypeOK
      <3> QED BY <2>2, <3>2, <3>3 DEF ServerChunk, Send
    <2>3. CASE ServerEnds(t)
      BY <2>3 DEF ServerEnds, Send, Frame
    <2> QED BY <2>1, <2>2, <2>3
  <1>2. UNCHANGED <<streamVars, wsVars, turn, expect>>
    BY DEF ServerStarts, ServerChunk, ServerEnds
  <1>3. /\ \A c : Held(c)' <=> Held(c)
        /\ Played' /\ Queued' /\ InHand' /\ Current'
    BY <1>2 DEF Held, Played, Queued, InHand, Current
  <1>4. \A u \in Turn : sent[u] \in Nat /\ sent'[u] \in Nat /\ sent[u] <= sent'[u]
    BY <1>1 DEF TurnTypeOK
  <1>5. HeldKnown'
    <2>1. \A c \in Chunk : c.turn \in Turn /\ c.seq \in Nat
      BY DEF Chunk
    <2>2. \A c \in Chunk : Held(c) => c.turn <= turn /\ c.seq <= sent'[c.turn]
      BY <1>4, <2>1 DEF HeldKnown
    <2> QED BY <1>2, <1>3, <2>2 DEF HeldKnown
  <1>6. \A g \in Frame : Ahead(g) => Ahead(g)' /\ Follows(g, f)
    BY <1>1, <1>3, <1>4 DEF Ahead, Follows, Frame, Turn
  <1>7. Ahead(f)'
    BY <1>1, <1>3, <1>4 DEF HeldKnown, Ahead, Frame, Chunk, Turn
  <1>8. /\ \A i \in DOMAIN net' :
             \/ i \in DOMAIN net /\ net'[i] = net[i]
             \/ i = Len(net) + 1 /\ net'[i] = f
        /\ \A i \in DOMAIN net : i \in Nat /\ i <= Len(net) /\ net[i] \in Frame
    BY <1>1, AppendFacts, DomainFacts DEF TurnTypeOK
  <1>9. FrameAhead'
    <2>1. frame \in Frame \/ frame.kind # "chunk"
      BY DEF TurnTypeOK, NoFrame
    <2>2. ASSUME ws # "idle" PROVE Ahead(frame)' /\ Follows(frame, f)
      <3>1. CASE frame \in Frame
        BY <1>2, <1>6, <2>2, <3>1 DEF FrameAhead
      <3>2. CASE frame.kind # "chunk"
        BY <1>2, <3>2 DEF Ahead, Follows
      <3> QED BY <2>1, <3>1, <3>2
    <2> QED BY <1>2, <1>8, <2>2 DEF FrameAhead
  <1>10. NetAhead'
    <2>1. \A i \in DOMAIN net : Ahead(net[i]) /\ net[i] \in Frame
      BY <1>8 DEF NetAhead
    <2>2. \A i \in DOMAIN net' : Ahead(net[i])'
      BY <1>6, <1>7, <1>8, <2>1
    <2>3. \A i, j \in DOMAIN net' : i < j =>
            i \in DOMAIN net /\ net'[i] = net[i]
      BY <1>8 DEF TurnTypeOK
    <2>4. \A i, j \in DOMAIN net' : i < j => Follows(net'[i], net'[j])
      BY <1>6, <1>8, <2>1, <2>3 DEF NetAhead
    <2> QED BY <2>2, <2>4 DEF NetAhead
  <1> QED BY <1>3, <1>5, <1>9, <1>10

\* The writer takes the first chunk of the ring ...
LEMMA WriterReceivesOrder ==
  ASSUME IInv, OrdInv, WriterReceives, UNCHANGED <<turn, expect, wsVars, netVars>>
  PROVE  OrdInv'
  <1> USE DEF IInv, OrdInv, WriterReceives, wsVars, netVars
  <1>1. /\ 1 \in DOMAIN ring /\ hand' = ring[1]
        /\ \A i \in DOMAIN ring' :
             i \in Nat \ {0} /\ i + 1 \in DOMAIN ring /\ ring'[i] = ring[i + 1]
    BY TailFacts DEF StreamOK, StreamTypeOK
  <1>2. \A c : Held(c)' => Held(c)
    BY <1>1 DEF Held
  <1>3. Played' /\ Queued'
    BY <1>1 DEF Played, Queued
  <1>4. InHand'
    BY <1>1 DEF Queued, InHand
  <1>5. HeldKnown' /\ Current'
    BY <1>2 DEF HeldKnown, Current
  <1>6. \A f : Ahead(f) => Ahead(f)'
    BY <1>2 DEF Ahead
  <1>7. FrameAhead' /\ NetAhead'
    BY <1>6 DEF FrameAhead, NetAhead
  <1> QED BY <1>3, <1>4, <1>5, <1>7

\* ... and plays it.
LEMMA WriterPlaysOrder ==
  ASSUME IInv, OrdInv, WriterPlays, UNCHANGED <<turn, expect, wsVars, netVars>>
  PROVE  OrdInv'
  <1> USE DEF IInv, OrdInv, WriterPlays, wsVars, netVars
  <1>1. /\ \A i \in DOMAIN spoken' :
             \/ i \in DOMAIN spoken /\ spoken'[i] = spoken[i]
             \/ i = Len(spoken) + 1 /\ spoken'[i] = hand
        /\ \A i \in DOMAIN spoken : i \in Nat /\ i <= Len(spoken)
    BY AppendFacts, DomainFacts DEF StreamOK, StreamTypeOK
  <1>2. \A c : Held(c)' => Held(c)
    BY <1>1 DEF Held
  <1>3. Played'
    <2>1. \A i, j \in DOMAIN spoken' : i < j =>
            i \in DOMAIN spoken /\ spoken'[i] = spoken[i]
      BY <1>1, DomainFacts DEF StreamOK, StreamTypeOK
    <2> QED BY <1>1, <2>1 DEF Played, InHand
  <1>4. Queued' /\ InHand'
    BY <1>1 DEF Queued, InHand
  <1>5. HeldKnown' /\ Current'
    BY <1>2 DEF HeldKnown, Current
  <1>6. \A f : Ahead(f) => Ahead(f)'
    BY <1>2 DEF Ahead
  <1>7. FrameAhead' /\ NetAhead'
    BY <1>6 DEF FrameAhead, NetAhead
  <1> QED BY <1>3, <1>4, <1>5, <1>7

-----------------------------------------------------------------------------
(* The theorem.                                                             *)

LEMMA InitOrder == Init => OrdInv
  <1> SUFFICES ASSUME Init PROVE OrdInv
    OBVIOUS
  <1>1. DOMAIN spoken = {} /\ DOMAIN ring = {} /\ DOMAIN net = {} /\ writer = "none"
    BY EmptyDomain DEF Init, StreamInit
  <1> QED BY <1>1 DEF Init, OrdInv, Played, Queued, InHand, HeldKnown, Held, Current,
             FrameAhead, NetAhead

LEMMA StepOrder == IInv /\ OrdInv /\ [Next]_vars => OrdInv'
  <1> SUFFICES ASSUME IInv, OrdInv, [Next]_vars PROVE OrdInv'
    OBVIOUS
  <1>1. CASE UNCHANGED vars \/ WriterLost \/ Disconnect \/ Panic
    BY <1>1, RestQuiet, QuietOK
  <1>2. CASE Rest
    BY <1>1, <1>2 DEF Rest
  <1>3. CASE StartTurn
    BY <1>3, StartTurnOrder
  <1>4. CASE MainStep
    BY <1>4, MainQuiet, QuietOK
  <1>5. CASE WsStep
    BY <1>5, ReceiveOrder, ChunkSentOrder, WsQuiet, QuietOK
  <1>6. CASE ServerStep
    BY <1>6, SendOrder, RestQuiet, QuietOK DEF ServerStep
  <1>7. CASE AudioStep
    <2>1. UNCHANGED <<turn, expect, wsVars, netVars>>
      BY <1>7 DEF AudioStep, turnVars, gateVars
    <2> QED BY <1>7, <2>1, WriterReceivesOrder, WriterPlaysOrder, AudioQuiet, QuietOK
  <1> QED BY <1>1, <1>2, <1>3, <1>4, <1>5, <1>6, <1>7 DEF Next

\* Over all turns the amplifier plays the chunks in the order of the replies they
\* belong to, none twice and none after a later one: the gate of ws_client, the
\* ring and the teardown between turns keep an old stream out of a new one.
THEOREM PlaysInOrder == Spec => []HeardInOrder
  <1>1. OrdInv => HeardInOrder
    BY DEF OrdInv, Played, Before, HeardInOrder
  <1>2. Init => IInv /\ OrdInv
    BY InitOK, InitOrder
  <1>3. IInv /\ OrdInv /\ [Next]_vars => (IInv /\ OrdInv)'
    BY StepOK, StepOrder
  <1> QED BY <1>1, <1>2, <1>3, PTL DEF Spec
-----------------------------------------------------------------------------
(* The frames of a reply on their way to the handler.                       *)

OnWay(f) == (ws # "idle" /\ frame = f) \/ \E i \in DOMAIN net : net[i] = f

StartOf(t)   == [kind |-> "start", turn |-> t, seq |-> 0]
EndOf(t)     == [kind |-> "end", turn |-> t, seq |-> 0]
PieceOf(t, k) == [kind |-> "chunk", turn |-> t, seq |-> k]

\* Of one reply, tts_start comes first and tts_end last.
Precedes(f, g) == f.turn = g.turn => f.kind # "end" /\ g.kind # "start"
InLine ==
  /\ ws # "idle" => \A i \in DOMAIN net : Precedes(frame, net[i])
  /\ \A i, j \in DOMAIN net : i < j => Precedes(net[i], net[j])

\* What the server has not begun to send is not on its way and has begun no
\* session; a session was begun by a start that is on its way no more; and an end
\* comes after all there is to send.
UnsentOf(t) ==
  /\ t > turn => server[t] = "off"
  /\ server[t] \in {"off", "working"} =>
       sent[t] = 0 /\ owner # t /\ \A f \in Frame : OnWay(f) => f.turn # t
  /\ OnWay(StartOf(t)) => owner # t
  /\ OnWay(EndOf(t)) => server[t] = "stored" /\ sent[t] = NChunks
Unsent == \A t \in Turn : UnsentOf(t)
StartsBegin ==
  /\ ws \in {"resetting", "begin"} => frame.kind = "start"
  /\ owner <= turn

FlowInv == InLine /\ Unsent /\ StartsBegin

\* Steps that put nothing on its way, begin no session and leave the server where it
\* was or nearer to its end.
Calm ==
  /\ net' = net \/ net' = <<>>
  /\ ws' # "idle" => ws # "idle" /\ frame' = frame
  /\ ws' \in {"resetting", "begin"} => ws \in {"resetting", "begin"} \/ frame.kind = "start"
  /\ UNCHANGED <<sent, owner, turn>>
  /\ \A t \in Turn :
       /\ server'[t] \in {"off", "working"} => server[t] = server'[t]
       /\ server[t] \in {"off", "stored"} => server'[t] = server[t]

LEMMA CalmFrames ==
  ASSUME Calm PROVE \A f : OnWay(f)' => OnWay(f)
  BY EmptyDomain DEF Calm, OnWay

LEMMA CalmFlow ==
  ASSUME FlowInv, Calm PROVE FlowInv'
  <1> USE DEF FlowInv, Calm
  <1>1. \A f : OnWay(f)' => OnWay(f)
    BY CalmFrames
  <1>2. net' = net \/ DOMAIN net' = {}
    BY EmptyDomain
  <1>3. InLine'
    BY <1>2 DEF InLine
  <1>4. Unsent'
    BY <1>1 DEF Unsent, UnsentOf
  <1>5. StartsBegin'
    BY DEF StartsBegin
  <1> QED BY <1>3, <1>4, <1>5

LEMMA MainCalm ==
  ASSUME MainStep PROVE Calm /\ UNCHANGED <<wsVars, netVars, turn>>
  <1>1. UNCHANGED <<wsVars, netVars, turn>>
    BY DEF MainStep, Expect, ClearEnd, AckOpens, AckFails, AckDone, AckFailEnds, AckFailSkips,
       AckFailEnded, CheckFinds, CheckMisses, ActivateNow, ActivateFails, ActFailEnds, ActFailSkips,
       ActFailEnded, WaitGets, WaitTimesOut, WaitEnds, Unexpect, LateFinds, LateMisses, LateActivates,
       LateActivateFails, ActivateFrom, EndDrains, EndRefused, EndReturns, Fallback, FallbackEnds,
       FallbackSkips, FallbackEnded, GetAnswers, GetFails, ReplyOpens, ReplyFails, ReplyPlayed,
       Go, Jump, Return, CloseGate, turnVars
  <1> QED BY <1>1 DEF Calm, wsVars, netVars

LEMMA WsCalm ==
  ASSUME WsStep, ~Receive, ~BeginSession PROVE Calm
  BY DEF WsStep, GatePasses, GateDrops, StartResets, ResetDone, StartFresh, BeginFails, ChunkDropped,
     ChunkAccepted, ChunkSent, ChunkBlocks, ChunkShort, ChunkLost, Sent, EndSignals, Handle, WsOnly, Calm, turnVars, netVars

LEMMA RestCalm ==
  ASSUME TurnTypeOK,
         \/ UNCHANGED vars \/ AudioStep \/ WriterLost \/ Disconnect \/ Panic
         \/ \E t \in Turn : ServerStores(t)
  PROVE  Calm
  <1> USE DEF Calm
  <1>1. CASE UNCHANGED vars \/ AudioStep \/ WriterLost
    BY <1>1 DEF vars, AudioStep, WriterLost, turnVars, wsVars, netVars
  <1>2. CASE Disconnect
    BY <1>2 DEF Disconnect, Muted, TurnTypeOK, turnVars, wsVars
  <1>3. CASE Panic
    BY <1>3 DEF Panic, Muted, TurnTypeOK
  <1>4. CASE \E t \in Turn : ServerStores(t)
    BY <1>4 DEF ServerStores, Serve, TurnTypeOK, turnVars, wsVars
  <1> QED BY <1>1, <1>2, <1>3, <1>4

LEMMA StartTurnFlow ==
  ASSUME IInv, FlowInv, StartTurn PROVE FlowInv'
  <1> USE DEF IInv, FlowInv, StartTurn, wsVars
  <1>1. /\ turn + 1 \in Turn /\ turn \in Nat /\ turn' = turn + 1
        /\ \A t \in Turn : server'[t] = IF t = turn + 1 THEN "working" ELSE server[t]
    <2>1. turn \in Nat /\ turn < MaxTurn
      BY DEF TurnTypeOK
    <2>2. turn + 1 \in Turn
      BY <2>1, StreamAssumption DEF Turn, StreamAssumption
    <2>3. \A t \in Turn : server'[t] = IF t = turn + 1 THEN "working" ELSE server[t]
      BY DEF TurnTypeOK
    <2> QED BY <2>1, <2>2, <2>3
  <1>2. \A f : OnWay(f)' <=> OnWay(f)
    BY DEF OnWay
  <1>3. InLine' /\ StartsBegin'
    BY <1>1 DEF InLine, StartsBegin, TurnTypeOK
  <1>4. server[turn + 1] = "off"
    BY <1>1 DEF Unsent, UnsentOf
  <1>5. Unsent'
    BY <1>1, <1>2, <1>4 DEF Unsent, UnsentOf, Turn
  <1> QED BY <1>3, <1>5

LEMMA ReceiveFlow ==
  ASSUME IInv, FlowInv, Receive
  PROVE  FlowInv' /\ \A f : OnWay(f)' <=> OnWay(f)
  <1> USE DEF IInv, FlowInv, Receive, turnVars
  <1>1. /\ 1 \in DOMAIN net /\ frame' = net[1]
        /\ \A i \in DOMAIN net' :
             i \in Nat \ {0} /\ i + 1 \in DOMAIN net /\ net'[i] = net[i + 1]
    BY TailFacts DEF TurnTypeOK
  <1>2. \A i \in DOMAIN net : i = 1 \/ (i - 1 \in DOMAIN net' /\ net'[i - 1] = net[i])
    <2>1. net \in Seq(Frame) /\ net # <<>> /\ net' = Tail(net)
      BY DEF TurnTypeOK
    <2> QED BY <2>1
  <1>3. \A f : OnWay(f)' <=> OnWay(f)
    <2>1. ASSUME NEW f, OnWay(f) PROVE OnWay(f)'
      <3>1. PICK i \in DOMAIN net : net[i] = f
        BY <2>1 DEF OnWay
      <3> QED BY <1>1, <1>2, <3>1 DEF OnWay
    <2>2. ASSUME NEW f, OnWay(f)' PROVE OnWay(f)
      BY <1>1, <2>2 DEF OnWay
    <2> QED BY <2>1, <2>2
  <1>4. InLine'
    BY <1>1 DEF InLine
  <1>5. Unsent'
    BY <1>3 DEF Unsent, UnsentOf
  <1>6. StartsBegin'
    BY DEF StartsBegin
  <1> QED BY <1>3, <1>4, <1>5, <1>6

\* The start that begins a session is of the running turn, and there is no other.
LEMMA BeginFlow ==
  ASSUME IInv, OrdInv, FlowInv, BeginSession
  PROVE  FlowInv' /\ frame = StartOf(turn) /\ turn \in Turn /\ owner # turn /\ owner' = turn
  <1> USE DEF IInv, FlowInv, BeginSession, Handle, turnVars, netVars
  <1>1. frame = StartOf(turn) /\ turn \in Turn
    <2>1. frame.kind = "start" /\ frame.turn = turn
      BY DEF StartsBegin, OrdInv, Current
    <2>2. frame \in Frame
      BY <2>1 DEF TurnTypeOK, NoFrame
    <2> QED BY <2>1, <2>2 DEF Frame, StartOf
  <1>2. OnWay(StartOf(turn)) /\ owner # turn
    BY <1>1 DEF OnWay, Unsent, UnsentOf
  <1>3. \A i \in DOMAIN net : net[i] # StartOf(turn)
    BY <1>1 DEF InLine, Precedes, StartOf
  <1>4. \A f : OnWay(f)' => OnWay(f) /\ f # StartOf(turn)
    BY <1>3 DEF OnWay
  <1>5. owner' = turn
    BY <1>1 DEF StartOf
  <1>6. InLine' /\ StartsBegin'
    BY <1>5 DEF InLine, StartsBegin, TurnTypeOK
  <1>7. Unsent'
    <2>1. server[turn] \notin {"off", "working"}
      BY <1>1, <1>2 DEF Unsent, UnsentOf, StartOf, Frame
    <2>2. \A t \in Turn : t # turn => StartOf(t) # StartOf(turn)
      BY DEF StartOf
    <2> QED BY <1>1, <1>4, <1>5, <2>1, <2>2 DEF Unsent, UnsentOf
  <1> QED BY <1>1, <1>2, <1>5, <1>6, <1>7

\* A frame the server sends comes last.
LEMMA SendFlow ==
  ASSUME IInv, FlowInv, NEW t \in Turn,
         ServerStarts(t) \/ ServerChunk(t) \/ ServerEnds(t)
  PROVE  FlowInv'
  <1> USE DEF IInv, FlowInv, Serve, turnVars, wsVars
  <1>1. PICK f \in Frame :
          /\ net' = Append(net, f) /\ f.turn = t
          /\ f.kind = "start" => server[t] = "working"
          /\ f.kind # "start" => server[t] = "streaming"
          /\ f.kind = "end" => server'[t] = "stored" /\ sent'[t] = NChunks
    <2>1. CASE ServerStarts(t)
      BY <2>1 DEF ServerStarts, Send, Frame
    <2>2. CASE ServerChunk(t)
      <3>1. sent[t] + 1 \in 1 .. NChunks
        <4>1. sent[t] \in 0 .. NChunks /\ sent[t] < NChunks
          BY <2>2 DEF ServerChunk, TurnTypeOK
        <4> QED BY <4>1, StreamAssumption DEF StreamAssumption
      <3>2. [kind |-> "chunk", turn |-> t, seq |-> sent[t] + 1] \in Frame
        BY <3>1 DEF Frame
      <3> QED BY <2>2, <3>2 DEF ServerChunk, Send
    <2>3. CASE ServerEnds(t)
      BY <2>3 DEF ServerEnds, Send, Frame, TurnTypeOK
    <2> QED BY <2>1, <2>2, <2>3
  <1>2. /\ server[t] \in {"working", "streaming"} /\ server'[t] \in {"streaming", "stored"}
        /\ \A u \in Turn : u # t => server'[u] = server[u] /\ sent'[u] = sent[u]
        /\ UNCHANGED <<wsVars, turn>>
    BY DEF ServerStarts, ServerChunk, ServerEnds, TurnTypeOK
  <1>3. /\ \A i \in DOMAIN net' :
             \/ i \in DOMAIN net /\ net'[i] = net[i]
             \/ i = Len(net) + 1 /\ net'[i] = f
        /\ \A i \in DOMAIN net : i \in Nat /\ i <= Len(net) /\ net[i] \in Frame
    BY <1>1, AppendFacts, DomainFacts DEF TurnTypeOK
  <1>4. \A g : OnWay(g)' => OnWay(g) \/ g = f
    BY <1>2, <1>3 DEF OnWay
  <1>5. \A g \in Frame : OnWay(g) => Precedes(g, f)
    <2>1. SUFFICES ASSUME NEW g \in Frame, OnWay(g), g.turn = t
                   PROVE  g.kind # "end" /\ f.kind # "start"
      BY <1>1 DEF Precedes
    <2>2. f.kind # "start"
      BY <1>1, <2>1 DEF Unsent, UnsentOf
    <2>3. g.kind = "end" => g = EndOf(t)
      BY <2>1 DEF Frame, EndOf
    <2> QED BY <1>1, <2>1, <2>2, <2>3 DEF Unsent, UnsentOf
  <1>6. InLine'
    <2>1. ws # "idle" => frame \in Frame \/ frame = NoFrame
      BY DEF TurnTypeOK
    <2>2. ws # "idle" => Precedes(frame, f)
      <3>1. frame = NoFrame => Precedes(frame, f)
        BY <1>1 DEF NoFrame, Precedes, Turn
      <3> QED BY <1>5, <2>1, <3>1 DEF OnWay
    <2>3. \A i \in DOMAIN net : Precedes(net[i], f)
      BY <1>3, <1>5 DEF OnWay
    <2>4. \A i, j \in DOMAIN net' : i < j => i \in DOMAIN net /\ net'[i] = net[i]
      BY <1>3 DEF TurnTypeOK
    <2>5. \A i, j \in DOMAIN net' : i < j => Precedes(net'[i], net'[j])
      BY <1>3, <2>3, <2>4 DEF InLine
    <2> QED BY <1>2, <1>3, <2>2, <2>5 DEF InLine
  <1>7. Unsent'
    <2> SUFFICES ASSUME NEW u \in Turn PROVE UnsentOf(u)'
      BY DEF Unsent
    <2>1. CASE u = t
      <3>1. t <= turn
        BY <1>2 DEF Unsent, UnsentOf, TurnTypeOK, Turn
      <3>2. OnWay(StartOf(t))' => owner # t
        BY <1>1, <1>2, <1>4 DEF Unsent, UnsentOf, StartOf
      <3>3. OnWay(EndOf(t))' => server'[t] = "stored" /\ sent'[t] = NChunks
        BY <1>1, <1>2, <1>4 DEF Unsent, UnsentOf, EndOf
      <3> QED BY <1>2, <2>1, <3>1, <3>2, <3>3 DEF UnsentOf, TurnTypeOK, Turn
    <2>2. CASE u # t
      <3>1. \A g : g.turn = u /\ OnWay(g)' => OnWay(g)
        BY <1>1, <1>4, <2>2
      <3>2. StartOf(u).turn = u /\ EndOf(u).turn = u
        BY DEF StartOf, EndOf
      <3> QED BY <1>2, <2>2, <3>1, <3>2 DEF Unsent, UnsentOf
    <2> QED BY <2>1, <2>2
  <1>8. StartsBegin'
    BY <1>2 DEF StartsBegin
  <1> QED BY <1>6, <1>7, <1>8

LEMMA InitFlow == Init => FlowInv
  <1> SUFFICES ASSUME Init PROVE FlowInv
    OBVIOUS
  <1>1. DOMAIN net = {} /\ ws = "idle"
    BY EmptyDomain DEF Init
  <1>2. \A f : ~OnWay(f)
    BY <1>1 DEF OnWay
  <1> QED BY <1>1, <1>2 DEF Init, FlowInv, InLine, Unsent, UnsentOf, StartsBegin, Turn

LEMMA StepFlow == IInv /\ OrdInv /\ FlowInv /\ [Next]_vars => FlowInv'
  <1> SUFFICES ASSUME IInv, OrdInv, FlowInv, [Next]_vars PROVE FlowInv'
    OBVIOUS
  <1>1. CASE UNCHANGED vars \/ AudioStep \/ WriterLost \/ Disconnect \/ Panic
    BY <1>1, RestCalm, CalmFlow DEF IInv
  <1>2. CASE Rest
    BY <1>1, <1>2 DEF Rest
  <1>3. CASE StartTurn
    BY <1>3, StartTurnFlow
  <1>4. CASE MainStep
    BY <1>4, MainCalm, CalmFlow
  <1>5. CASE WsStep
    BY <1>5, ReceiveFlow, BeginFlow, WsCalm, CalmFlow
  <1>6. CASE ServerStep
    BY <1>6, SendFlow, RestCalm, CalmFlow DEF ServerStep, IInv
  <1> QED BY <1>1, <1>2, <1>3, <1>4, <1>5, <1>6 DEF Next

\* The ws task ends a session only for the start of the running turn, and that
\* session is then of an earlier one.
LEMMA WsEndsForeign ==
  ASSUME IInv, OrdInv, FlowInv, ws \in {"resetting", "begin"} \/ (ws = "matched" /\ frame.kind = "start")
  PROVE  owner # turn
  <1> USE DEF IInv, FlowInv
  <1>1. frame.kind = "start" /\ frame.turn = turn
    BY DEF StartsBegin, OrdInv, Current
  <1>2. frame = StartOf(turn) /\ turn \in Turn
    BY <1>1 DEF TurnTypeOK, NoFrame, Frame, StartOf
  <1> QED BY <1>2 DEF OnWay, Unsent, UnsentOf

\* THEOREM.  main and the ws task are never inside stream_end together over a stream
\* of the turn under way: only over one that an earlier turn has left behind.
THEOREM OneEnder == Spec => []OneEnderPerSession
  <1>1. IInv /\ OrdInv /\ FlowInv => OneEnderPerSession
    BY WsEndsForeign DEF IInv, Control, EndersKnown, OneEnderPerSession
  <1>2. Init => IInv /\ OrdInv /\ FlowInv
    BY InitOK, InitOrder, InitFlow
  <1>3. IInv /\ OrdInv /\ FlowInv /\ [Next]_vars => (IInv /\ OrdInv /\ FlowInv)'
    BY StepOK, StepOrder, StepFlow
  <1> QED BY <1>1, <1>2, <1>3, PTL DEF Spec

-----------------------------------------------------------------------------
(* The gate and the end of the stream.                                      *)

Armed == {"clear", "ack", "ackplay", "check", "activate", "actfail", "actend", "wait", "unexpect"}

\* From arming to clearing the gate expects this turn; before it the session is an
\* older one; main gets to the end of a stream only after activating one; and turns
\* to come have no outcome.
ArmInv ==
  /\ main \in Armed => expect = turn
  /\ main = "expect" => owner # turn
  /\ main \in {"end", "okend"} => activated
  /\ \A t \in Turn : t > turn => outcome[t] = "open"

\* main has been told of this turn's tts_end, or is about to find it.
Signalled ==
  \/ main \in Armed \ {"clear", "unexpect"} /\ ttsEnd
  \/ main = "unexpect" /\ got
  \/ main \in {"late", "lateactivate", "end", "okend"}

\* Then the reply went out whole and nothing of it is on its way any more.
SignalInv ==
  Signalled => /\ server[turn] = "stored" /\ sent[turn] = NChunks
               /\ \A f \in Frame : OnWay(f) => f.turn # turn

LEMMA InitArm == Init => ArmInv /\ SignalInv
  BY DEF Init, ArmInv, SignalInv, Signalled, Armed

LEMMA StepArm == IInv /\ OrdInv /\ FlowInv /\ ArmInv /\ [Next]_vars => ArmInv'
  <1> SUFFICES ASSUME IInv, OrdInv, FlowInv, ArmInv, [Next]_vars PROVE ArmInv'
    OBVIOUS
  <1> USE DEF ArmInv, Armed
  <1>1. CASE UNCHANGED vars \/ AudioStep \/ WriterLost \/ Disconnect \/ ServerStep
    BY <1>1 DEF vars, AudioStep, WriterLost, Disconnect, ServerStep, ServerStarts, ServerChunk, ServerEnds, ServerStores,
       Serve, turnVars, gateVars, wsVars
  <1>2. CASE StartTurn
    BY <1>2 DEF StartTurn, wsVars, FlowInv, StartsBegin, IInv, TurnTypeOK, Turn
  <1>3. CASE Panic
    BY <1>3 DEF Panic, IInv, TurnTypeOK, Turn
  <1>4. CASE MainStep
    <2> USE DEF Go, Jump, Return, CloseGate, turnVars, gateVars, wsVars, IInv, TurnTypeOK, Turn
    <2>1. CASE Expect \/ ClearEnd \/ AckFails \/ Fallback \/ Unexpect \/ WaitGets \/ WaitTimesOut
      BY <2>1 DEF Expect, ClearEnd, AckFails, Fallback, Unexpect, WaitGets, WaitTimesOut, WaitEnds
    <2>2. CASE \/ AckOpens \/ AckDone \/ ReplyOpens \/ AckFailEnds \/ ActFailEnds \/ EndDrains \/ FallbackEnds
      BY <2>2 DEF AckOpens, AckDone, ReplyOpens, AckFailEnds, ActFailEnds, EndDrains, FallbackEnds
    <2>3. CASE AckFailSkips \/ AckFailEnded \/ EndRefused \/ EndReturns \/ GetFails \/ ReplyFails \/ ReplyPlayed
      <3>1. PICK how : main' = "idle" /\ outcome' = [outcome EXCEPT ![turn] = how] /\ turn' = turn
        BY <2>3 DEF AckFailSkips, AckFailEnded, EndRefused, EndReturns, GetFails, ReplyFails, ReplyPlayed
      <3> QED BY <3>1
    <2>4. CASE \/ CheckFinds \/ CheckMisses \/ ActivateFails \/ ActFailSkips \/ ActFailEnded \/ LateFinds
               \/ LateMisses \/ LateActivateFails \/ FallbackSkips \/ FallbackEnded \/ GetAnswers
      BY <2>4 DEF CheckFinds, CheckMisses, ActivateFails, ActFailSkips, ActFailEnded, LateFinds, LateMisses,
         LateActivateFails, FallbackSkips, FallbackEnded, GetAnswers
    <2>5. CASE ActivateNow \/ LateActivates
      BY <2>5 DEF ActivateNow, LateActivates, ActivateFrom
    <2> QED BY <1>4, <2>1, <2>2, <2>3, <2>4, <2>5 DEF MainStep
  <1>5. CASE WsStep
    <2>1. UNCHANGED <<main, turnVars, expect>>
      BY <1>5 DEF WsStep, Receive, GatePasses, GateDrops, StartResets, ResetDone, StartFresh, BeginSession,
         BeginFails, ChunkDropped, ChunkAccepted, ChunkSent, ChunkBlocks, ChunkShort, ChunkLost, Sent, EndSignals, WsOnly, gateVars
    <2>2. main = "expect" => UNCHANGED owner
      BY <1>5 DEF WsStep, Receive, GatePasses, GateDrops, StartResets, ResetDone, StartFresh, BeginSession,
         BeginFails, ChunkDropped, ChunkAccepted, ChunkSent, ChunkBlocks, ChunkShort, ChunkLost, Sent, EndSignals, WsOnly, Handle,
         IInv, Control, GateClosed
    <2> QED BY <2>1, <2>2 DEF turnVars
  <1> QED BY <1>1, <1>2, <1>3, <1>4, <1>5 DEF Next, Rest

\* Nothing but the handling of tts_end signals it ...
LEMMA SignalledMain ==
  ASSUME MainStep, Signalled' PROVE Signalled
  <1> USE DEF Signalled, Armed, Go, Jump, Return, CloseGate, turnVars, gateVars
  <1>1. CASE Expect \/ ClearEnd \/ AckFails \/ Fallback \/ Unexpect \/ WaitGets \/ WaitTimesOut
    BY <1>1 DEF Expect, ClearEnd, AckFails, Fallback, Unexpect, WaitGets, WaitTimesOut, WaitEnds
  <1>2. CASE \/ AckOpens \/ AckDone \/ ReplyOpens \/ AckFailEnds \/ ActFailEnds \/ EndDrains \/ FallbackEnds
    BY <1>2 DEF AckOpens, AckDone, ReplyOpens, AckFailEnds, ActFailEnds, EndDrains, FallbackEnds
  <1>3. CASE AckFailSkips \/ AckFailEnded \/ EndRefused \/ EndReturns \/ GetFails \/ ReplyFails \/ ReplyPlayed
    BY <1>3 DEF AckFailSkips, AckFailEnded, EndRefused, EndReturns, GetFails, ReplyFails, ReplyPlayed
  <1>4. CASE \/ CheckFinds \/ CheckMisses \/ ActivateFails \/ ActFailSkips \/ ActFailEnded \/ LateFinds
             \/ LateMisses \/ LateActivateFails \/ FallbackSkips \/ FallbackEnded \/ GetAnswers
    BY <1>4 DEF CheckFinds, CheckMisses, ActivateFails, ActFailSkips, ActFailEnded, LateFinds, LateMisses,
       LateActivateFails, FallbackSkips, FallbackEnded, GetAnswers
  <1>5. CASE ActivateNow \/ LateActivates
    BY <1>5 DEF ActivateNow, LateActivates, ActivateFrom
  <1> QED BY <1>1, <1>2, <1>3, <1>4, <1>5 DEF MainStep

\* ... and it is the last frame of its reply.
LEMMA EndSignalsDone ==
  ASSUME IInv, OrdInv, FlowInv, EndSignals PROVE SignalInv'
  <1> USE DEF IInv, FlowInv, EndSignals, Handle, turnVars, netVars
  <1>1. frame.kind = "end" /\ frame.turn = turn
    BY DEF OrdInv, Current
  <1>2. frame = EndOf(turn) /\ turn \in Turn
    BY <1>1 DEF TurnTypeOK, NoFrame, Frame, EndOf
  <1>3. server[turn] = "stored" /\ sent[turn] = NChunks
    BY <1>2 DEF OnWay, Unsent, UnsentOf
  <1>4. \A i \in DOMAIN net : net[i].turn # turn
    BY <1>1 DEF InLine, Precedes
  <1> QED BY <1>3, <1>4 DEF SignalInv, OnWay

LEMMA StepSignal == IInv /\ OrdInv /\ FlowInv /\ SignalInv /\ [Next]_vars => SignalInv'
  <1> SUFFICES ASSUME IInv, OrdInv, FlowInv, SignalInv, [Next]_vars PROVE SignalInv'
    OBVIOUS
  <1>0. Signalled => turn \in Turn
    BY DEF Signalled, Armed, IInv, TurnKnown, TurnTypeOK, Turn
  <1>1. ASSUME Calm, Signalled' => Signalled PROVE SignalInv'
    BY <1>0, <1>1, CalmFrames DEF SignalInv, Calm
  <1>2. CASE \/ UNCHANGED vars \/ AudioStep \/ WriterLost \/ Disconnect
             \/ \E t \in Turn : ServerStores(t)
    <2>1. Calm
      BY <1>2, RestCalm DEF IInv
    <2>2. Signalled' => Signalled
      BY <1>2 DEF vars, AudioStep, WriterLost, Disconnect, ServerStores, Serve, turnVars, gateVars,
         Signalled
    <2> QED BY <1>1, <2>1, <2>2
  <1>3. CASE StartTurn \/ Panic
    BY <1>3 DEF StartTurn, Panic, SignalInv, Signalled, Armed
  <1>4. CASE MainStep
    BY <1>1, <1>4, MainCalm, SignalledMain
  <1>5. CASE WsStep
    <2>1. EndSignals \/ UNCHANGED <<main, ttsEnd, got, turn>>
      BY <1>5 DEF WsStep, Receive, GatePasses, GateDrops, StartResets, ResetDone, StartFresh, BeginSession,
         BeginFails, ChunkDropped, ChunkAccepted, ChunkSent, ChunkBlocks, ChunkShort, ChunkLost, Sent, WsOnly, turnVars, gateVars
    <2>2. CASE EndSignals
      BY <2>2, EndSignalsDone
    <2>3. CASE UNCHANGED <<main, ttsEnd, got, turn>>
      <3>1. Signalled' => Signalled
        BY <2>3 DEF Signalled
      <3>2. CASE Receive
        BY <2>3, <3>1, <3>2, ReceiveFlow DEF Receive, SignalInv
      <3>3. CASE BeginSession
        BY <2>3, <3>1, <3>3 DEF BeginSession, Handle, netVars, SignalInv, OnWay
      <3>4. CASE ~Receive /\ ~BeginSession
        BY <1>1, <1>5, <3>1, <3>4, WsCalm
      <3> QED BY <3>2, <3>3, <3>4
    <2> QED BY <2>1, <2>2, <2>3
  <1>6. ASSUME NEW t \in Turn, ServerStarts(t) \/ ServerChunk(t) \/ ServerEnds(t) PROVE SignalInv'
    <2> SUFFICES ASSUME Signalled'
                 PROVE  /\ server'[turn] = "stored" /\ sent'[turn] = NChunks
                        /\ \A f \in Frame : OnWay(f)' => f.turn # turn
      BY <1>6 DEF SignalInv, ServerStarts, ServerChunk, ServerEnds, Serve, turnVars
    <2>1. UNCHANGED <<main, turnVars, gateVars, ws, frame>> /\ server[t] \in {"working", "streaming"}
      BY <1>6 DEF ServerStarts, ServerChunk, ServerEnds, Serve, wsVars
    <2>2. Signalled /\ turn # t
      BY <2>1 DEF Signalled, SignalInv, turnVars, gateVars
    <2>3. server'[turn] = "stored" /\ sent'[turn] = NChunks
      BY <1>0, <1>6, <2>2 DEF SignalInv, ServerStarts, ServerChunk, ServerEnds, Serve, IInv, TurnTypeOK
    <2>4. PICK f : net' = Append(net, f) /\ f.turn = t
      BY <1>6 DEF ServerStarts, ServerChunk, ServerEnds, Send
    <2>5. \A i \in DOMAIN net' : (i \in DOMAIN net /\ net'[i] = net[i]) \/ net'[i].turn = t
      BY <2>4 DEF IInv, TurnTypeOK
    <2> QED BY <2>1, <2>2, <2>3, <2>5 DEF SignalInv, OnWay
  <1> QED BY <1>2, <1>3, <1>4, <1>5, <1>6 DEF Next, Rest, ServerStep

-----------------------------------------------------------------------------
(* The session that main has activated for its own turn, from the           *)
(* activation to the end of its drain.                                      *)

Own == activated /\ turn \notin foreign \cup silent

\* Nobody has asked the session of this turn to stop before main does.
FreshSession ==
  owner = turn /\ turn \notin silent /\ active /\ ending["main"] \in {"no", "free"} =>
    ~stop /\ ~drained
Playing ==
  main \in {"wait", "unexpect", "end"} /\ Own =>
    /\ owner = turn /\ active /\ draining /\ ~stop /\ ~drained /\ writer # "none"

\* What the writer still has to play: less than the drain allows.
Load == Len(ring) + (IF writer = "write" THEN 1 ELSE 0)
Draining ==
  main = "okend" /\ Own =>
    /\ owner = turn
    /\ ending["main"] = "drain" =>
         /\ stop
         /\ writer # "none" => left["main"] > Load /\ ~drained
         /\ writer = "none" => drained /\ ring = <<>>
    /\ ending["main"] # "drain" => writer = "none"

SessionInv ==
  Len(ring) <= RingCap /\ FreshSession /\ Playing /\ Draining /\ LongDrainSuffices

TurnInv == IInv /\ OrdInv /\ FlowInv /\ ArmInv /\ SignalInv

\* While the session under way is another's, only the writer and the ring matter.
LEMMA OtherSession ==
  ASSUME IInv, SessionInv, owner # turn
  PROVE  (main \in {"wait", "unexpect", "end", "okend"} => ~Own)
  BY DEF SessionInv, Playing, Draining

\* Where audio_out and main's locals do not move, nothing is to be shown.
LEMMA SessionStays ==
  ASSUME SessionInv,
         UNCHANGED <<streamVars, owner, turn, activated, foreign, silent, outcome>>,
         main' = main \/ main' \notin {"wait", "unexpect", "end", "okend", "idle"}
  PROVE  SessionInv'
  BY DEF SessionInv, FreshSession, Playing, Own, Draining, Load, LongDrainSuffices, streamVars

LEMMA InitSession == Init => SessionInv
  BY StreamAssumption DEF StreamAssumption, Init, StreamInit, SessionInv, FreshSession, Playing, Draining,
     LongDrainSuffices

\* main's steps.
LEMMA MainSession ==
  ASSUME TurnInv, SessionInv, MainStep PROVE SessionInv'
  <1> USE DEF TurnInv
  <1>0. UNCHANGED <<wsVars, netVars, turn>>
    BY MainCalm
  <1>1. CASE \/ Expect \/ ClearEnd \/ AckFails \/ Fallback \/ CheckFinds \/ ActivateFails \/ LateFinds
             \/ LateMisses \/ LateActivateFails \/ FallbackSkips \/ FallbackEnded \/ GetAnswers
    BY <1>1, SessionStays DEF Expect, ClearEnd, AckFails, Fallback, CheckFinds, ActivateFails, LateFinds,
       LateMisses, LateActivateFails, FallbackSkips, FallbackEnded, GetAnswers, Jump, Go, CloseGate, turnVars,
       wsVars
  \* The reply's sound, and the acknowledgement's.
  <1>2. CASE AckOpens \/ AckDone \/ ReplyOpens
    <2>1. /\ UNCHANGED <<turnVars, owner, active, stop, drained, ring, ending>>
          /\ main' \in {"ackplay", "check", "wavplay"}
      BY <1>0, <1>2 DEF AckOpens, AckDone, ReplyOpens, WavTakesI2s, WavReleasesI2s, Go, wsVars
    <2>2. FreshSession'
      BY <2>1 DEF turnVars, SessionInv, FreshSession
    <2>3. Playing' /\ Draining' /\ LongDrainSuffices'
      BY <2>1 DEF Playing, Draining, LongDrainSuffices
    <2> QED BY <2>1, <2>2, <2>3 DEF SessionInv
  \* A wait entered without an activation, or passed.
  <1>3. CASE CheckMisses \/ ActFailSkips \/ ActFailEnded
    <2>1. ~activated' /\ main' = "wait" /\ UNCHANGED <<streamVars, turn, silent>>
      BY <1>3 DEF CheckMisses, ActFailSkips, ActFailEnded, Jump, Go, turnVars, IInv, Control, NotYetActivated
    <2> QED BY <1>0, <2>1 DEF SessionInv, FreshSession, Playing, Own, Draining, LongDrainSuffices, streamVars,
               wsVars
  <1>4. CASE WaitGets \/ WaitTimesOut \/ Unexpect
    <2>1. UNCHANGED <<streamVars, turn, activated, foreign, silent>> /\ main \in {"wait", "unexpect"}
      BY <1>4 DEF WaitGets, WaitTimesOut, WaitEnds, Unexpect, turnVars
    <2>2. main' \notin {"okend", "idle"}
      BY <1>4 DEF WaitGets, WaitTimesOut, WaitEnds, Unexpect
    <2> QED BY <1>0, <2>1, <2>2 DEF SessionInv, FreshSession, Playing, Own, Draining, LongDrainSuffices,
               streamVars, wsVars
  <1>5. CASE ActivateNow \/ LateActivates
    <2>1. /\ Activate /\ main \in {"activate", "lateactivate"} /\ main' \in {"wait", "end"}
          /\ owner # turn => turn \in foreign'
      BY <1>5 DEF ActivateNow, LateActivates, ActivateFrom
    <2>2. ending["main"] = "no"
      BY <2>1 DEF IInv, Control, EndersKnown
    <2>3. Own' => owner = turn /\ turn \notin silent
      BY <1>0, <1>5, <2>1 DEF Own, ActivateNow, LateActivates, ActivateFrom
    <2>4. Own' => ~stop /\ ~drained
      BY <2>1, <2>2, <2>3 DEF SessionInv, FreshSession, Activate, CanActivate
    <2>5. /\ UNCHANGED <<active, stop, drained, ring, ending, owner, turn, silent>>
          /\ active /\ draining' /\ writer' # "none"
      BY <1>0, <1>5, <2>1 DEF Activate, CanActivate, wsVars, ActivateNow, LateActivates, ActivateFrom
    <2> QED BY <2>1, <2>2, <2>3, <2>4, <2>5 DEF SessionInv, FreshSession, Playing, Draining,
               LongDrainSuffices
  \* stream_end begins.
  <1>6. CASE AckFailEnds \/ ActFailEnds \/ FallbackEnds \/ EndDrains
    <2>1. PICK budget \in Nat : /\ EndEnter("main", budget)
                                /\ EndDrains => budget = LongDrain
                                /\ main' \in {"ackend", "actend", "fbend", "okend"}
                                /\ main' = "okend" => EndDrains
      BY <1>6, StreamAssumption DEF StreamAssumption, AckFailEnds, ActFailEnds, FallbackEnds, EndDrains, Go
    <2>2. ending'["main"] = (IF draining THEN "drain" ELSE "unpublish") /\ left'["main"] = budget
      BY <2>1 DEF EndEnter, Caller, IInv, StreamOK, StreamTypeOK
    <2>3. UNCHANGED <<activated, foreign, silent, ring, drained, writer, draining>>
      BY <1>6, <2>1 DEF AckFailEnds, ActFailEnds, FallbackEnds, EndDrains, Go, turnVars, EndEnter
    <2>4. EndDrains /\ Own => /\ owner = turn /\ draining /\ writer # "none" /\ ~drained
      BY DEF EndDrains, Go, SessionInv, Playing
    <2>5. Draining'
      <3>1. SUFFICES ASSUME EndDrains, Own
                     PROVE  owner' = turn' /\ ending'["main"] = "drain" /\ writer' # "none"
                            /\ left'["main"] > Load' /\ ~drained' /\ stop'
        BY <2>1, <2>3, <1>0 DEF Draining, Own
      <3>2. Load' \in Nat /\ Load' <= RingCap + 1
        BY <2>3, StreamAssumption DEF StreamAssumption, Load, SessionInv, IInv, StreamOK, StreamTypeOK
      <3>3. left'["main"] > RingCap + 1
        BY <2>1, <2>2, <3>1, StreamAssumption DEF StreamAssumption
      <3>4. left'["main"] > Load'
        BY <2>2, <3>2, <3>3, StreamAssumption DEF StreamAssumption
      <3> QED BY <1>0, <2>1, <2>2, <2>3, <2>4, <3>1, <3>4 DEF wsVars, EndEnter
    <2>6. FreshSession' /\ Playing' /\ LongDrainSuffices' /\ Len(ring') <= RingCap
      BY <2>1, <2>2, <2>3 DEF FreshSession, Playing, LongDrainSuffices, SessionInv
    <2> QED BY <2>5, <2>6 DEF SessionInv
  \* The turn returns.
  <1>7. CASE AckFailSkips \/ AckFailEnded \/ GetFails \/ ReplyFails \/ ReplyPlayed \/ EndRefused \/ EndReturns
    <2>1. PICK how \in {"error", "wav", "stream"} :
            /\ main' = "idle" /\ outcome' = [outcome EXCEPT ![turn] = how] /\ turn \in Turn
            /\ UNCHANGED <<activated, foreign, silent, active, draining, stop, ring, drained, writer, ending>>
            /\ how = "stream" => EndRefused \/ EndReturns
      BY <1>7 DEF AckFailSkips, AckFailEnded, GetFails, ReplyFails, ReplyPlayed, EndRefused, EndReturns,
         Return, WavReleasesI2s, streamVars, IInv, TurnKnown, TurnTypeOK, Turn
    <2>2. outcome'[turn] = how
      BY <2>1 DEF IInv, TurnTypeOK
    <2>3. EndRefused \/ EndReturns => writer = "none" \/ turn \in foreign \cup silent
      BY DEF EndRefused, EndReturns, Return, ArmInv, SessionInv, Playing, Draining, Own
    <2>4. LongDrainSuffices'
      BY <1>0, <2>1, <2>2, <2>3 DEF LongDrainSuffices
    <2> QED BY <1>0, <2>1, <2>4 DEF SessionInv, FreshSession, Playing, Draining, wsVars
  <1> QED BY <1>1, <1>2, <1>3, <1>4, <1>5, <1>6, <1>7 DEF MainStep

\* The ws task's steps.  A start of this turn comes over a session of another, and
\* when main drains no chunk is on its way.
LEMMA WsSession ==
  ASSUME TurnInv, SessionInv, WsStep PROVE SessionInv'
  <1> USE DEF TurnInv
  <1>0. UNCHANGED <<main, turnVars>>
    BY DEF WsStep, Receive, GatePasses, GateDrops, StartResets, ResetDone, StartFresh, BeginSession,
       BeginFails, ChunkDropped, ChunkAccepted, ChunkSent, ChunkBlocks, ChunkShort, ChunkLost, Sent, EndSignals, WsOnly
  <1>1. CASE StartResets
    <2>1. owner # turn
      BY <1>1, WsEndsForeign DEF StartResets, Handle
    <2>2. /\ UNCHANGED <<active, draining, ring, drained, writer, owner>> /\ ending'["main"] = ending["main"]
          /\ left'["main"] = left["main"]
      BY <1>1 DEF StartResets, EndEnter, Caller, IInv, StreamOK, StreamTypeOK
    <2> QED BY <1>0, <2>1, <2>2, OtherSession DEF SessionInv, FreshSession, Playing, Own, Draining,
               LongDrainSuffices, turnVars
  <1>2. CASE BeginSession
    <2>1. owner # turn /\ owner' = turn
      BY <1>2, BeginFlow
    <2>2. main \in {"wait", "unexpect", "end", "okend"} => ~Own
      BY <2>1, OtherSession
    <2>3. ~stop' /\ ~drained' /\ ring' = <<>> /\ writer' = writer
      BY <1>2 DEF BeginSession, Begin
    <2> QED BY <1>0, <2>1, <2>2, <2>3, StreamAssumption DEF StreamAssumption, SessionInv, FreshSession,
               Playing, Own, Draining, LongDrainSuffices, turnVars
  <1>3. CASE ChunkSent
    <2>1. main = "okend" => FALSE
      <3>1. ws # "idle" /\ frame \in Frame /\ frame.turn = turn
        BY <1>3 DEF ChunkSent, Sent, Handle, OrdInv, Current, IInv, SendsChunk, Frame
      <3> QED BY <3>1 DEF SignalInv, Signalled, OnWay
    <2>2. /\ UNCHANGED <<active, stop, draining, drained, writer, ending, left, owner>>
          /\ Len(ring') <= RingCap
      BY <1>3, StreamAssumption DEF StreamAssumption, ChunkSent, PushFits, IInv, StreamOK, StreamTypeOK
    <2> QED BY <1>0, <2>1, <2>2 DEF SessionInv, FreshSession, Playing, Own, Draining, LongDrainSuffices, turnVars
  <1>4. ~StartResets /\ ~BeginSession /\ ~ChunkSent => UNCHANGED <<streamVars, owner>>
    BY DEF WsStep, Receive, GatePasses, GateDrops, ResetDone, StartFresh, BeginFails, ChunkDropped,
       ChunkAccepted, ChunkBlocks, ChunkShort, PushTimesOut, ChunkLost, Sent, EndSignals, WsOnly, wsVars
  <1> QED BY <1>0, <1>1, <1>2, <1>3, <1>4, SessionStays DEF turnVars

\* audio_out's own steps.
LEMMA AudioSession ==
  ASSUME TurnInv, SessionInv, AudioStep PROVE SessionInv'
  <1> USE DEF TurnInv
  <1>0. UNCHANGED <<main, turnVars, owner>>
    BY DEF AudioStep, wsVars
  <1>1. /\ ring \in Seq(Chunk) /\ Len(ring) \in Nat /\ left["main"] \in Nat
        /\ ending["main"] # "no" => main \notin {"wait", "unexpect", "end"}
        /\ ending["ws"] # "no" => owner # turn
    BY WsEndsForeign DEF IInv, StreamOK, StreamTypeOK, Caller, Control, EndersKnown
  <1>2. CASE WriterReceives
    <2>1. Len(ring') = Len(ring) - 1 /\ Len(ring) > 0
      BY <1>1, <1>2 DEF WriterReceives
    <2>2. Load' = Load
      BY <1>1, <1>2, <2>1 DEF Load, WriterReceives
    <2> QED BY <1>0, <1>1, <1>2, <2>1, <2>2, StreamAssumption DEF StreamAssumption, WriterReceives, SessionInv,
               FreshSession, Playing, Own, Draining, LongDrainSuffices, turnVars
  <1>3. CASE WriterPlays
    <2>1. Load = Len(ring) + 1 /\ Load' = Len(ring)
      BY <1>3 DEF Load, WriterPlays
    <2>2. left'["main"] = IF left["main"] > 0 THEN left["main"] - 1 ELSE 0
      BY <1>3 DEF WriterPlays, Caller
    <2>3. left["main"] > Load => left'["main"] > Load'
      BY <1>1, <2>1, <2>2
    <2> QED BY <1>0, <1>3, <2>3 DEF WriterPlays, SessionInv, FreshSession, Playing, Own, Draining,
               LongDrainSuffices, turnVars
  <1>4. CASE WriterExits
    BY <1>0, <1>4 DEF WriterExits, WriterMayExit, SessionInv, FreshSession, Playing, Own, Draining,
       LongDrainSuffices, turnVars
  <1>7. CASE WriterRuns
    <2>1. Load' = Load
      BY <1>7 DEF WriterRuns, Load
    <2> QED BY <1>0, <1>7, <2>1 DEF WriterRuns, SessionInv, FreshSession, Playing, Own, Draining,
               LongDrainSuffices, turnVars
  <1>5. ASSUME \/ EndDrained("ws") \/ EndTimesOut("ws") \/ EndReleasesI2s("ws") \/ EndUnpublishes("ws")
               \/ EndFrees("ws")
        PROVE  SessionInv'
    <2>1. owner # turn
      BY <1>1, <1>5 DEF EndDrained, EndTimesOut, EndReleasesI2s, EndUnpublishes, EndFrees
    <2>2. writer' = writer /\ (ring' = ring \/ ring' = <<>>)
      BY <1>5 DEF EndDrained, EndTimesOut, EndReleasesI2s, EndUnpublishes, EndFrees
    <2>3. main \in {"wait", "unexpect", "end", "okend"} => ~Own
      BY <2>1, OtherSession
    <2> QED BY <1>0, <2>1, <2>2, <2>3, StreamAssumption DEF StreamAssumption, SessionInv, FreshSession,
               Playing, Own, Draining, LongDrainSuffices, turnVars
  <1>6. ASSUME \/ EndDrained("main") \/ EndTimesOut("main") \/ EndReleasesI2s("main")
               \/ EndUnpublishes("main") \/ EndFrees("main")
        PROVE  SessionInv'
    <2>1. ending["main"] # "no" /\ main \notin {"wait", "unexpect", "end", "idle"}
      BY <1>6 DEF EndDrained, EndTimesOut, EndReleasesI2s, EndUnpublishes, EndFrees, IInv, Control, EndersKnown
    <2>2. writer' = writer /\ (ring' = ring \/ ring' = <<>>) /\ (stop' = stop)
      BY <1>6 DEF EndDrained, EndTimesOut, EndReleasesI2s, EndUnpublishes, EndFrees
    <2>3. main = "okend" /\ Own => writer = "none" /\ ending'["main"] # "drain"
      BY <1>6, <1>1 DEF EndDrained, EndTimesOut, EndReleasesI2s, EndUnpublishes, EndFrees, SessionInv, Draining,
         Load, IInv, StreamOK, StreamTypeOK, Caller
    <2>4. FreshSession'
      BY <1>0, <1>6, <2>2 DEF EndDrained, EndTimesOut, EndReleasesI2s, EndUnpublishes, EndFrees, SessionInv,
         FreshSession, IInv, StreamOK, StreamTypeOK, Caller, turnVars
    <2> QED BY <1>0, <2>1, <2>2, <2>3, <2>4, StreamAssumption DEF StreamAssumption, SessionInv, Playing, Own,
               Draining, LongDrainSuffices, turnVars
  <1> QED BY <1>2, <1>3, <1>4, <1>5, <1>6, <1>7 DEF AudioStep, StreamStep, Caller

LEMMA StepSession == TurnInv /\ SessionInv /\ [Next]_vars => SessionInv'
  <1> SUFFICES ASSUME TurnInv, SessionInv, [Next]_vars PROVE SessionInv'
    OBVIOUS
  <1>1. CASE UNCHANGED vars \/ Disconnect \/ ServerStep
    <2>1. UNCHANGED <<streamVars, main, turnVars, owner>>
      BY <1>1 DEF vars, Disconnect, ServerStep, ServerStarts, ServerChunk, ServerEnds, ServerStores, Serve, wsVars
    <2> QED BY <2>1, SessionStays DEF turnVars
  <1>2. CASE StartTurn
    <2>1. owner' # turn' /\ main' = "expect" /\ UNCHANGED streamVars
      BY <1>2 DEF StartTurn, wsVars, TurnInv, FlowInv, StartsBegin, IInv, TurnTypeOK
    <2> QED BY <2>1 DEF SessionInv, FreshSession, Playing, Draining, LongDrainSuffices, streamVars
  <1>3. CASE Panic
    BY <1>3, StreamAssumption DEF StreamAssumption, Panic, StreamReset, SessionInv, FreshSession, Playing,
       Draining, LongDrainSuffices
  <1>4. CASE WriterLost
    <2>1. /\ UNCHANGED <<main, turn, activated, foreign, owner, outcome, ring>>
          /\ silent' = silent \cup {turn} /\ writer' = "none"
      BY <1>4 DEF WriterLost, WriterDies, wsVars
    <2> QED BY <2>1 DEF SessionInv, FreshSession, Playing, Own, Draining, LongDrainSuffices
  <1> QED BY <1>1, <1>2, <1>3, <1>4, MainSession, WsSession, AudioSession DEF Next, Rest

LEMMA TurnInductive == Spec => [](TurnInv /\ SessionInv)
  <1>1. Init => TurnInv /\ SessionInv
    BY InitOK, InitOrder, InitFlow, InitArm, InitSession DEF TurnInv
  <1>2. TurnInv /\ SessionInv /\ [Next]_vars => (TurnInv /\ SessionInv)'
    BY StepOK, StepOrder, StepFlow, StepArm, StepSignal, StepSession DEF TurnInv
  <1> QED BY <1>1, <1>2, PTL DEF Spec

\* THEOREM.  When a streamed turn has returned its writer task is gone, whatever the
\* size of the ring, as long as 15 s outlast it: the drain cannot time out.
THEOREM DrainSuffices == Spec => []LongDrainSuffices
  <1>1. SessionInv => LongDrainSuffices
    BY DEF SessionInv
  <1> QED BY <1>1, TurnInductive, PTL

-----------------------------------------------------------------------------
(* The whole reply.                                                         *)

ChunkOf(t, k) == [turn |-> t, seq |-> k]
Kept(t, k) == Held(ChunkOf(t, k)) \/ OnWay(PieceOf(t, k))

\* Behind a start on its way comes all that was sent, as long as more may come or
\* the end is among it.
ComingOf(t) ==
  OnWay(StartOf(t)) /\ (server[t] = "streaming" \/ OnWay(EndOf(t))) =>
    \A k \in 1 .. sent[t] : OnWay(PieceOf(t, k))
Coming == \A t \in Turn : ComingOf(t)

\* A session of this turn that can still end well has, or has yet to get, all
\* that was sent, but for a chunk that found no room.
Listening == main \in Armed \cup {"late", "lateactivate", "end", "okend"}
Live == server[turn] = "streaming" \/ OnWay(EndOf(turn)) \/ Signalled
Taking == Listening /\ owner = turn /\ active /\ alloc /\ turn \notin short /\ Live
Taken == Taking => \A k \in 1 .. sent[turn] : Kept(turn, k)

\* The drain leaves the session standing until it is over, and then all was played.
DrainsOn ==
  main = "okend" /\ Own /\ ending["main"] = "drain" => active /\ (drained => alloc)
Finished ==
  main = "okend" /\ Own /\ ending["main"] # "drain" => WholeReply(turn) \/ turn \in short

WholeInv == Coming /\ Taken /\ DrainsOn /\ Finished /\ AnsweredUnlessCut

\* A piece behind its start is still in the network.
LEMMA BehindStart ==
  ASSUME FlowInv, NEW t, NEW k, OnWay(StartOf(t)), OnWay(PieceOf(t, k))
  PROVE  \E i \in DOMAIN net : net[i] = PieceOf(t, k)
  BY DEF FlowInv, InLine, Precedes, OnWay, StartOf, PieceOf

LEMMA InitWhole == Init => WholeInv
  <1> SUFFICES ASSUME Init PROVE WholeInv
    OBVIOUS
  <1>1. DOMAIN net = {} /\ ws = "idle"
    BY EmptyDomain DEF Init
  <1> QED BY <1>1 DEF Init, WholeInv, Coming, ComingOf, OnWay, Taken, Taking, Listening, Armed, DrainsOn,
             Finished, AnsweredUnlessCut

-----------------------------------------------------------------------------
(* What is coming.                                                          *)

\* A handler that goes on or drops its frame takes nothing from behind a start.
LEMMA ComingStays ==
  ASSUME FlowInv, Coming, net' = net, sent' = sent,
         ws' # "idle" => ws # "idle" /\ frame' = frame,
         \A t \in Turn : server'[t] = "streaming" => server[t] = "streaming"
  PROVE  Coming'
  <1>1. \A f : OnWay(f)' => OnWay(f)
    BY DEF OnWay
  <1>2. \A t, k : OnWay(StartOf(t)) /\ OnWay(PieceOf(t, k)) => OnWay(PieceOf(t, k))'
    BY BehindStart DEF OnWay
  <1> QED BY <1>1, <1>2 DEF Coming, ComingOf

\* When the network is emptied no stream goes on.
LEMMA ComingLost ==
  ASSUME net' = <<>>, ws' # "idle" => frame' = frame, \A t \in Turn : server'[t] # "streaming"
  PROVE  Coming'
  <1>1. DOMAIN net' = {}
    BY EmptyDomain
  <1> QED BY <1>1 DEF Coming, ComingOf, OnWay, StartOf, EndOf

LEMMA StartTurnComing ==
  ASSUME IInv, FlowInv, Coming, StartTurn PROVE Coming'
  <1>1. \A f : OnWay(f)' <=> OnWay(f)
    BY DEF StartTurn, OnWay, wsVars
  <1>2. \A t \in Turn : server'[t] = "streaming" => server[t] = "streaming"
    BY DEF StartTurn, IInv, TurnTypeOK
  <1> QED BY <1>1, <1>2 DEF Coming, ComingOf, StartTurn

\* What a send adds.
LEMMA SendFacts ==
  ASSUME IInv, NEW t \in Turn, ServerStarts(t) \/ ServerChunk(t) \/ ServerEnds(t)
  PROVE  /\ \A f : OnWay(f) => OnWay(f)'
         /\ \A f : OnWay(f)' /\ f.turn # t => OnWay(f)
         /\ OnWay(StartOf(t))' => OnWay(StartOf(t)) \/ ServerStarts(t)
         /\ OnWay(EndOf(t))' => OnWay(EndOf(t)) \/ ServerEnds(t)
         /\ ServerChunk(t) => sent'[t] = sent[t] + 1
         /\ ServerChunk(t) => \A k : k = sent[t] + 1 => OnWay(PieceOf(t, k))'
         /\ ~ServerChunk(t) => sent' = sent
         /\ \A u \in Turn : u # t => sent'[u] = sent[u] /\ server'[u] = server[u]
  <1> USE DEF IInv, Serve, wsVars
  <1>1. PICK f : /\ net' = Append(net, f) /\ f.turn = t
                 /\ f.kind = "start" => ServerStarts(t)
                 /\ f.kind = "end" => ServerEnds(t)
                 /\ ServerChunk(t) => f = PieceOf(t, sent[t] + 1)
    BY DEF ServerStarts, ServerChunk, ServerEnds, Send, PieceOf
  <1>2. UNCHANGED <<ws, frame>>
    BY DEF ServerStarts, ServerChunk, ServerEnds
  <1>3. /\ \A i \in DOMAIN net : i \in DOMAIN net' /\ net'[i] = net[i]
        /\ \A i \in DOMAIN net' : (i \in DOMAIN net /\ net'[i] = net[i]) \/ net'[i] = f
        /\ \E i \in DOMAIN net' : net'[i] = f
    BY <1>1 DEF TurnTypeOK
  <1>4. /\ \A g : OnWay(g) => OnWay(g)'
        /\ \A g : OnWay(g)' => OnWay(g) \/ g = f
        /\ OnWay(f)'
    BY <1>2, <1>3 DEF OnWay
  <1>5. StartOf(t).kind = "start" /\ EndOf(t).kind = "end"
    BY DEF StartOf, EndOf
  <1>6. ServerChunk(t) => sent'[t] = sent[t] + 1
    BY DEF ServerChunk, TurnTypeOK
  <1>7. ~ServerChunk(t) => sent' = sent
    BY DEF ServerStarts, ServerEnds
  <1>8. \A u \in Turn : u # t => sent'[u] = sent[u] /\ server'[u] = server[u]
    BY DEF ServerStarts, ServerChunk, ServerEnds, TurnTypeOK
  <1> QED BY <1>1, <1>4, <1>5, <1>6, <1>7, <1>8

LEMMA SendComing ==
  ASSUME IInv, FlowInv, Coming, NEW t \in Turn, ServerStarts(t) \/ ServerChunk(t) \/ ServerEnds(t)
  PROVE  Coming'
  <1> SUFFICES ASSUME NEW u \in Turn PROVE ComingOf(u)'
    BY DEF Coming
  <1>1. CASE u # t
    <2>1. StartOf(u).turn = u /\ EndOf(u).turn = u
      BY DEF StartOf, EndOf
    <2> QED BY <1>1, <2>1, SendFacts DEF Coming, ComingOf
  <1>2. CASE u = t /\ ServerStarts(t)
    <2>1. sent'[t] = 0
      BY <1>2 DEF ServerStarts, Serve, FlowInv, Unsent, UnsentOf
    <2> QED BY <1>2, <2>1 DEF ComingOf
  <1>3. CASE u = t /\ ServerEnds(t)
    <2>1. server[t] = "streaming" /\ sent' = sent
      BY <1>3 DEF ServerEnds, Serve
    <2>2. ~ServerStarts(t)
      BY <2>1 DEF ServerStarts, Serve
    <2> QED BY <1>3, <2>1, <2>2, SendFacts DEF Coming, ComingOf
  <1>4. CASE u = t /\ ServerChunk(t)
    <2>1. server[t] = "streaming" /\ sent[t] \in Nat
      BY <1>4 DEF ServerChunk, Serve, IInv, TurnTypeOK
    <2>2. ~ServerStarts(t)
      BY <2>1 DEF ServerStarts, Serve
    <2>3. \A k \in 1 .. sent'[t] : k \in 1 .. sent[t] \/ k = sent[t] + 1
      BY <1>4, <2>1, SendFacts
    <2> QED BY <1>4, <2>1, <2>2, <2>3, SendFacts DEF Coming, ComingOf
  <1> QED BY <1>1, <1>2, <1>3, <1>4

LEMMA StepComing == TurnInv /\ Coming /\ [Next]_vars => Coming'
  <1> SUFFICES ASSUME TurnInv, Coming, [Next]_vars PROVE Coming'
    OBVIOUS
  <1> USE DEF TurnInv
  <1>1. CASE UNCHANGED vars \/ AudioStep \/ WriterLost \/ MainStep
    <2>1. UNCHANGED <<wsVars, netVars>>
      BY <1>1, MainCalm DEF vars, AudioStep, WriterLost
    <2> QED BY <2>1, ComingStays DEF wsVars, netVars
  <1>2. CASE WsStep
    <2>1. CASE Receive
      BY <2>1, ReceiveFlow DEF Receive, Coming, ComingOf
    <2>2. CASE ~Receive
      BY <1>2, <2>2, ComingStays DEF WsStep, GatePasses, GateDrops, StartResets, ResetDone, StartFresh,
         BeginSession, BeginFails, ChunkDropped, ChunkAccepted, ChunkSent, ChunkBlocks, ChunkShort, ChunkLost, Sent, EndSignals,
         Handle, netVars
    <2> QED BY <2>1, <2>2
  <1>3. CASE Disconnect \/ Panic
    <2>1. \A t \in Turn : server'[t] # "streaming"
      BY <1>3 DEF Disconnect, Panic, Muted
    <2> QED BY <1>3, <2>1, ComingLost DEF Disconnect, Panic, wsVars
  <1>4. CASE StartTurn
    BY <1>4, StartTurnComing
  <1>5. ASSUME NEW t \in Turn, ServerStores(t) PROVE Coming'
    <2>1. \A u \in Turn : server'[u] = "streaming" => server[u] = "streaming"
      BY <1>5 DEF ServerStores, Serve, IInv, TurnTypeOK
    <2> QED BY <1>5, <2>1, ComingStays DEF ServerStores, Serve, wsVars
  <1> QED BY <1>1, <1>2, <1>3, <1>4, <1>5, SendComing DEF Next, Rest, ServerStep

-----------------------------------------------------------------------------
(* What is taken.                                                           *)

\* A step that neither loses nor adds anything of this turn.
LEMMA TakenStays ==
  ASSUME Taken, Taking' => Taking, turn' = turn, sent' = sent,
         \A k : Taking' /\ Kept(turn, k) => Held(ChunkOf(turn, k))' \/ OnWay(PieceOf(turn, k))'
  PROVE  Taken'
  BY DEF Taken, Kept

\* What audio_out holds changes only where the ring does or the writer moves.
LEMMA HeldStays ==
  ASSUME UNCHANGED <<spoken, ring, hand>>, (writer' = "write") <=> (writer = "write")
  PROVE  \A c : Held(c)' <=> Held(c)
  BY DEF Held
LEMMA OnWayStays ==
  ASSUME UNCHANGED <<ws, frame, net>> PROVE \A f : OnWay(f)' <=> OnWay(f)
  BY DEF OnWay

LEMMA MainTaken ==
  ASSUME TurnInv, Taken, MainStep PROVE Taken'
  <1> USE DEF TurnInv
  <1>1. UNCHANGED <<wsVars, netVars, turn>>
    BY MainCalm
  <1>2. /\ UNCHANGED <<alloc, spoken, ring, hand>>
        /\ (writer' = "write") <=> (writer = "write")
        /\ active' => active
    BY DEF MainStep, Expect, ClearEnd, AckOpens, AckFails, AckDone, AckFailEnds, AckFailSkips,
       AckFailEnded, CheckFinds, CheckMisses, ActivateNow, ActivateFails, ActFailEnds, ActFailSkips,
       ActFailEnded, WaitGets, WaitTimesOut, WaitEnds, Unexpect, LateFinds, LateMisses, LateActivates,
       LateActivateFails, ActivateFrom, Activate, CanActivate, EndEnter, EndDrains, EndRefused, EndReturns,
       Fallback, FallbackEnds, FallbackSkips, FallbackEnded, GetAnswers, GetFails, ReplyOpens, ReplyFails,
       ReplyPlayed, Jump, CloseGate, WavTakesI2s, WavReleasesI2s, streamVars
  <1>3. Listening' => Listening \/ main = "expect"
    <2> USE DEF Listening, Armed, Go, Jump, Return, CloseGate
    <2>1. CASE Expect \/ ClearEnd \/ AckFails \/ Fallback \/ Unexpect \/ WaitGets \/ WaitTimesOut
      BY <2>1 DEF Expect, ClearEnd, AckFails, Fallback, Unexpect, WaitGets, WaitTimesOut, WaitEnds
    <2>2. CASE \/ AckOpens \/ AckDone \/ ReplyOpens \/ AckFailEnds \/ ActFailEnds \/ EndDrains \/ FallbackEnds
      BY <2>2 DEF AckOpens, AckDone, ReplyOpens, AckFailEnds, ActFailEnds, EndDrains, FallbackEnds
    <2>3. CASE AckFailSkips \/ AckFailEnded \/ EndRefused \/ EndReturns \/ GetFails \/ ReplyFails \/ ReplyPlayed
      BY <2>3 DEF AckFailSkips, AckFailEnded, EndRefused, EndReturns, GetFails, ReplyFails, ReplyPlayed
    <2>4. CASE \/ CheckFinds \/ CheckMisses \/ ActivateFails \/ ActFailSkips \/ ActFailEnded \/ LateFinds
               \/ LateMisses \/ LateActivateFails \/ FallbackSkips \/ FallbackEnded \/ GetAnswers
      BY <2>4 DEF CheckFinds, CheckMisses, ActivateFails, ActFailSkips, ActFailEnded, LateFinds, LateMisses,
         LateActivateFails, FallbackSkips, FallbackEnded, GetAnswers
    <2>5. CASE ActivateNow \/ LateActivates
      BY <2>5 DEF ActivateNow, LateActivates, ActivateFrom
    <2> QED BY <2>1, <2>2, <2>3, <2>4, <2>5 DEF MainStep
  <1>4. \A f : OnWay(f)' <=> OnWay(f)
    BY <1>1, OnWayStays DEF wsVars, netVars
  <1>5. Taking' => Taking
    <2>1. OnWay(EndOf(turn))' => OnWay(EndOf(turn))
      BY <1>1, <1>4
    <2>2. Live' => Live
      BY <1>1, <2>1, SignalledMain DEF Live, netVars
    <2> QED BY <1>1, <1>2, <1>3, <2>2 DEF Taking, ArmInv, wsVars
  <1> QED BY <1>1, <1>2, <1>4, <1>5, HeldStays, TakenStays DEF Kept, netVars

\* A start handled by BeginSession has the reply behind it.
LEMMA BeginTaken ==
  ASSUME TurnInv, Coming, BeginSession PROVE Taken'
  <1> USE DEF TurnInv
  <1>1. frame = StartOf(turn) /\ turn \in Turn /\ ws = "begin" /\ OnWay(StartOf(turn))
    BY BeginFlow DEF BeginSession, Handle, OnWay
  <1>2. UNCHANGED <<net, server, sent, main, turn, ttsEnd, got>> /\ ws' = "idle"
    BY DEF BeginSession, Handle, netVars, turnVars, gateVars
  <1>3. ~Signalled
    <2>1. frame \in Frame /\ frame.turn = turn /\ OnWay(frame)
      BY <1>1 DEF StartOf, Frame, OnWay
    <2> QED BY <2>1 DEF SignalInv
  <1>4. \A k : OnWay(PieceOf(turn, k)) => OnWay(PieceOf(turn, k))'
    BY <1>1, <1>2, BehindStart DEF OnWay
  <1>5. Taking' => server[turn] = "streaming" \/ OnWay(EndOf(turn))
    <2>1. OnWay(EndOf(turn))' => OnWay(EndOf(turn))
      BY <1>2 DEF OnWay
    <2> QED BY <1>2, <1>3, <2>1 DEF Taking, Live, Signalled
  <1> QED BY <1>1, <1>2, <1>4, <1>5 DEF Coming, ComingOf, Taken, Kept

LEMMA ChunkSentTaken ==
  ASSUME TurnInv, Taken, ChunkSent PROVE Taken'
  <1> USE DEF TurnInv
  <1>1. /\ UNCHANGED <<net, server, sent, main, turn, got, ttsEnd, owner, active, alloc, short>> /\ ws' = "idle"
        /\ UNCHANGED <<spoken, hand, writer>> /\ ring' = Append(ring, ThisChunk)
    BY DEF ChunkSent, Sent, Handle, PushFits, netVars, turnVars, gateVars
  <1>2. frame.kind = "chunk" /\ ThisChunk \in Chunk
    BY DEF ChunkSent, Sent, Handle, IInv, SendsChunk, ThisChunk, Chunk
  <1>3. /\ \A i \in DOMAIN ring : i \in DOMAIN ring' /\ ring'[i] = ring[i]
        /\ \E i \in DOMAIN ring' : ring'[i] = ThisChunk
    <2>1. ring \in Seq(Chunk)
      BY DEF IInv, StreamOK, StreamTypeOK
    <2>2. DOMAIN ring = 1..Len(ring) /\ Len(ring) \in Nat
      BY <2>1
    <2>3. /\ DOMAIN Append(ring, ThisChunk) = 1..Len(ring) + 1
          /\ \A i \in 1..Len(ring) : Append(ring, ThisChunk)[i] = ring[i]
          /\ Append(ring, ThisChunk)[Len(ring) + 1] = ThisChunk
      BY <1>2, <2>1, <2>2
    <2> QED BY <1>1, <2>2, <2>3
  <1>4. PICK s : s = ThisChunk
    OBVIOUS
  <1>5. \A c : Held(c) \/ c = s => Held(c)'
    BY <1>1, <1>3, <1>4 DEF Held
  <1>6. \A k : frame = PieceOf(turn, k) => s = ChunkOf(turn, k)
    BY <1>4 DEF PieceOf, ThisChunk, ChunkOf
  <1>8. ASSUME NEW k, Kept(turn, k) PROVE Held(ChunkOf(turn, k))' \/ OnWay(PieceOf(turn, k))'
    <2>1. CASE Held(ChunkOf(turn, k))
      <3>1. PICK c : c = ChunkOf(turn, k)
        OBVIOUS
      <3>2. ChunkOf(turn, k)' = c
        BY <1>1, <3>1 DEF ChunkOf
      <3> QED BY <1>5, <2>1, <3>1, <3>2
    <2>2. CASE OnWay(PieceOf(turn, k))
      <3>1. CASE frame = PieceOf(turn, k)
        <4>1. ChunkOf(turn, k)' = s
          BY <1>1, <1>6, <3>1 DEF ChunkOf
        <4> QED BY <1>5, <4>1
      <3> QED BY <1>1, <2>2, <3>1 DEF OnWay
    <2> QED BY <1>8, <2>1, <2>2 DEF Kept
  <1>7. Taking' => Taking
    BY <1>1 DEF Taking, Live, Listening, Signalled, OnWay
  <1> QED BY <1>1, <1>7, <1>8, TakenStays

\* What no other task changes meanwhile.
LEMMA TakingStays ==
  ASSUME UNCHANGED <<main, turn, got, ttsEnd, owner, active, alloc, short, server>>,
         OnWay(EndOf(turn))' => OnWay(EndOf(turn)), Taking'
  PROVE  Taking
  BY DEF Taking, Live, Listening, Signalled

\* While a turn listens the gate drops nothing of it.
LEMMA DropsForeign ==
  ASSUME TurnInv, GateDrops, Listening PROVE frame.turn # turn
  <1>1. turn # 0 /\ ws = "gate" /\ (frame \in Frame \/ frame = NoFrame)
    BY DEF TurnInv, IInv, TurnTypeOK, TurnKnown, GateDrops, Handle, Listening, Armed
  <1>2. CASE main \in Armed
    BY <1>1, <1>2 DEF TurnInv, ArmInv, GateDrops, Matches
  <1>3. CASE main \notin Armed
    <2>1. Signalled
      BY <1>3 DEF Listening, Signalled
    <2>2. frame \in Frame => OnWay(frame)
      BY <1>1 DEF OnWay
    <2> QED BY <1>1, <2>1, <2>2 DEF TurnInv, SignalInv, NoFrame
  <1> QED BY <1>2, <1>3

LEMMA WsTaken ==
  ASSUME TurnInv, Coming, Taken, WsStep PROVE Taken'
  <1> USE DEF TurnInv, Handle, WsOnly, turnVars, gateVars, netVars
  <1>1. CASE Receive
    <2>1. /\ UNCHANGED <<main, turn, got, ttsEnd, owner, active, alloc, short, server, sent>>
          /\ UNCHANGED <<spoken, ring, hand, writer>>
      BY <1>1 DEF Receive, streamVars
    <2>2. \A f : OnWay(f)' <=> OnWay(f)
      BY <1>1, ReceiveFlow
    <2>3. OnWay(EndOf(turn))' => OnWay(EndOf(turn))
      BY <2>1, <2>2
    <2> QED BY <2>1, <2>2, <2>3, HeldStays, TakingStays, TakenStays DEF Kept
  <1>2. CASE GatePasses \/ StartFresh \/ ResetDone \/ ChunkAccepted \/ ChunkBlocks
    <2>1. /\ UNCHANGED <<main, turn, got, ttsEnd, owner, active, alloc, short, server, sent>>
          /\ UNCHANGED <<spoken, ring, hand, writer>>
      BY <1>2 DEF GatePasses, StartFresh, ResetDone, ChunkAccepted, ChunkBlocks, streamVars
    <2>2. UNCHANGED <<net, frame>> /\ ws # "idle" /\ ws' # "idle"
      BY <1>2 DEF GatePasses, StartFresh, ResetDone, ChunkAccepted, ChunkBlocks
    <2>3. \A f : OnWay(f)' <=> OnWay(f)
      BY <2>2 DEF OnWay
    <2>4. OnWay(EndOf(turn))' => OnWay(EndOf(turn))
      BY <2>1, <2>3
    <2> QED BY <2>1, <2>3, <2>4, HeldStays, TakingStays, TakenStays DEF Kept
  <1>3. CASE GateDrops \/ EndSignals
    <2>1. /\ UNCHANGED <<main, turn, got, owner, active, alloc, short, server, sent>>
          /\ UNCHANGED <<spoken, ring, hand, writer>> /\ UNCHANGED net /\ ws' = "idle"
          /\ ws \in {"gate", "matched"}
      BY <1>3 DEF GateDrops, EndSignals, streamVars
    <2>2. Listening' => \A k : frame # PieceOf(turn, k)
      BY <1>3, <2>1, DropsForeign DEF PieceOf, Listening, EndSignals
    <2>3. Taking' => Taking
      <3>1. OnWay(EndOf(turn))' => OnWay(EndOf(turn))
        BY <2>1 DEF OnWay
      <3>2. CASE GateDrops
        BY <2>1, <3>1, <3>2, TakingStays DEF GateDrops
      <3>3. CASE EndSignals
        <4>1. OnWay(EndOf(turn))
          <5>1. frame.kind = "end" /\ frame.turn = turn
            BY <3>3 DEF EndSignals, OrdInv, Current
          <5>2. frame = EndOf(turn)
            BY <5>1 DEF IInv, TurnTypeOK, NoFrame, Frame, EndOf
          <5> QED BY <2>1, <5>2 DEF OnWay
        <4> QED BY <2>1, <4>1 DEF Taking, Live, Listening
      <3> QED BY <1>3, <3>2, <3>3
    <2>4. \A k : Taking' /\ OnWay(PieceOf(turn, k)) => OnWay(PieceOf(turn, k))'
      BY <2>1, <2>2 DEF OnWay, Taking
    <2> QED BY <2>1, <2>3, <2>4, HeldStays, TakenStays DEF Kept
  <1>4. CASE StartResets \/ BeginFails
    <2>1. owner # turn
      BY <1>4, WsEndsForeign DEF StartResets, BeginFails
    <2> QED BY <1>4, <2>1 DEF StartResets, BeginFails, Taken, Taking
  <1>5. CASE ChunkDropped \/ ChunkLost
    BY <1>5 DEF ChunkDropped, ChunkLost, Sent, PushOpen, streamVars, Taken, Taking
  <1>6. CASE ChunkShort
    BY <1>6 DEF ChunkShort, OrdInv, Current, Taken, Taking
  <1> QED BY <1>1, <1>2, <1>3, <1>4, <1>5, <1>6, BeginTaken, ChunkSentTaken DEF WsStep

LEMMA AudioTaken ==
  ASSUME TurnInv, Taken, AudioStep PROVE Taken'
  <1> USE DEF TurnInv
  <1>1. UNCHANGED <<main, turn, got, ttsEnd, owner, short, server, sent, ws, frame, net>>
    BY DEF AudioStep, turnVars, gateVars, wsVars, netVars
  <1>2. \A f : OnWay(f)' <=> OnWay(f)
    BY <1>1, OnWayStays
  <1>3. OnWay(EndOf(turn))' => OnWay(EndOf(turn))
    BY <1>1, <1>2
  <1>4. (active' => active) /\ (alloc' => alloc)
    BY DEF AudioStep, StreamStep, WriterRuns, WriterReceives, WriterPlays, WriterExits, EndDrained, EndTimesOut,
       EndReleasesI2s, EndUnpublishes, EndFrees
  <1>5. Taking' => Taking
    BY <1>1, <1>3, <1>4 DEF Taking, Live, Listening, Signalled
  <1>6. \A c : alloc' /\ Held(c) => Held(c)'
    <2>1. CASE WriterReceives
      <3>1. /\ \A i \in DOMAIN ring : i = 1 \/ (i - 1 \in DOMAIN ring' /\ ring'[i - 1] = ring[i])
            /\ hand' = ring[1] /\ writer' = "write" /\ writer # "write" /\ spoken' = spoken
        BY <2>1 DEF WriterReceives, IInv, StreamOK, StreamTypeOK
      <3> QED BY <3>1 DEF Held
    <2>2. CASE WriterPlays
      <3>1. /\ \A i \in DOMAIN spoken : i \in DOMAIN spoken' /\ spoken'[i] = spoken[i]
            /\ Len(spoken) + 1 \in DOMAIN spoken' /\ spoken'[Len(spoken) + 1] = hand /\ ring' = ring
        BY <2>2 DEF WriterPlays, IInv, StreamOK, StreamTypeOK
      <3> QED BY <3>1 DEF Held
    <2>3. CASE ~WriterReceives /\ ~WriterPlays
      BY <2>3 DEF AudioStep, StreamStep, WriterRuns, WriterExits, EndDrained, EndTimesOut, EndReleasesI2s, EndUnpublishes,
         EndFrees, Held
    <2> QED BY <2>1, <2>2, <2>3
  <1>7. \A k : Taking' /\ Kept(turn, k) => Held(ChunkOf(turn, k))' \/ OnWay(PieceOf(turn, k))'
    BY <1>1, <1>2, <1>6 DEF Kept, Taking, ChunkOf
  <1> QED BY <1>1, <1>5, <1>7, TakenStays

LEMMA SendTaken ==
  ASSUME TurnInv, Taken, NEW t \in Turn, ServerStarts(t) \/ ServerChunk(t) \/ ServerEnds(t)
  PROVE  Taken'
  <1> USE DEF TurnInv
  <1>1. /\ UNCHANGED <<main, turn, got, ttsEnd, owner, short, active, alloc>>
        /\ UNCHANGED <<spoken, ring, hand, writer>>
    BY DEF ServerStarts, ServerChunk, ServerEnds, Serve, turnVars, gateVars, wsVars, streamVars
  <1>2. \A c : Held(c) => Held(c)'
    BY <1>1, HeldStays
  <1>3. \A k : Kept(turn, k) => Held(ChunkOf(turn, k))' \/ OnWay(PieceOf(turn, k))'
    BY <1>1, <1>2, SendFacts DEF Kept, ChunkOf
  <1>4. Taking' => turn \in Turn
    BY <1>1 DEF Taking, Listening, Armed, IInv, TurnKnown, TurnTypeOK, Turn
  <1>5. Taking' => ~(ServerStarts(turn) /\ turn = t)
    BY <1>1 DEF Taking, ServerStarts, Serve, FlowInv, Unsent, UnsentOf
  <1>6. Taking' => Taking
    <2>1. Taking' => server[turn] = "streaming" \/ OnWay(EndOf(turn)) \/ Signalled
      <3>1. CASE turn # t
        <4>1. OnWay(EndOf(turn))' => OnWay(EndOf(turn))
          BY <1>1, <3>1, SendFacts DEF EndOf
        <4> QED BY <1>1, <1>4, <3>1, <4>1, SendFacts DEF Taking, Live, Signalled
      <3>2. CASE turn = t
        BY <1>5, <3>2 DEF ServerStarts, ServerChunk, ServerEnds, Serve
      <3> QED BY <3>1, <3>2
    <2> QED BY <1>1, <2>1 DEF Taking, Live, Listening
  <1>7. CASE ~(ServerChunk(t) /\ turn = t)
    <2>1. turn \in Turn => sent'[turn] = sent[turn]
      BY <1>7, SendFacts
    <2> QED BY <1>1, <1>3, <1>4, <1>6, <2>1 DEF Taken, Kept
  <1>8. CASE ServerChunk(t) /\ turn = t
    <2>1. sent[t] \in Nat /\ sent'[t] = sent[t] + 1
      BY <1>8, SendFacts DEF IInv, TurnTypeOK
    <2>2. \A k \in 1 .. sent'[t] : k \in 1 .. sent[t] \/ k = sent[t] + 1
      BY <2>1
    <2>3. \A k : k = sent[t] + 1 => OnWay(PieceOf(t, k))'
      BY <1>8, SendFacts
    <2> QED BY <1>1, <1>3, <1>6, <1>8, <2>2, <2>3 DEF Taken, Kept
  <1> QED BY <1>7, <1>8

LEMMA DisconnectTaken ==
  ASSUME TurnInv, Taken, Disconnect PROVE Taken'
  <1> USE DEF TurnInv
  <1>1. /\ UNCHANGED <<main, turn, got, ttsEnd, owner, short, active, alloc, ws, frame, sent>>
        /\ UNCHANGED <<spoken, ring, hand, writer>> /\ net' = <<>> /\ DOMAIN net' = {}
    BY EmptyDomain DEF Disconnect, turnVars, gateVars, wsVars, streamVars
  <1>2. Taking' => turn \in Turn
    BY <1>1 DEF Taking, Listening, Armed, IInv, TurnKnown, TurnTypeOK, Turn
  <1>3. turn \in Turn => server'[turn] # "streaming"
    BY DEF Disconnect, Muted
  <1>4. Taking' => (ws # "idle" /\ frame = EndOf(turn)) \/ Signalled
    BY <1>1, <1>2, <1>3 DEF Taking, Live, Signalled, OnWay
  <1>5. Taking' => Taking
    BY <1>1, <1>4 DEF Taking, Live, Listening, OnWay
  <1>6. ASSUME NEW k \in 1 .. sent[turn], Taking' PROVE ~OnWay(PieceOf(turn, k))
    <2>1. PieceOf(turn, k) \in Frame /\ PieceOf(turn, k).turn = turn /\ PieceOf(turn, k).kind = "chunk"
      <3>1. k \in 1 .. NChunks
        <4>1. sent[turn] \in 0 .. NChunks
          BY <1>2, <1>6 DEF IInv, TurnTypeOK
        <4> QED BY <1>6, <4>1, StreamAssumption DEF StreamAssumption
      <3> QED BY <1>2, <1>6, <3>1 DEF PieceOf, Frame
    <2>2. EndOf(turn).kind = "end" /\ EndOf(turn).turn = turn
      BY DEF EndOf
    <2> QED BY <1>4, <1>6, <2>1, <2>2 DEF SignalInv, FlowInv, InLine, Precedes, OnWay
  <1>7. \A c : Held(c) => Held(c)'
    BY <1>1, HeldStays
  <1> QED BY <1>1, <1>5, <1>6, <1>7 DEF Taken, Kept, ChunkOf

LEMMA StepTaken == TurnInv /\ Coming /\ Taken /\ [Next]_vars => Taken'
  <1> SUFFICES ASSUME TurnInv, Coming, Taken, [Next]_vars PROVE Taken'
    OBVIOUS
  <1>1. CASE UNCHANGED vars
    BY <1>1 DEF vars, streamVars, turnVars, gateVars, wsVars, netVars, Taken, Taking, Live, Listening, Signalled,
       Kept, Held, OnWay, ChunkOf, PieceOf, EndOf
  <1>2. CASE StartTurn \/ Panic
    BY <1>2 DEF StartTurn, Panic, StreamReset, Taken, Taking, Listening, Armed
  <1>3. ASSUME NEW t \in Turn, ServerStores(t) PROVE Taken'
    <2>1. /\ UNCHANGED <<main, turn, got, ttsEnd, owner, short, active, alloc, ws, frame, net, sent>>
          /\ UNCHANGED <<spoken, ring, hand, writer>>
      BY <1>3 DEF ServerStores, Serve, turnVars, gateVars, wsVars, streamVars
    <2>2. \A f : OnWay(f)' <=> OnWay(f)
      BY <2>1, OnWayStays
    <2>3. OnWay(EndOf(turn))' => OnWay(EndOf(turn))
      BY <2>1, <2>2
    <2>4. Taking' => (server'[turn] = "streaming" => server[turn] = "streaming")
      <3>1. Taking' => turn \in Turn
        BY <2>1 DEF Taking, Listening, Armed, TurnInv, IInv, TurnKnown, TurnTypeOK, Turn
      <3> QED BY <1>3, <3>1 DEF ServerStores, Serve, TurnInv, IInv, TurnTypeOK
    <2>5. Taking' => Taking
      BY <2>1, <2>3, <2>4 DEF Taking, Live, Listening, Signalled
    <2> QED BY <2>1, <2>2, <2>5, HeldStays, TakenStays DEF Kept
  <1>4. CASE WriterLost
    <2>1. /\ UNCHANGED <<main, turn, got, ttsEnd, owner, short, active, alloc, ws, frame, net, server, sent>>
          /\ UNCHANGED <<spoken, ring, hand>> /\ writer # "write" /\ writer' # "write"
      BY <1>4 DEF WriterLost, WriterDies, gateVars, wsVars, netVars
    <2>2. \A f : OnWay(f)' <=> OnWay(f)
      BY <2>1, OnWayStays
    <2>3. OnWay(EndOf(turn))' => OnWay(EndOf(turn))
      BY <2>1, <2>2
    <2> QED BY <2>1, <2>2, <2>3, HeldStays, TakingStays, TakenStays DEF Kept
  <1> QED BY <1>1, <1>2, <1>3, <1>4, MainTaken, WsTaken, AudioTaken, SendTaken, DisconnectTaken
     DEF Next, Rest, ServerStep

-----------------------------------------------------------------------------
(* What has been played when a streamed turn returns.                       *)

\* What was played stays played, and the histories only grow.
LEMMA SpokenGrows ==
  ASSUME IInv, [Next]_vars
  PROVE  /\ \A t : WholeReply(t) => WholeReply(t)'
         /\ short \subseteq short' /\ foreign \subseteq foreign' /\ silent \subseteq silent'
  <1>1. \A i \in DOMAIN spoken : i \in DOMAIN spoken' /\ spoken'[i] = spoken[i]
    <2>1. CASE WriterPlays
      BY <2>1 DEF WriterPlays, IInv, StreamOK, StreamTypeOK
    <2>2. CASE UNCHANGED spoken
      BY <2>2
    <2>3. CASE ~WriterPlays
      <3>1. CASE UNCHANGED vars \/ StartTurn \/ ServerStep \/ WriterLost \/ Disconnect \/ Panic
        BY <2>2, <3>1 DEF vars, WriterLost, WriterDies, StartTurn, ServerStep, ServerStarts, ServerChunk, ServerEnds, ServerStores,
           Serve, Disconnect, Panic, StreamReset, streamVars
      <3>2. CASE MainStep
        BY <2>2, <3>2, MainQuiet DEF Quiet
      <3>3. CASE WsStep
        BY <2>2, <3>3 DEF WsStep, Receive, GatePasses, GateDrops, StartResets, ResetDone, StartFresh,
           BeginSession, BeginFails, ChunkDropped, ChunkAccepted, ChunkSent, ChunkBlocks, ChunkShort, ChunkLost, Sent, EndSignals,
           WsOnly, EndEnter, Begin, PushFits, PushTimesOut, streamVars
      <3>4. CASE AudioStep
        BY <2>2, <2>3, <3>4 DEF AudioStep, StreamStep, WriterRuns, WriterReceives, WriterExits, EndDrained, EndTimesOut,
           EndReleasesI2s, EndUnpublishes, EndFrees
      <3> QED BY <3>1, <3>2, <3>3, <3>4 DEF Next, Rest
    <2> QED BY <2>1, <2>3
  <1>2. \A t : WholeReply(t) => WholeReply(t)'
    BY <1>1 DEF WholeReply
  <1>3. short \subseteq short'
    <2>1. CASE MainStep
      BY <2>1, MainCalm DEF wsVars
    <2>2. CASE ~MainStep
      BY <2>2 DEF Next, Rest, WriterLost, vars, wsVars, StartTurn, ServerStep, ServerStarts, ServerChunk, ServerEnds,
         ServerStores, Serve, Disconnect, Panic, AudioStep, WsStep, Receive, GatePasses, GateDrops, StartResets,
         ResetDone, StartFresh, BeginSession, BeginFails, ChunkDropped, ChunkAccepted, ChunkSent, ChunkBlocks, ChunkShort,
         ChunkLost, Sent, EndSignals, WsOnly
    <2> QED BY <2>1, <2>2
  <1>4. foreign \subseteq foreign'
    <2>1. CASE ActivateNow \/ LateActivates
      BY <2>1 DEF ActivateNow, LateActivates, ActivateFrom
    <2>2. CASE MainStep /\ ~ActivateNow /\ ~LateActivates
      BY <2>2 DEF MainStep, Expect, ClearEnd, AckOpens, AckFails, AckDone, AckFailEnds, AckFailSkips,
       AckFailEnded, CheckFinds, CheckMisses, ActivateFails, ActFailEnds, ActFailSkips,
       ActFailEnded, WaitGets, WaitTimesOut, WaitEnds, Unexpect, LateFinds, LateMisses,
       LateActivateFails, EndDrains, EndRefused, EndReturns, Fallback, FallbackEnds,
       FallbackSkips, FallbackEnded, GetAnswers, GetFails, ReplyOpens, ReplyFails, ReplyPlayed,
       Go, Jump, Return, CloseGate, turnVars
    <2>3. CASE ~MainStep
      BY <2>3 DEF Next, Rest, WriterLost, vars, turnVars, StartTurn, ServerStep, ServerStarts, ServerChunk, ServerEnds,
         ServerStores, Serve, Disconnect, Panic, AudioStep, WsStep, Receive, GatePasses, GateDrops, StartResets,
         ResetDone, StartFresh, BeginSession, BeginFails, ChunkDropped, ChunkAccepted, ChunkSent, ChunkBlocks, ChunkShort,
         ChunkLost, Sent, EndSignals, WsOnly
    <2> QED BY <2>1, <2>2, <2>3
  <1>5. silent \subseteq silent'
    <2>1. CASE MainStep
      BY <2>1 DEF MainStep, Expect, ClearEnd, AckOpens, AckFails, AckDone, AckFailEnds, AckFailSkips,
       AckFailEnded, CheckFinds, CheckMisses, ActivateNow, ActivateFails, ActFailEnds, ActFailSkips,
       ActFailEnded, WaitGets, WaitTimesOut, WaitEnds, Unexpect, LateFinds, LateMisses, LateActivates,
       LateActivateFails, ActivateFrom, EndDrains, EndRefused, EndReturns, Fallback, FallbackEnds,
       FallbackSkips, FallbackEnded, GetAnswers, GetFails, ReplyOpens, ReplyFails, ReplyPlayed,
       Go, Jump, Return, CloseGate, turnVars
    <2>2. CASE ~MainStep
      BY <2>2 DEF Next, Rest, WriterLost, vars, turnVars, StartTurn, ServerStep, ServerStarts, ServerChunk,
         ServerEnds, ServerStores, Serve, Disconnect, Panic, AudioStep, WsStep, Receive, GatePasses, GateDrops,
         StartResets, ResetDone, StartFresh, BeginSession, BeginFails, ChunkDropped, ChunkAccepted, ChunkSent,
         ChunkBlocks, ChunkShort, ChunkLost, Sent, EndSignals, WsOnly
    <2> QED BY <2>1, <2>2
  <1> QED BY <1>2, <1>3, <1>4, <1>5

\* Of main's steps only EndDrains leads to its last drain, and nothing but main
\* moves it.
LEMMA IntoDrain ==
  ASSUME [Next]_vars, main' = "okend"
  PROVE  (main = "okend" /\ UNCHANGED <<turn, activated, foreign>>) \/ EndDrains
  <1>1. CASE MainStep
    <2> USE DEF Go, Jump, Return, CloseGate
    <2>1. CASE Expect \/ ClearEnd \/ AckFails \/ Fallback \/ Unexpect \/ WaitGets \/ WaitTimesOut
      BY <2>1 DEF Expect, ClearEnd, AckFails, Fallback, Unexpect, WaitGets, WaitTimesOut, WaitEnds
    <2>2. CASE \/ AckOpens \/ AckDone \/ ReplyOpens \/ AckFailEnds \/ ActFailEnds \/ EndDrains \/ FallbackEnds
      BY <2>2 DEF AckOpens, AckDone, ReplyOpens, AckFailEnds, ActFailEnds, EndDrains, FallbackEnds
    <2>3. CASE AckFailSkips \/ AckFailEnded \/ EndRefused \/ EndReturns \/ GetFails \/ ReplyFails \/ ReplyPlayed
      BY <2>3 DEF AckFailSkips, AckFailEnded, EndRefused, EndReturns, GetFails, ReplyFails, ReplyPlayed
    <2>4. CASE \/ CheckFinds \/ CheckMisses \/ ActivateFails \/ ActFailSkips \/ ActFailEnded \/ LateFinds
               \/ LateMisses \/ LateActivateFails \/ FallbackSkips \/ FallbackEnded \/ GetAnswers
      BY <2>4 DEF CheckFinds, CheckMisses, ActivateFails, ActFailSkips, ActFailEnded, LateFinds, LateMisses,
         LateActivateFails, FallbackSkips, FallbackEnded, GetAnswers
    <2>5. CASE ActivateNow \/ LateActivates
      BY <2>5 DEF ActivateNow, LateActivates, ActivateFrom
    <2> QED BY <1>1, <2>1, <2>2, <2>3, <2>4, <2>5 DEF MainStep
  <1>2. CASE ~MainStep
    BY <1>2 DEF Next, Rest, WriterLost, vars, turnVars, StartTurn, ServerStep, ServerStarts, ServerChunk, ServerEnds,
       ServerStores, Serve, Disconnect, Panic, AudioStep, WsStep, Receive, GatePasses, GateDrops, StartResets,
       ResetDone, StartFresh, BeginSession, BeginFails, ChunkDropped, ChunkAccepted, ChunkSent, ChunkBlocks, ChunkShort,
       ChunkLost, Sent, EndSignals, WsOnly
  <1> QED BY <1>1, <1>2

\* When the drain is over, the ring is empty, the writer gone and nothing on its way.
LEMMA DrainedAll ==
  ASSUME TurnInv, SessionInv, Taken, DrainsOn, main = "okend", Own, ending["main"] = "drain", drained
  PROVE  WholeReply(turn) \/ turn \in short
  <1> USE DEF TurnInv
  <1>1. writer = "none" /\ ring = <<>> /\ owner = turn /\ active /\ alloc /\ Signalled /\ turn \in Turn
    <2>1. left["main"] \in Nat
      BY DEF IInv, StreamOK, StreamTypeOK, Caller
    <2> QED BY <2>1 DEF SessionInv, Draining, DrainsOn, Signalled, IInv, TurnKnown, TurnTypeOK, Turn
  <1> SUFFICES ASSUME turn \notin short PROVE WholeReply(turn)
    OBVIOUS
  <1>2. Taking /\ sent[turn] = NChunks
    BY <1>1 DEF Taking, Live, Listening, SignalInv
  <1>3. ASSUME NEW k \in 1 .. NChunks PROVE \E j \in DOMAIN spoken : spoken[j] = [turn |-> turn, seq |-> k]
    <2>1. Kept(turn, k)
      BY <1>2, <1>3 DEF Taken
    <2>2. PieceOf(turn, k) \in Frame /\ PieceOf(turn, k).turn = turn
      BY <1>1, <1>3 DEF PieceOf, Frame
    <2>3. Held(ChunkOf(turn, k))
      BY <1>1, <2>1, <2>2 DEF Kept, SignalInv
    <2> QED BY <1>1, <2>3, EmptyDomain DEF Held, ChunkOf
  <1> QED BY <1>3 DEF WholeReply

\* The drain itself.
LEMMA StepDrain ==
  ASSUME TurnInv, SessionInv, Taken, DrainsOn, Finished, [Next]_vars
  PROVE  DrainsOn' /\ Finished'
  <1> USE DEF TurnInv
  <1> SUFFICES ASSUME main' = "okend", Own'
               PROVE  /\ ending'["main"] = "drain" => active' /\ (drained' => alloc')
                      /\ ending'["main"] # "drain" => WholeReply(turn)' \/ turn' \in short'
    BY DEF DrainsOn, Finished
  <1>1. CASE EndDrains
    <2>1. Own /\ main = "end"
      BY <1>1 DEF EndDrains, Go, turnVars, Own
    <2>2. active /\ draining /\ ~drained
      BY <2>1 DEF SessionInv, Playing
    <2>3. ending'["main"] = "drain" /\ active' = active /\ drained' = drained
      BY <1>1, <2>2 DEF EndDrains, EndEnter, Caller, IInv, StreamOK, StreamTypeOK
    <2> QED BY <2>2, <2>3
  <1>2. CASE main = "okend" /\ UNCHANGED <<turn, activated, foreign>>
    <2>1. Own /\ owner = turn
      BY <1>2, SpokenGrows DEF Own, SessionInv, Draining
    <2>2. ending["ws"] = "no" /\ ~StartResets /\ ~BeginSession
      BY <2>1, WsEndsForeign, BeginFlow DEF IInv, Control, EndersKnown, StartResets, Handle
    <2>3. (WholeReply(turn) \/ turn \in short) => (WholeReply(turn)' \/ turn' \in short')
      BY <1>2, SpokenGrows DEF WholeReply
    <2>4. CASE EndDrained("main") \/ EndTimesOut("main")
      <3>1. ending["main"] = "drain" /\ ending'["main"] = "i2s"
        BY <2>4 DEF EndDrained, EndTimesOut, Caller, IInv, StreamOK, StreamTypeOK
      <3>2. drained
        <4>1. left["main"] \in Nat
          BY DEF IInv, StreamOK, StreamTypeOK, Caller
        <4>2. Len(ring) \in Nat
          BY DEF IInv, StreamOK, StreamTypeOK
        <4>3. Load \in Nat
          BY <4>2 DEF Load
        <4>4. stop /\ (writer # "none" => left["main"] > Load) /\ (writer = "none" => drained)
          BY <1>2, <2>1, <3>1 DEF SessionInv, Draining
        <4>5. EndTimesOut("main") => writer = "none"
          <5>1. EndTimesOut("main") => left["main"] = 0 \/ writer = "none" \/ ~stop
            BY DEF EndTimesOut
          <5>2. left["main"] = 0 /\ writer # "none" => FALSE
            BY <4>1, <4>3, <4>4
          <5> QED BY <4>4, <5>1, <5>2
        <4>6. EndDrained("main") => drained
          BY DEF EndDrained
        <4> QED BY <2>4, <4>4, <4>5, <4>6
      <3> QED BY <1>2, <2>1, <2>3, <3>1, <3>2, DrainedAll
    <2>5. CASE EndReleasesI2s("main") \/ EndUnpublishes("main") \/ EndFrees("main")
      <3>1. ending["main"] # "drain" /\ ending'["main"] # "drain"
        BY <2>5 DEF EndReleasesI2s, EndUnpublishes, EndFrees, Caller, IInv, StreamOK, StreamTypeOK
      <3> QED BY <1>2, <2>1, <2>3, <3>1 DEF Finished
    <2>6. CASE UNCHANGED <<ending, active, alloc, drained>> \/ WriterExits
      BY <1>2, <2>1, <2>3, <2>6 DEF WriterExits, DrainsOn, Finished
    <2>7. \/ UNCHANGED <<ending, active, alloc, drained>> \/ WriterExits
          \/ EndDrained("main") \/ EndTimesOut("main")
          \/ EndReleasesI2s("main") \/ EndUnpublishes("main") \/ EndFrees("main")
      <3>1. CASE UNCHANGED vars \/ ServerStep \/ Disconnect
        BY <3>1 DEF vars, streamVars, ServerStep, ServerStarts, ServerChunk, ServerEnds, ServerStores, Serve,
           Disconnect
      <3>2. CASE MainStep
        <4>1. EndReturns
          BY <1>2, <3>2 DEF MainStep, Expect, ClearEnd, AckOpens, AckFails, AckDone, AckFailEnds, AckFailSkips,
             AckFailEnded, CheckFinds, CheckMisses, ActivateNow, ActivateFails, ActFailEnds, ActFailSkips,
             ActFailEnded, WaitGets, WaitTimesOut, WaitEnds, Unexpect, LateFinds, LateMisses, LateActivates,
             LateActivateFails, ActivateFrom, EndDrains, EndRefused, Fallback, FallbackEnds, FallbackSkips,
             FallbackEnded, GetAnswers, GetFails, ReplyOpens, ReplyFails, ReplyPlayed, Go, Jump, Return, CloseGate
        <4> QED BY <4>1 DEF EndReturns, Return
      <3>3. CASE WsStep
        BY <2>2, <3>3 DEF WsStep, Receive, GatePasses, GateDrops, ResetDone, StartFresh, BeginFails,
           ChunkDropped, ChunkAccepted, ChunkSent, ChunkBlocks, ChunkShort, ChunkLost, Sent, EndSignals, WsOnly, PushFits,
           PushTimesOut, streamVars
      <3>4. CASE AudioStep
        BY <2>2, <3>4 DEF AudioStep, StreamStep, WriterRuns, WriterReceives, WriterPlays, Caller, EndDrained, EndTimesOut,
           EndReleasesI2s, EndUnpublishes, EndFrees
      <3>5. CASE StartTurn \/ Panic
        BY <1>2, <3>5 DEF StartTurn, Panic
      <3>6. ~WriterLost
        BY DEF WriterLost, Own
      <3> QED BY <3>1, <3>2, <3>3, <3>4, <3>5, <3>6 DEF Next, Rest
    <2> QED BY <2>4, <2>5, <2>6, <2>7
  <1> QED BY <1>1, <1>2, IntoDrain

LEMMA StepAnswered ==
  ASSUME TurnInv, SessionInv, Finished, AnsweredUnlessCut, [Next]_vars
  PROVE  AnsweredUnlessCut'
  <1> USE DEF TurnInv
  <1>1. ASSUME \A t \in Turn : outcome'[t] = "stream" =>
                 outcome[t] = "stream" \/ WholeReply(t) \/ t \in short \/ t \in foreign \/ t \in silent
        PROVE  AnsweredUnlessCut'
    BY <1>1, SpokenGrows DEF AnsweredUnlessCut
  <1>2. CASE EndReturns \/ EndRefused
    <2>1. outcome' = [outcome EXCEPT ![turn] = "stream"] /\ main # "idle"
      BY <1>2 DEF EndReturns, EndRefused, Return
    <2>2. \A t \in Turn : t # turn => outcome'[t] = outcome[t]
      BY <2>1 DEF IInv, TurnTypeOK
    <2>3. WholeReply(turn) \/ turn \in short \/ turn \in foreign \/ turn \in silent
      BY <1>2 DEF EndReturns, EndRefused, Return, ArmInv, Own, Finished, SessionInv, Playing
    <2> QED BY <1>1, <2>2, <2>3
  <1>3. CASE ~EndReturns /\ ~EndRefused
    <2> SUFFICES \A t \in Turn : outcome'[t] = "stream" => outcome[t] = "stream"
      BY <1>1
    <2>1. CASE AckFailSkips \/ AckFailEnded \/ GetFails \/ ReplyFails \/ ReplyPlayed \/ Panic
      <3>1. PICK how \in {"error", "wav", "panic"} : outcome' \in {outcome, [outcome EXCEPT ![turn] = how]}
        BY <2>1 DEF AckFailSkips, AckFailEnded, GetFails, ReplyFails, ReplyPlayed, Return, Panic
      <3> QED BY <3>1 DEF IInv, TurnTypeOK
    <2>2. CASE MainStep /\ ~AckFailSkips /\ ~AckFailEnded /\ ~GetFails /\ ~ReplyFails /\ ~ReplyPlayed
      BY <1>3, <2>2 DEF MainStep, Expect, ClearEnd, AckOpens, AckFails, AckDone, AckFailEnds, CheckFinds,
         CheckMisses, ActivateNow, ActivateFails, ActFailEnds, ActFailSkips, ActFailEnded, WaitGets,
         WaitTimesOut, WaitEnds, Unexpect, LateFinds, LateMisses, LateActivates, LateActivateFails, ActivateFrom,
         EndDrains, Fallback, FallbackEnds, FallbackSkips, FallbackEnded, GetAnswers, ReplyOpens, Go, Jump,
         CloseGate, turnVars
    <2>3. CASE ~MainStep /\ ~Panic
      BY <2>3 DEF Next, Rest, WriterLost, vars, turnVars, StartTurn, ServerStep, ServerStarts, ServerChunk,
         ServerEnds, ServerStores, Serve, Disconnect, AudioStep, WsStep, Receive, GatePasses, GateDrops, StartResets,
         ResetDone, StartFresh, BeginSession, BeginFails, ChunkDropped, ChunkAccepted, ChunkSent, ChunkBlocks, ChunkShort,
         ChunkLost, Sent, EndSignals, WsOnly
    <2> QED BY <2>1, <2>2, <2>3
  <1> QED BY <1>2, <1>3

\* THEOREM.  A turn that voice_turn_execute counts as streamed was heard whole, however
\* the three tasks, the server and the network interleave, but for a chunk that found no
\* room, a session that was another turn's, and a writer task that got no memory.
THEOREM AnswerWhole == Spec => []AnsweredUnlessCut
  <1>1. Init => TurnInv /\ SessionInv /\ WholeInv
    BY InitOK, InitOrder, InitFlow, InitArm, InitSession, InitWhole DEF TurnInv
  <1>2. TurnInv /\ SessionInv /\ WholeInv /\ [Next]_vars => (TurnInv /\ SessionInv /\ WholeInv)'
    <2> SUFFICES ASSUME TurnInv, SessionInv, WholeInv, [Next]_vars
                 PROVE  (TurnInv /\ SessionInv /\ WholeInv)'
      OBVIOUS
    <2>1. TurnInv' /\ SessionInv'
      BY StepOK, StepOrder, StepFlow, StepArm, StepSignal, StepSession DEF TurnInv
    <2>2. WholeInv'
      BY StepComing, StepTaken, StepDrain, StepAnswered DEF WholeInv
    <2> QED BY <2>1, <2>2
  <1>3. WholeInv => AnsweredUnlessCut
    BY DEF WholeInv
  <1> QED BY <1>1, <1>2, <1>3, PTL DEF Spec
=============================================================================
