--------------------------- MODULE UnitServices ---------------------------
(***************************************************************************)
(* The unit's services that share no state with each other, checked in one *)
(* run: what it boots and updates (Boot), its WebSocket client (WsClient), *)
(* the log server (LogServer), the radar's parser (Ld2410) and the way     *)
(* from the microphone to a score (WakeWord).  A behaviour exercises one   *)
(* of them, while the others are at rest in a state from which they need   *)
(* not move.                                                               *)
(***************************************************************************)
EXTENDS Boot, WsClient, LogServer, Ld2410, WakeWord

CONSTANT MaxNoise  (* bound: the bytes of noise before the radar's frames   *)

VARIABLE service

unitVars == <<service, bootVars, wsVars, logVars, radarVars, earVars>>

\* A unit that reached its loop without a network.
BootRests ==
  /\ FlashInit
  /\ app = "loop" /\ ota = "idle" /\ current = Default /\ target = None
  /\ link = "idle" /\ retries = MaxRetries /\ wifiBits = {"FAIL"} /\ misses = MaxRetries + 1
  /\ manifest = None /\ published = 0 /\ installs = 0 /\ cuts = 0 /\ lost = 0

\* Its log server could not listen.
LogRests ==
  /\ fds = [i \in LogSlot |-> Nobody] /\ mutex = Nobody
  /\ hook = [t \in Logger |-> "idle"]
  /\ acceptor = "deleted" /\ fd = Nobody /\ placed = FALSE
  /\ sock = [c \in Client |-> "none"] /\ peer = [c \in Client |-> "away"]

\* Nothing comes from the radar.
RadarRests == line = <<>> /\ read = 0 /\ buf = <<>> /\ states = <<>> /\ uart = [target |-> 0, valid |-> FALSE]

UnitInit ==
  /\ service \in {"boot", "ws", "log", "radar", "wake"}
  /\ IF service = "boot" THEN BootInit ELSE BootRests
  /\ WsInit
  /\ IF service = "log" THEN LogInit ELSE LogRests
  /\ IF service = "radar" THEN RadarInit ELSE RadarRests
  /\ WakeInit

UnitNext ==
  \/ service = "boot"  /\ BootNext  /\ UNCHANGED <<service, wsVars, logVars, radarVars, earVars>>
  \/ service = "ws"    /\ WsNext    /\ UNCHANGED <<service, bootVars, logVars, radarVars, earVars>>
  \/ service = "log"   /\ LogNext   /\ UNCHANGED <<service, bootVars, wsVars, radarVars, earVars>>
  \/ service = "radar" /\ RadarNext /\ UNCHANGED <<service, bootVars, wsVars, logVars, earVars>>
  \/ service = "wake"  /\ WakeNext  /\ UNCHANGED <<service, bootVars, wsVars, logVars, radarVars>>

UnitSpec ==
  /\ UnitInit /\ [][UnitNext]_unitVars
  /\ BootFair /\ WsFair /\ LogFair /\ RadarFair

-----------------------------------------------------------------------------
(* What the radar sends: noise, in which headers, short and impossible      *)
(* lengths occur, and then three frames.                                    *)
MCHeader == <<7, 6>>
MCFooter == <<5, 4>>
MCFrame(t) == <<7, 6, 1, t, 5, 4>>
MCNoise == UNION {[1..n -> {0, 1, 3, 7, 6}] : n \in 0..MaxNoise}
MCLines == {noise \o MCFrame(1) \o MCFrame(2) \o MCFrame(3) : noise \in MCNoise}
=============================================================================
