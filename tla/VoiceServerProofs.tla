------------------------ MODULE VoiceServerProofs ------------------------
(***************************************************************************)
(* The registry of connected units stays consistent, whatever the order of *)
(* hellos, losses, closes and cleanups, and while the background tasks     *)
(* read it without its lock; and a reply is streamed whole or not ended:   *)
(* for any number of requests, units, connections and sub-chunks.          *)
(***************************************************************************)
EXTENDS VoiceServer, TLAPS

-----------------------------------------------------------------------------
(* The registry alone.                                                      *)

\* Where a handler stands between its registration and its removal.
Registered == {"ack", "read", "exit", "exitlock"}

\* What the registry holds is the connection of a handler that registered for
\* that unit and has not yet cleaned up.
EntriesOwned ==
  \A u \in Unit : clients[u] # None =>
    unit_id[clients[u]] = u /\ pc[clients[u]] \in Registered

\* A handler registers once, for the unit its hello named.
HelloOnce ==
  \A c \in Conn :
    /\ pc[c] = "new" => new_id[c] = None
    /\ pc[c] \in {"new", "lock", "closing"} => unit_id[c] = None
    /\ pc[c] \in {"lock", "closing", "ack", "exitlock"} => new_id[c] # None
    /\ new_id[c] = None => unit_id[c] = None

\* An open connection that registered still has its entry: this is what
\* superseding (close first, then replace) and the owner check keep true.
OpenHasEntry ==
  \A c \in Conn : unit_id[c] # None /\ ~closed[c] => clients[unit_id[c]] = c

\* Whoever awaits the close of an older connection holds the lock.
CloserHoldsLock == \A c \in Conn : pc[c] = "closing" => Holds(c)

RegInv == RegTypeOK /\ EntriesOwned /\ HelloOnce /\ OpenHasEntry /\ CloserHoldsLock

LEMMA RegInitOK == RegInit => RegInv
  BY RegistryAssumption DEF RegInit, RegInv, RegTypeOK, EntriesOwned, HelloOnce, OpenHasEntry,
     CloserHoldsLock

\* Joining the queue leaves its head in place.
LEMMA AskKeepsHolder ==
  ASSUME lockq \in Seq(Conn), NEW c \in Conn, NEW d \in Conn, Asks(c), Holds(d)
  PROVE  lockq' \in Seq(Conn) /\ Holds(d)'
  BY DEF Asks, Holds

\* Steps that leave the queue and the registry alone.
LEMMA QuietOK ==
  ASSUME RegInv, NEW c \in Conn,
         \/ Accept(c) \/ HelloRejected(c) \/ Lost(c) \/ Supersede(c) \/ CloseMarks(c)
         \/ AckSent(c) \/ AckRaises(c) \/ Leave(c) \/ ExitUnregistered(c)
  PROVE  RegInv'
  <1> USE RegistryAssumption DEF RegInv, RegTypeOK, EntriesOwned, HelloOnce, OpenHasEntry,
          CloserHoldsLock, Registered, Goes, Holds
  <1>1. CASE Accept(c)
    BY <1>1 DEF Accept
  <1>2. CASE HelloRejected(c)
    BY <1>2 DEF HelloRejected
  <1>3. CASE Lost(c)
    BY <1>3 DEF Lost
  <1>4. CASE Supersede(c)
    BY <1>4 DEF Supersede, MustClose, Prev
  <1>5. CASE CloseMarks(c)
    BY <1>5 DEF CloseMarks, MustClose, Prev
  <1>6. CASE AckSent(c)
    BY <1>6 DEF AckSent
  <1>7. CASE AckRaises(c)
    BY <1>7 DEF AckRaises
  <1>8. CASE Leave(c)
    BY <1>8 DEF Leave
  <1>9. CASE ExitUnregistered(c)
    BY <1>9 DEF ExitUnregistered
  <1> QED BY <1>1, <1>2, <1>3, <1>4, <1>5, <1>6, <1>7, <1>8, <1>9

\* Asking for the lock: a hello, and the cleanup.
LEMMA AskOK ==
  ASSUME RegInv, NEW c \in Conn, (\E u \in Unit : Hello(c, u)) \/ ExitAsks(c)
  PROVE  RegInv'
  <1> USE RegistryAssumption DEF RegInv
  <1>1. lockq' \in Seq(Conn) /\ CloserHoldsLock'
    <2>1. Asks(c)
      BY DEF Hello, ExitAsks
    <2>2. \A d \in Conn : pc'[d] = "closing" => pc[d] = "closing"
      BY DEF Hello, ExitAsks, Goes, RegTypeOK
    <2>3. \A d \in Conn : Holds(d) => Holds(d)'
      BY <2>1, AskKeepsHolder DEF RegTypeOK
    <2>4. lockq' \in Seq(Conn)
      BY <2>1 DEF Asks, RegTypeOK
    <2> QED BY <2>2, <2>3, <2>4 DEF CloserHoldsLock
  <1>2. CASE \E u \in Unit : Hello(c, u)
    BY <1>1, <1>2 DEF Hello, RegTypeOK, EntriesOwned, HelloOnce, OpenHasEntry, Registered, Goes
  <1>3. CASE ExitAsks(c)
    BY <1>1, <1>3 DEF ExitAsks, RegTypeOK, EntriesOwned, HelloOnce, OpenHasEntry, Registered, Goes
  <1> QED BY <1>2, <1>3

\* The holder gives the lock back: nobody else was closing.
LEMMA ReleaseOK ==
  ASSUME RegInv, NEW c \in Conn, Holds(c), Releases,
         \A d \in Conn : pc'[d] = "closing" => pc[d] = "closing" /\ d # c
  PROVE  lockq' \in Seq(Conn) /\ CloserHoldsLock'
  BY DEF RegInv, RegTypeOK, CloserHoldsLock, Holds, Releases

LEMMA RegisterOK ==
  ASSUME RegInv, NEW c \in Conn, Register(c)
  PROVE  RegInv'
  <1> USE RegistryAssumption DEF RegInv
  <1>1. Holds(c) /\ pc[c] \in {"lock", "closing"} /\ pc' = [pc EXCEPT ![c] = "ack"]
    BY DEF Register, Goes, CloserHoldsLock
  <1>2. new_id[c] \in Unit /\ unit_id[c] = None
    BY <1>1 DEF HelloOnce, RegTypeOK
  <1>3. clients[new_id[c]] # None => closed[clients[new_id[c]]]
    BY <1>2 DEF Register, MustClose, CloseReturns, Prev, RegTypeOK
  <1>4. lockq' \in Seq(Conn) /\ CloserHoldsLock'
    <2>1. \A d \in Conn : pc'[d] = "closing" => pc[d] = "closing" /\ d # c
      BY <1>1 DEF RegTypeOK
    <2> QED BY <1>1, <2>1, ReleaseOK DEF Register
  <1>5. RegTypeOK'
    BY <1>1, <1>2, <1>4 DEF Register, RegTypeOK
  <1>6. EntriesOwned'
    BY <1>1, <1>2 DEF Register, RegTypeOK, EntriesOwned, Registered
  <1>7. HelloOnce'
    BY <1>1, <1>2 DEF Register, RegTypeOK, HelloOnce
  <1>8. OpenHasEntry'
    BY <1>1, <1>2, <1>3 DEF Register, RegTypeOK, OpenHasEntry
  <1> QED BY <1>4, <1>5, <1>6, <1>7, <1>8

LEMMA RemoveOK ==
  ASSUME RegInv, NEW c \in Conn, Remove(c)
  PROVE  RegInv'
  <1> USE RegistryAssumption DEF RegInv
  <1>1. Holds(c) /\ pc[c] = "exitlock" /\ pc' = [pc EXCEPT ![c] = "done"]
    BY DEF Remove, Goes
  <1>2. lockq' \in Seq(Conn) /\ CloserHoldsLock'
    <2>1. \A d \in Conn : pc'[d] = "closing" => pc[d] = "closing" /\ d # c
      BY <1>1 DEF RegTypeOK
    <2> QED BY <1>1, <2>1, ReleaseOK DEF Remove
  <1>3. RegTypeOK'
    BY <1>1, <1>2 DEF Remove, RegTypeOK
  <1>4. EntriesOwned'
    BY <1>1 DEF Remove, Owns, RegTypeOK, EntriesOwned, Registered
  <1>5. HelloOnce'
    BY <1>1 DEF Remove, RegTypeOK, HelloOnce
  <1>6. OpenHasEntry'
    BY <1>1 DEF Remove, Owns, RegTypeOK, OpenHasEntry
  <1> QED BY <1>2, <1>3, <1>4, <1>5, <1>6

LEMMA RegStepOK == RegInv /\ [RegNext]_regVars => RegInv'
  <1> SUFFICES ASSUME RegInv, [RegNext]_regVars PROVE RegInv'
    OBVIOUS
  <1>1. CASE UNCHANGED regVars
    BY <1>1 DEF regVars, RegInv, RegTypeOK, EntriesOwned, HelloOnce, OpenHasEntry,
       CloserHoldsLock, Holds
  <1>2. ASSUME NEW c \in Conn, HandlerStep(c) \/ PeerStep(c)
        PROVE  RegInv'
    BY <1>2, QuietOK, AskOK, RegisterOK, RemoveOK DEF HandlerStep, PeerStep
  <1> QED BY <1>1, <1>2 DEF RegNext, RegStep

LEMMA RegInductive == RegSpec => []RegInv
  BY RegInitOK, RegStepOK, PTL DEF RegSpec

\* An acknowledged unit on an open connection is reachable: notify_unit and the
\* stream find it under its own connection.
THEOREM LiveUnitFound == RegSpec => []LiveUnitRegistered
  <1>1. RegInv => LiveUnitRegistered
    BY DEF RegInv, OpenHasEntry, LiveUnitRegistered
  <1> QED BY <1>1, RegInductive, PTL

\* A returned ws_handler left no entry behind.
THEOREM NothingLeftBehind == RegSpec => []RegistryClean
  <1>1. RegInv => RegistryClean
    BY RegistryAssumption DEF RegInv, EntriesOwned, RegistryClean, Registered
  <1> QED BY <1>1, RegInductive, PTL

\* Two registered connections of one unit are never both open.
THEOREM SupersededIsClosed == RegSpec => []OneOpenPerUnit
  <1>1. RegInv => OneOpenPerUnit
    BY DEF RegInv, OpenHasEntry, OneOpenPerUnit, RegTypeOK
  <1> QED BY <1>1, RegInductive, PTL

-----------------------------------------------------------------------------
(* Requests and replies.                                                    *)

\* An open stream has sent all that was made, and an ended one all there is.
StreamWhole ==
  \A r \in Req :
    /\ bg[r] \in {"off", "tool"} => made[r] = 0 /\ seq[r] = 0 /\ ~ws_ok[r]
    /\ bg[r] = "synth" /\ ws_ok[r] => seq[r] = made[r] /\ ws[r] # None
    /\ bg[r] \in {"off", "tool", "synth", "failed"} => ~ended[r]
    /\ ended[r] => seq[r] = NPieces

\* The half of TypeOK that is not the registry's.
ReplyTypeOK ==
  /\ pending \in [Req -> {"no", "stored", "gone"}]
  /\ bg \in [Req -> {"off", "tool", "synth", "failed", "ready", "done"}]
  /\ runit \in [Req -> Unit \cup {None}] /\ ws \in [Req -> Conn \cup {None}]
  /\ ws_ok \in [Req -> BOOLEAN] /\ ended \in [Req -> BOOLEAN]
  /\ streamed \in [Req -> BOOLEAN] /\ event \in [Req -> BOOLEAN]
  /\ made \in [Req -> 0 .. NPieces] /\ seq \in [Req -> 0 .. NPieces]
  /\ wav \in [Req -> {"none", "reply", "apology", "empty"}]
  /\ get \in [Req -> {"no", "wait", "answered", "timeout", "missing"}]

ServerInv == RegInv /\ ReplyTypeOK /\ StreamWhole

LEMMA ServerInitOK == Init => ServerInv
  <1> SUFFICES ASSUME Init PROVE ServerInv
    OBVIOUS
  <1>1. RegInv
    BY RegInitOK DEF Init
  <1>2. ReplyTypeOK /\ StreamWhole
    BY ReplyAssumption DEF Init, ReplyTypeOK, StreamWhole
  <1> QED BY <1>1, <1>2 DEF ServerInv

LEMMA RegKept ==
  ASSUME RegInv, UNCHANGED regVars
  PROVE  RegInv'
  BY DEF regVars, RegInv, RegTypeOK, EntriesOwned, HelloOnce, OpenHasEntry,
     CloserHoldsLock, Holds

\* The background task, the poll and the sweep only read the registry.
LEMMA RequestsReadOnly ==
  ASSUME NEW r \in Req, BgStep(r) \/ StoreStep(r) \/ UnitStep(r)
  PROVE  UNCHANGED regVars
  BY DEF BgStep, StoreStep, UnitStep, Works, Polls, Post, ToolFails, StreamOpens, StreamMuted,
     Piece, PieceSent, PieceUnsent, SynthFails, Finish, FinishEnds, FinishRaises, FinishCut,
     Apologise, Signal, Poll, PollMisses, Answer, PollTimesOut, Sweep

\* A stream is captured from an entry that is a connection or None.
LEMMA EntryOK ==
  ASSUME RegInv, ReplyTypeOK, NEW r \in Req
  PROVE  Entry(r) \in Conn \cup {None}
  BY DEF RegInv, RegTypeOK, ReplyTypeOK, Entry

LEMMA BgOK ==
  ASSUME ServerInv, NEW r \in Req, BgStep(r)
  PROVE  ReplyTypeOK' /\ StreamWhole'
  <1> USE ReplyAssumption DEF ServerInv, ReplyTypeOK, StreamWhole, Works, Put, replyVars
  <1>0. Entry(r) \in Conn \cup {None}
    BY EntryOK
  <1>1. CASE ToolFails(r)
    BY <1>1 DEF ToolFails
  <1>2. CASE StreamOpens(r)
    BY <1>0, <1>2 DEF StreamOpens
  <1>3. CASE StreamMuted(r)
    <2>1. ReplyTypeOK'
      BY <1>0, <1>3 DEF StreamMuted
    <2>2. StreamWhole'
      BY <1>3 DEF StreamMuted
    <2> QED BY <2>1, <2>2
  <1>4. CASE PieceSent(r)
    BY <1>4 DEF PieceSent, Piece
  <1>5. CASE PieceUnsent(r)
    BY <1>5 DEF PieceUnsent, Piece, Mutes
  <1>6. CASE SynthFails(r)
    BY <1>6 DEF SynthFails
  <1>7. CASE FinishEnds(r)
    BY <1>7 DEF FinishEnds, Finish, CanEnd
  <1>8. CASE FinishRaises(r)
    BY <1>8 DEF FinishRaises, Finish
  <1>9. CASE FinishCut(r)
    BY <1>9 DEF FinishCut, Finish
  <1>10. CASE Apologise(r)
    BY <1>10 DEF Apologise
  <1>11. CASE Signal(r)
    BY <1>11 DEF Signal
  <1> QED BY <1>1, <1>2, <1>3, <1>4, <1>5, <1>6, <1>7, <1>8, <1>9, <1>10, <1>11 DEF BgStep

LEMMA StoreOK ==
  ASSUME ServerInv, NEW r \in Req, StoreStep(r) \/ UnitStep(r)
  PROVE  ReplyTypeOK' /\ StreamWhole'
  <1> USE DEF ServerInv, ReplyTypeOK, StreamWhole, Polls, Put, replyVars
  <1>1. CASE Post(r)
    BY <1>1 DEF Post
  <1>2. CASE Poll(r) \/ PollMisses(r)
    BY <1>2 DEF Poll, PollMisses
  <1>3. CASE Answer(r) \/ PollTimesOut(r)
    BY <1>3 DEF Answer, PollTimesOut
  <1>4. CASE Sweep(r)
    BY <1>4 DEF Sweep
  <1> QED BY <1>1, <1>2, <1>3, <1>4 DEF StoreStep, UnitStep

LEMMA RepliesKept ==
  ASSUME ReplyTypeOK, StreamWhole, UNCHANGED <<pending, bg, replyVars, get>>
  PROVE  ReplyTypeOK' /\ StreamWhole'
  BY DEF ReplyTypeOK, StreamWhole, replyVars

LEMMA ServerStepOK == ServerInv /\ [Next]_vars => ServerInv'
  <1> SUFFICES ASSUME ServerInv, [Next]_vars PROVE ServerInv'
    OBVIOUS
  <1> USE DEF ServerInv
  <1>1. CASE UNCHANGED vars
    BY <1>1, RegKept, RepliesKept DEF vars
  <1>2. CASE Rest
    BY <1>1, <1>2 DEF Rest
  <1>3. CASE Connections
    BY <1>3, RegStepOK, RepliesKept DEF Connections, RegNext
  <1>4. ASSUME NEW r \in Req, BgStep(r) \/ StoreStep(r) \/ UnitStep(r)
        PROVE  ServerInv'
    BY <1>4, RequestsReadOnly, RegKept, BgOK, StoreOK
  <1> QED BY <1>1, <1>2, <1>3, <1>4 DEF Next

LEMMA ServerInductive == Spec => []ServerInv
  BY ServerInitOK, ServerStepOK, PTL DEF Spec

\* The server's state is well typed.
THEOREM ServerTypes == Spec => []TypeOK
  <1>1. ServerInv => TypeOK
    BY DEF ServerInv, RegInv, ReplyTypeOK, TypeOK
  <1> QED BY <1>1, ServerInductive, PTL

\* tts_end is sent only after every sub-chunk was: _stream_synthesis_to_ws never
\* ends a stream it has skipped part of.
THEOREM WholeOrNotEnded == Spec => []EndedIsWhole
  <1>1. ServerInv => EndedIsWhole
    BY DEF ServerInv, StreamWhole, EndedIsWhole
  <1> QED BY <1>1, ServerInductive, PTL

\* Slow turns that read _clients without the lock disturb none of the registry's
\* promises.
THEOREM RegistryKept == Spec => [](LiveUnitRegistered /\ RegistryClean /\ OneOpenPerUnit)
  <1>1. RegInv => LiveUnitRegistered /\ RegistryClean /\ OneOpenPerUnit
    BY RegistryAssumption DEF RegInv, EntriesOwned, OpenHasEntry, RegTypeOK, Registered,
       LiveUnitRegistered, RegistryClean, OneOpenPerUnit
  <1> QED BY <1>1, ServerInductive, PTL DEF ServerInv
=============================================================================
