-------------------------- MODULE WsClientProofs --------------------------
(***************************************************************************)
(* What the unit's WebSocket client keeps, proved for every buffer, every  *)
(* length of frames and any number of frames and connections; and that it  *)
(* implements FrameLink.                                                   *)
(***************************************************************************)
EXTENDS WsClient, SequenceTheorems, TLAPS

\* What came over this connection came after its hello, and so did the session.
AfterHello ==
  /\ wire # <<>> => first = "hello"
  /\ session => conn = "up" /\ first = "hello"
  /\ sender = "sending" /\ conn = "up" /\ tested = conns => first = "hello"
  /\ tested <= conns

HInv == WsTypeOK /\ AfterHello

LEMMA NoElements == ASSUME NEW S PROVE <<>> \in Seq(S) /\ Len(<<>>) = 0
  BY EmptySeq

\* A sequence stays one when its elements are allowed to be more.
LEMMA SeqWidens ==
  ASSUME NEW m \in Nat, NEW n \in Nat, m <= n, NEW s \in Seq(1..m)
  PROVE  s \in Seq(1..n)
  OBVIOUS

\* Putting the next number behind the numbers so far.
LEMMA AppendsNext ==
  ASSUME NEW n \in Nat, NEW s \in Seq(1..n)
  PROVE  Append(s, n + 1) \in Seq(1..n + 1) /\ Append(s, n + 1) # <<>>
  <1>1. s \in Seq(1..n + 1) /\ n + 1 \in 1..n + 1
    BY SeqWidens
  <1> QED BY <1>1, AppendProperties

\* A frame has a length within the bound.
LEMMA LenOfFrame ==
  ASSUME NEW s \in Seq(Frame), NEW n \in 1..Len(s)
  PROVE  s[n] \in Frame /\ s[n].len \in 1..MaxLen
  <1>1. s[n] \in Frame
    BY ElementOfSeq
  <1> QED BY <1>1 DEF Frame

LEMMA WsInitOK == WsInit => HInv
  <1> SUFFICES ASSUME WsInit PROVE HInv
    OBVIOUS
  <1>1. /\ frames \in Seq(Frame) /\ wire \in Seq(1..Len(frames)) /\ handled \in Seq(1..Len(frames))
        /\ asm \in Seq(Byte) /\ Len(asm) <= RxCap
    BY NoElements, WsAssumption DEF WsInit
  <1>2. /\ conns \in 0..MaxConns /\ off \in Nat /\ expected \in 0..MaxLen
        /\ tested \in 0..MaxConns /\ tested <= conns
        /\ wire = <<>> /\ off = 0
    BY WsAssumption DEF WsInit
  <1>3. /\ client \in {"none", "started", "failed"} /\ conn \in {"down", "up"}
        /\ session \in BOOLEAN /\ acked \in BOOLEAN
        /\ first \in {"none", "hello", "other"} /\ sender \in {"idle", "sending"}
    BY DEF WsInit
  <1>4. WsTypeOK
    BY <1>1, <1>2, <1>3 DEF WsTypeOK
  <1> QED BY <1>2, <1>4 DEF HInv, WsInit, AfterHello

\* Starting, connecting, losing the connection, and main's sends.
LEMMA ConnOK == ASSUME HInv, Starts \/ Connects \/ Disconnects \/ SendChecks \/ SendEnds PROVE HInv'
  <1>1. UNCHANGED <<frames, asm, expected, handled>>
    BY DEF Starts, Connects, Disconnects, SendChecks, SendEnds
  <1>0. conns \in 0..MaxConns /\ tested \in 0..MaxConns /\ MaxConns \in Nat /\ tested <= conns
    BY WsAssumption DEF HInv, WsTypeOK, AfterHello
  <1>2. CASE Starts \/ SendChecks \/ SendEnds
    <2>1. UNCHANGED <<conn, conns, wire, off, session, acked>>
      BY <1>2 DEF Starts, SendChecks, SendEnds
    <2>2. tested' \in 0..MaxConns /\ tested' <= conns'
      BY <1>0, <1>2 DEF Starts, SendChecks, SendEnds
    <2>3. /\ client' \in {"none", "started", "failed"} /\ sender' \in {"idle", "sending"}
          /\ first' \in {"none", "hello", "other"} /\ (first = "hello" => first' = "hello")
      BY <1>2 DEF Starts, SendChecks, SendEnds, HInv, WsTypeOK
    <2>4. sender' = "sending" /\ conn' = "up" /\ tested' = conns' => first' = "hello"
      BY <1>2 DEF Starts, SendChecks, SendEnds, HInv, AfterHello
    <2>5. WsTypeOK'
      BY <1>1, <2>1, <2>2, <2>3 DEF HInv, WsTypeOK
    <2> QED BY <2>1, <2>2, <2>3, <2>4, <2>5 DEF HInv, AfterHello
  <1>3. CASE Connects
    <2>1. conns' \in 0..MaxConns /\ tested' = tested /\ tested' < conns'
      BY <1>0, <1>3 DEF Connects
    <2>2. WsTypeOK'
      BY <1>1, <1>3, <2>1 DEF Connects, HInv, WsTypeOK
    <2>3. wire' = <<>> /\ session' = FALSE
      BY <1>3 DEF Connects, HInv, WsTypeOK, AfterHello
    <2> QED BY <1>0, <2>1, <2>2, <2>3 DEF HInv, AfterHello
  <1>4. CASE Disconnects
    <2>1. /\ conn' = "down" /\ wire' = <<>> /\ off' = 0 /\ session' = FALSE
          /\ UNCHANGED <<client, conns, acked, first, sender, tested>>
      BY <1>4 DEF Disconnects, EndsSession
    <2>2. wire' \in Seq(1..Len(frames)) /\ off' \in Nat
      BY <2>1, NoElements
    <2> QED BY <1>1, <2>1, <2>2 DEF HInv, WsTypeOK, AfterHello
  <1> QED BY <1>2, <1>3, <1>4

\* The server puts a frame on the wire.
LEMMA PutsOK ==
  ASSUME HInv, NEW f \in Frame, Puts(f), acked' \in BOOLEAN
  PROVE  HInv'
  <1>1. /\ conn = "up" /\ first = "hello"
        /\ frames' = Append(frames, f) /\ wire' = Append(wire, Len(frames) + 1)
        /\ UNCHANGED <<client, conn, conns, off, asm, expected, handled, session, first, sender, tested>>
    BY DEF Puts
  <1>2. frames \in Seq(Frame) /\ wire \in Seq(1..Len(frames)) /\ handled \in Seq(1..Len(frames))
    BY DEF HInv, WsTypeOK
  <1>3. /\ frames' \in Seq(Frame) /\ Len(frames') = Len(frames) + 1
        /\ \A i \in 1..Len(frames) : frames'[i] = frames[i]
        /\ frames'[Len(frames) + 1] = f
    BY <1>1, <1>2
  <1>4. wire \in Seq(1..Len(frames')) /\ handled \in Seq(1..Len(frames'))
    BY <1>2, <1>3, SeqWidens
  <1>5. wire' \in Seq(1..Len(frames')) /\ wire' # <<>>
    <2>1. Append(wire, Len(frames) + 1) \in Seq(1..Len(frames) + 1) /\ Append(wire, Len(frames) + 1) # <<>>
      <3>1. Len(frames) \in Nat
        BY <1>2
      <3> QED BY <1>2, <3>1, AppendsNext
    <2> QED BY <1>1, <1>3, <2>1
  <1>6. off' < frames'[Head(wire')].len /\ off' \in Nat
    <2>1. CASE wire = <<>>
      <3>1. Head(wire') = Len(frames) + 1
        BY <1>1, <2>1
      <3>2. off' = 0
        BY <1>1, <2>1 DEF HInv, WsTypeOK
      <3> QED BY <1>3, <3>1, <3>2, WsAssumption DEF Frame
    <2>2. CASE wire # <<>>
      <3>1. Head(wire') = Head(wire) /\ Head(wire) \in 1..Len(frames)
        BY <1>1, <1>2, <2>2
      <3> QED BY <1>1, <1>3, <2>2, <3>1 DEF HInv, WsTypeOK
    <2> QED BY <2>1, <2>2
  <1>7. WsTypeOK'
    BY <1>1, <1>3, <1>4, <1>5, <1>6 DEF HInv, WsTypeOK
  <1>8. AfterHello'
    BY <1>1 DEF HInv, AfterHello
  <1> QED BY <1>7, <1>8 DEF HInv

-----------------------------------------------------------------------------
(* A piece arrives.                                                         *)

\* What is known of the piece itself.
LEMMA PieceFacts ==
  ASSUME HInv, wire # <<>>, NEW d \in 1..frames[Incoming].len - off
  PROVE  /\ Incoming \in 1..Len(frames) /\ frames[Incoming] \in Frame
         /\ d \in Nat /\ d >= 1 /\ off \in Nat /\ off + d <= frames[Incoming].len
         /\ Piece(d) \in Seq(Byte) /\ Len(Piece(d)) = d
         /\ \A i \in 1..d : Piece(d)[i] = <<Incoming, off + i>>
  <1>1. frames \in Seq(Frame) /\ wire \in Seq(1..Len(frames)) /\ off \in Nat
    BY DEF HInv, WsTypeOK
  <1>2. Incoming \in 1..Len(frames)
    BY <1>1 DEF Incoming
  <1>3. frames[Incoming] \in Frame
    BY <1>1, <1>2
  <1>4. d \in Nat /\ d >= 1 /\ off + d <= frames[Incoming].len /\ frames[Incoming].len \in 1..MaxLen
    BY <1>1, <1>3 DEF Frame
  <1>5. \A i \in 1..d : <<Incoming, off + i>> \in Byte
    BY SMTT(30), <1>1, <1>2, <1>4, WsAssumption DEF Byte
  <1> QED BY SMTT(30), <1>1, <1>2, <1>3, <1>4, <1>5 DEF Piece

\* The bytes that were kept, with the new ones behind them.
LEMMA JoinedFacts ==
  ASSUME HInv, wire # <<>>, NEW d \in 1..frames[Incoming].len - off
  PROVE  LET buf == Started \o Piece(d)
         IN  /\ Started \in Seq(Byte)
             /\ buf \in Seq(Byte) /\ Len(buf) = Len(Started) + d
             /\ \A i \in 1..Len(Started) : buf[i] = Started[i]
             /\ \A i \in 1..d : buf[Len(Started) + i] = <<Incoming, off + i>>
  <1>1. Started \in Seq(Byte)
    BY NoElements DEF Started, HInv, WsTypeOK
  <1>2. Piece(d) \in Seq(Byte) /\ Len(Piece(d)) = d /\ d \in Nat /\ \A i \in 1..d : Piece(d)[i] = <<Incoming, off + i>>
    BY PieceFacts
  <1> DEFINE s == Started
             t == Piece(d)
  <1>3. s \in Seq(Byte) /\ t \in Seq(Byte) /\ Len(t) = d
    BY <1>1, <1>2
  <1>4. \A i \in 1..d : t[i] = <<Incoming, off + i>>
    BY <1>2
  <1> HIDE DEF s, t
  <1>5. /\ s \o t \in Seq(Byte) /\ Len(s \o t) = Len(s) + Len(t)
        /\ \A i \in 1..Len(s) + Len(t) : (s \o t)[i] = IF i <= Len(s) THEN s[i] ELSE t[i - Len(s)]
    BY <1>3, ConcatProperties
  <1>6. \A i \in 1..d : (s \o t)[Len(s) + i] = t[i]
    BY <1>2, <1>3, <1>5
  <1>7. \A i \in 1..Len(s) : (s \o t)[i] = s[i]
    BY <1>2, <1>3, <1>5
  <1> QED BY <1>3, <1>4, <1>5, <1>6, <1>7 DEF s, t

\* How far the transport has got after the piece.
LEMMA DeliveredOK ==
  ASSUME HInv, wire # <<>>, NEW d \in 1..frames[Incoming].len - off, Delivers(d)
  PROVE  /\ wire' \in Seq(1..Len(frames)) /\ off' \in Nat
         /\ wire' = <<>> => off' = 0
         /\ wire' # <<>> => off' < frames[Head(wire')].len
         /\ conn = "up" /\ UNCHANGED <<client, conn, conns, frames, acked, first, sender, tested>>
  <1>1. conn = "up" /\ UNCHANGED <<client, conn, conns, frames, acked, first, sender, tested>>
    BY DEF Delivers
  <1>2. frames \in Seq(Frame) /\ wire \in Seq(1..Len(frames))
    BY DEF HInv, WsTypeOK
  <1>3. CASE off + d = frames[Incoming].len
    <2>1. wire' = Tail(wire) /\ off' = 0
      BY <1>3 DEF Delivers
    <2>2. wire' \in Seq(1..Len(frames))
      BY <1>2, <2>1
    <2>3. wire' # <<>> => Head(wire') \in 1..Len(frames)
      BY <2>2
    <2>4. wire' # <<>> => frames[Head(wire')].len \in 1..MaxLen
      BY <1>2, <2>3, LenOfFrame
    <2>5. wire' # <<>> => off' < frames[Head(wire')].len
      BY <2>1, <2>4, WsAssumption
    <2> QED BY <1>1, <2>1, <2>2, <2>5
  <1>4. CASE off + d # frames[Incoming].len
    <2>1. wire' = wire /\ off' = off + d
      BY <1>4 DEF Delivers
    <2>2. off + d <= frames[Incoming].len /\ off \in Nat /\ d \in Nat /\ frames[Incoming].len \in 1..MaxLen
      BY PieceFacts DEF Frame
    <2>3. wire' \in Seq(1..Len(frames)) /\ wire' # <<>>
      BY <1>2, <2>1
    <2>4. off' \in Nat /\ off' < frames[Incoming].len
      BY <1>4, <2>1, <2>2
    <2>5. frames[Head(wire')].len = frames[Incoming].len
      BY <2>1 DEF Incoming
    <2> QED BY <1>1, <2>3, <2>4, <2>5
  <1> QED BY <1>3, <1>4

LEMMA ReceivesOK == ASSUME HInv, Receives PROVE HInv'
  <1>1. PICK d \in 1..frames[Incoming].len - off : PieceKept(d) \/ FrameHandled(d) \/ PieceOverflows(d)
    BY DEF Receives
  <1>2. wire # <<>> /\ Delivers(d)
    BY <1>1 DEF Receives, PieceKept, FrameHandled, PieceOverflows
  <1>3. /\ wire' \in Seq(1..Len(frames)) /\ off' \in Nat
        /\ wire' = <<>> => off' = 0
        /\ wire' # <<>> => off' < frames[Head(wire')].len
        /\ conn = "up" /\ UNCHANGED <<client, conn, conns, frames, acked, first, sender, tested>>
    BY <1>2, DeliveredOK
  <1>4. asm' \in Seq(Byte) /\ Len(asm') <= RxCap
    <2>1. CASE PieceKept(d)
      BY <1>2, <2>1, JoinedFacts DEF PieceKept, Fits
    <2>2. CASE asm' = <<>>
      BY <2>2, NoElements, WsAssumption
    <2> QED BY <1>1, <2>1, <2>2 DEF FrameHandled, PieceOverflows
  <1>5. expected' \in 0..MaxLen
    <2>1. frames[Incoming].len \in 1..MaxLen
      BY <1>2, PieceFacts DEF Frame
    <2>2. ExpectedNow \in 0..MaxLen
      BY <2>1 DEF ExpectedNow, HInv, WsTypeOK
    <2> QED BY <1>1, <2>2, WsAssumption DEF PieceKept, FrameHandled, PieceOverflows
  <1>6. handled' \in Seq(1..Len(frames)) /\ session' \in BOOLEAN
    <2>1. CASE UNCHANGED <<handled, session>>
      BY <2>1 DEF HInv, WsTypeOK
    <2>2. CASE FrameHandled(d)
      <3> DEFINE buf == Started \o Piece(d)
      <3>1. Handle(buf)
        BY <2>2 DEF FrameHandled
      <3> HIDE DEF buf
      <3>2. CASE UNCHANGED <<handled, session>>
        BY <3>2 DEF HInv, WsTypeOK
      <3>3. CASE \E n \in Parsed(buf) :
                   handled' = Append(handled, n) /\ session' = (session \/ frames[n].ack)
        <4>1. PICK n \in 1..Len(frames) :
                handled' = Append(handled, n) /\ session' = (session \/ frames[n].ack)
          BY <3>3 DEF Parsed
        <4>2. handled \in Seq(1..Len(frames))
          BY DEF HInv, WsTypeOK
        <4>3. handled' \in Seq(1..Len(frames))
          BY <4>1, <4>2
        <4>4. session' \in BOOLEAN
          BY <4>1
        <4> QED BY <4>3, <4>4
      <3> QED BY <3>1, <3>2, <3>3 DEF Handle
    <2> QED BY <1>1, <2>1, <2>2 DEF PieceKept, PieceOverflows
  <1>7. WsTypeOK'
    BY <1>3, <1>4, <1>5, <1>6 DEF HInv, WsTypeOK
  <1>8. AfterHello'
    BY <1>2, <1>3 DEF HInv, AfterHello
  <1> QED BY <1>7, <1>8 DEF HInv

LEMMA WsStepOK == HInv /\ [WsNext]_wsVars => HInv'
  <1> SUFFICES ASSUME HInv, [WsNext]_wsVars PROVE HInv'
    OBVIOUS
  <1>1. CASE UNCHANGED wsVars
    BY <1>1 DEF wsVars, HInv, WsTypeOK, AfterHello
  <1>2. CASE ServerAcks
    <2>1. [len |-> AckLen, ack |-> TRUE] \in Frame
      BY WsAssumption DEF Frame
    <2> QED BY <1>2, <2>1, PutsOK DEF ServerAcks
  <1>3. ASSUME NEW len \in 1..MaxLen, ServerSends(len) PROVE HInv'
    <2>1. [len |-> len, ack |-> FALSE] \in Frame
      BY DEF Frame
    <2>2. acked' \in BOOLEAN
      BY <1>3 DEF ServerSends, HInv, WsTypeOK
    <2> QED BY <1>3, <2>1, <2>2, PutsOK DEF ServerSends
  <1> QED BY <1>1, <1>2, <1>3, ConnOK, ReceivesOK DEF WsNext

LEMMA WsInductive == WsSpec => []HInv
  BY WsInitOK, WsStepOK, PTL DEF WsSpec

\* Every state of the client is well typed: no piece leads past the end of the buffer.
THEOREM WsTypes == WsSpec => []WsTypeOK
  BY WsInductive, PTL DEF HInv

\* No event goes out before the hello on the connection whose session it was sent for,
\* even when hello fails.
THEOREM NothingBeforeHello == WsSpec => HelloFirst
  <1>1. ASSUME HInv, [WsNext]_wsVars, first = "none", first' = "other" PROVE tested # conns
    <2>1. CASE SendEnds
      BY <1>1, <2>1 DEF SendEnds, HInv, AfterHello
    <2>2. CASE UNCHANGED first
      BY <1>1, <2>2
    <2> QED BY <1>1, <2>1, <2>2 DEF WsNext, wsVars, Starts, Connects, Disconnects, ServerAcks,
                 ServerSends, Puts, Receives, PieceKept, FrameHandled, PieceOverflows, Delivers, SendChecks
  <1>2. HInv /\ [WsNext]_wsVars => [first = "none" /\ first' = "other" => tested # conns]_wsVars
    BY <1>1
  <1> QED BY <1>2, WsInductive, PTL DEF WsSpec, HelloFirst

-----------------------------------------------------------------------------
(* The assembly, and the link the client implements.                        *)

\* In the middle of a frame the buffer holds all of it that came, or, once it has
\* overflowed, nothing.
Assembling ==
  wire # <<>> /\ off > 0 =>
    \/ /\ expected = frames[Incoming].len /\ Len(asm) = off
       /\ \A i \in 1..off : asm[i] = <<Incoming, i>>
    \/ expected = 0 /\ asm = <<>> /\ frames[Incoming].len > RxCap

AInv == HInv /\ Assembling

\* The same before the next piece is added: whole so far, or overflowed.
WholeSoFar ==
  /\ ExpectedNow = frames[Incoming].len /\ Len(Started) = off
  /\ \A i \in 1..off : Started[i] = <<Incoming, i>>

Overflowed ==
  ExpectedNow = 0 /\ Started = <<>> /\ frames[Incoming].len > RxCap /\ off > 0

LEMMA BeforePiece ==
  ASSUME AInv, wire # <<>>
  PROVE  WholeSoFar \/ Overflowed
  <1>1. off \in Nat
    BY DEF AInv, HInv, WsTypeOK
  <1>2. CASE off = 0
    BY <1>2 DEF WholeSoFar, Started, ExpectedNow
  <1>3. CASE off > 0
    BY <1>1, <1>3 DEF AInv, Assembling, WholeSoFar, Overflowed, Started, ExpectedNow
  <1> QED BY <1>1, <1>2, <1>3

\* What the whole frame parses as: itself and nothing else.
LEMMA WholeParsed ==
  ASSUME HInv, wire # <<>>, NEW d \in 1..frames[Incoming].len - off, WholeSoFar
  PROVE  LET buf == Started \o Piece(d)
         IN  /\ Len(buf) = off + d
             /\ \A i \in 1..off + d : buf[i] = <<Incoming, i>>
             /\ off + d = frames[Incoming].len => Parsed(buf) = {Incoming}
  <1> DEFINE buf == Started \o Piece(d)
             n == Incoming
  <1>1. /\ n \in 1..Len(frames) /\ frames[n].len \in 1..MaxLen
        /\ d \in Nat /\ d >= 1 /\ off \in Nat
    BY PieceFacts DEF Frame
  <1>2. /\ Len(buf) = off + d
        /\ \A i \in 1..off : buf[i] = <<n, i>>
        /\ \A i \in 1..d : buf[off + i] = <<n, off + i>>
    BY JoinedFacts DEF WholeSoFar
  <1> HIDE DEF buf, n
  <1>3. \A i \in 1..off + d : buf[i] = <<n, i>>
    <2> SUFFICES ASSUME NEW i \in 1..off + d PROVE buf[i] = <<n, i>>
      OBVIOUS
    <2>1. CASE i <= off
      BY <1>1, <1>2, <2>1
    <2>2. CASE i > off
      <3>1. i - off \in 1..d /\ off + (i - off) = i
        BY <1>1, <2>2
      <3> QED BY <1>2, <3>1
    <2> QED BY <1>1, <2>1, <2>2
  <1>4. ASSUME off + d = frames[n].len PROVE Parsed(buf) = {n}
    <2>1. n \in Parsed(buf)
      BY <1>1, <1>2, <1>3, <1>4 DEF Parsed
    <2>2. ASSUME NEW m \in Parsed(buf) PROVE m = n
      <3>1. m \in 1..Len(frames) /\ \A i \in 1..frames[m].len : buf[i] = <<m, i>>
        BY <2>2 DEF Parsed
      <3>2. frames[m].len \in 1..MaxLen
        BY <3>1, LenOfFrame DEF HInv, WsTypeOK
      <3>3. buf[1] = <<m, 1>> /\ buf[1] = <<n, 1>>
        BY <1>1, <1>3, <3>1, <3>2, WsAssumption
      <3> QED BY <3>3
    <2> QED BY <2>1, <2>2
  <1> QED BY <1>2, <1>3, <1>4 DEF buf, n

\* What is left of an overflowed frame parses as nothing.
LEMMA RestNotParsed ==
  ASSUME HInv, wire # <<>>, NEW d \in 1..frames[Incoming].len - off, Overflowed
  PROVE  Parsed(Started \o Piece(d)) = {}
  <1> DEFINE buf == Started \o Piece(d)
  <1>1. off \in Nat /\ off > 0 /\ d \in Nat /\ d >= 1
    BY PieceFacts DEF Overflowed
  <1>2. buf[1] = <<Incoming, off + 1>>
    <2>1. Len(Started) = 0
      BY NoElements DEF Overflowed
    <2>2. \A i \in 1..d : buf[Len(Started) + i] = <<Incoming, off + i>>
      BY JoinedFacts
    <2>3. 1 \in 1..d
      BY <1>1
    <2>4. buf[Len(Started) + 1] = <<Incoming, off + 1>>
      BY <2>2, <2>3
    <2> HIDE DEF buf
    <2> QED BY <2>1, <2>4
  <1> HIDE DEF buf
  <1>3. ASSUME NEW m \in Parsed(buf) PROVE FALSE
    <2>1. m \in 1..Len(frames) /\ \A i \in 1..frames[m].len : buf[i] = <<m, i>>
      BY <1>3 DEF Parsed
    <2>2. frames[m].len \in 1..MaxLen
      BY <2>1, LenOfFrame DEF HInv, WsTypeOK
    <2>3. buf[1] = <<m, 1>>
      BY <2>1, <2>2, WsAssumption
    <2> QED BY <1>1, <1>2, <2>3
  <1> QED BY <1>3 DEF buf

\* What one piece does to the link: nothing, or it completes a frame that fits, or one
\* that does not.
LEMMA PieceOutcome ==
  ASSUME AInv, Receives
  PROVE  /\ wire # <<>> /\ frames' = frames /\ Assembling'
         /\ \/ wire' = wire /\ handled' = handled
            \/ /\ wire' = Tail(wire) /\ handled' = Append(handled, Incoming)
               /\ frames[Incoming].len <= RxCap
            \/ /\ wire' = Tail(wire) /\ handled' = handled
               /\ frames[Incoming].len > RxCap
  <1>1. PICK d \in 1..frames[Incoming].len - off : PieceKept(d) \/ FrameHandled(d) \/ PieceOverflows(d)
    BY DEF Receives
  <1>2. wire # <<>> /\ Delivers(d) /\ frames' = frames /\ HInv
    BY <1>1 DEF Receives, PieceKept, FrameHandled, PieceOverflows, Delivers, AInv
  <1> DEFINE n == Incoming
             L == frames[n].len
             buf == Started \o Piece(d)
  <1>3. /\ L \in 1..MaxLen /\ d \in Nat /\ d >= 1 /\ off \in Nat /\ off + d <= L
        /\ RxCap \in Nat
    BY <1>2, PieceFacts, WsAssumption DEF Frame
  <1>4. /\ off + d = L => wire' = Tail(wire) /\ off' = 0
        /\ off + d # L => wire' = wire /\ off' = off + d
    BY <1>2 DEF Delivers
  <1>5. off + d # L => Incoming' = n /\ frames'[Incoming'].len = L
    BY <1>2, <1>4 DEF Incoming
  <1>6. /\ PieceKept(d) => /\ Len(Started) + d <= RxCap
                           /\ ~(ExpectedNow = 0 \/ Len(Started) + d >= ExpectedNow)
                           /\ asm' = buf /\ expected' = ExpectedNow /\ handled' = handled
        /\ FrameHandled(d) => /\ Len(Started) + d <= RxCap
                              /\ ExpectedNow = 0 \/ Len(Started) + d >= ExpectedNow
                              /\ Handle(buf) /\ asm' = <<>> /\ expected' = 0
        /\ PieceOverflows(d) => /\ ~(Len(Started) + d <= RxCap)
                                /\ asm' = <<>> /\ expected' = 0 /\ handled' = handled
    BY DEF PieceKept, FrameHandled, PieceOverflows, Fits, Complete
  <1>7. CASE WholeSoFar
    <2>1. /\ ExpectedNow = L /\ Len(Started) = off
          /\ Len(buf) = off + d /\ \A i \in 1..off + d : buf[i] = <<n, i>>
          /\ off + d = L => Parsed(buf) = {n}
      BY <1>2, <1>7, WholeParsed DEF WholeSoFar
    <2> HIDE DEF n, buf
    <2>2. CASE PieceKept(d)
      <3>1. off + d < L /\ asm' = buf /\ expected' = L /\ handled' = handled
        BY <1>3, <1>6, <2>1, <2>2
      <3>2. wire' = wire /\ off' = off + d /\ Incoming' = n /\ frames'[Incoming'].len = L
        BY <1>3, <1>4, <1>5, <3>1
      <3>3. Assembling'
        BY <2>1, <3>1, <3>2 DEF Assembling
      <3> QED BY <1>2, <3>1, <3>2, <3>3
    <2>3. CASE FrameHandled(d)
      <3>1. off + d = L /\ L <= RxCap
        BY <1>3, <1>6, <2>1, <2>3
      <3>2. handled' = Append(handled, n)
        BY <1>6, <2>1, <2>3, <3>1 DEF Handle
      <3>3. wire' = Tail(wire) /\ off' = 0
        BY <1>4, <3>1
      <3>4. Assembling'
        BY <3>3 DEF Assembling
      <3> QED BY <1>2, <3>1, <3>2, <3>3, <3>4 DEF n
    <2>4. CASE PieceOverflows(d)
      <3>1. L > RxCap /\ asm' = <<>> /\ expected' = 0 /\ handled' = handled
        BY <1>3, <1>6, <2>1, <2>4
      <3>2. Assembling'
        BY <1>3, <1>4, <1>5, <3>1 DEF Assembling
      <3> QED BY <1>2, <1>4, <3>1, <3>2 DEF n
    <2> QED BY <1>1, <2>2, <2>3, <2>4
  <1>8. CASE Overflowed
    <2>1. /\ ExpectedNow = 0 /\ L > RxCap /\ Parsed(buf) = {}
      BY <1>2, <1>8, RestNotParsed DEF Overflowed
    <2> HIDE DEF n, buf
    <2>2. asm' = <<>> /\ expected' = 0 /\ handled' = handled
      BY <1>1, <1>6, <2>1 DEF Handle
    <2>3. Assembling'
      BY <1>3, <1>4, <1>5, <2>1, <2>2 DEF Assembling
    <2> QED BY <1>2, <1>4, <2>1, <2>2, <2>3 DEF n
  <1> QED BY <1>2, <1>7, <1>8, BeforePiece

LEMMA AInvStep == AInv /\ [WsNext]_wsVars => AInv'
  <1> SUFFICES ASSUME AInv, [WsNext]_wsVars PROVE AInv'
    OBVIOUS
  <1>1. HInv'
    BY WsStepOK DEF AInv
  <1>2. CASE UNCHANGED <<frames, wire, off, asm, expected>>
    BY <1>1, <1>2 DEF AInv, Assembling, Incoming
  <1>3. CASE Disconnects
    BY <1>1, <1>3 DEF Disconnects, AInv, Assembling
  <1>4. ASSUME NEW f \in Frame, Puts(f) PROVE AInv'
    <2>1. CASE wire = <<>>
      <3>1. off' = 0
        BY <1>4, <2>1 DEF Puts, AInv, HInv, WsTypeOK
      <3> QED BY <1>1, <3>1 DEF AInv, Assembling
    <2>2. CASE wire # <<>>
      <3>1. frames \in Seq(Frame) /\ wire \in Seq(1..Len(frames))
        BY DEF AInv, HInv, WsTypeOK
      <3>2. /\ frames' = Append(frames, f) /\ wire' = Append(wire, Len(frames) + 1)
            /\ UNCHANGED <<off, asm, expected>>
        BY <1>4 DEF Puts
      <3>3. Incoming \in 1..Len(frames) /\ Incoming' = Incoming
        BY <2>2, <3>1, <3>2 DEF Incoming
      <3>4. frames'[Incoming'] = frames[Incoming]
        BY <3>1, <3>2, <3>3
      <3> QED BY <1>1, <2>2, <3>2, <3>3, <3>4 DEF AInv, Assembling
    <2> QED BY <2>1, <2>2
  <1>5. CASE Receives
    BY <1>1, <1>5, PieceOutcome DEF AInv
  <1>6. CASE ServerAcks
    <2>1. [len |-> AckLen, ack |-> TRUE] \in Frame
      BY WsAssumption DEF Frame
    <2> QED BY <1>6, <1>4, <2>1 DEF ServerAcks
  <1>7. ASSUME NEW len \in 1..MaxLen, ServerSends(len) PROVE AInv'
    BY <1>7, <1>4 DEF ServerSends, Frame
  <1>8. CASE UNCHANGED wsVars
    BY <1>2, <1>8 DEF wsVars
  <1>9. CASE Starts \/ Connects \/ SendChecks \/ SendEnds
    BY <1>2, <1>9 DEF Starts, Connects, SendChecks, SendEnds
  <1> QED BY <1>3, <1>5, <1>6, <1>7, <1>8, <1>9 DEF WsNext

LEMMA AInvAlways == WsSpec => []AInv
  <1>1. ASSUME WsInit PROVE AInv
    <2>1. wire = <<>>
      BY <1>1 DEF WsInit
    <2>2. HInv
      BY <1>1, WsInitOK
    <2> QED BY <2>1, <2>2 DEF AInv, Assembling
  <1> QED BY <1>1, AInvStep, PTL DEF WsSpec

\* The link's queue, as a function of the frames and of those under way.
Way(fs, w) == [i \in 1..Len(w) |-> [n |-> w[i], len |-> fs[w[i]].len]]

Item == [n : Nat, len : 1..MaxLen]

LEMMA WayIsSeq ==
  ASSUME NEW fs \in Seq(Frame), NEW w \in Seq(1..Len(fs))
  PROVE  /\ Way(fs, w) \in Seq(Item) /\ Len(Way(fs, w)) = Len(w)
         /\ \A i \in 1..Len(w) : Way(fs, w)[i] = [n |-> w[i], len |-> fs[w[i]].len]
  <1>1. Len(w) \in Nat
    OBVIOUS
  <1>2. ASSUME NEW i \in 1..Len(w) PROVE [n |-> w[i], len |-> fs[w[i]].len] \in Item
    <2>1. w[i] \in 1..Len(fs) /\ w[i] \in Nat
      OBVIOUS
    <2>2. fs[w[i]].len \in 1..MaxLen
      BY <2>1, LenOfFrame
    <2> QED BY <2>1, <2>2 DEF Item
  <1> DEFINE e(i) == [n |-> w[i], len |-> fs[w[i]].len]
  <1>3. \A i \in 1..Len(w) : e(i) \in Item
    BY <1>2
  <1>4. Way(fs, w) = [i \in 1..Len(w) |-> e(i)]
    BY DEF Way
  <1> HIDE DEF e
  <1>5. Way(fs, w) \in Seq(Item) /\ Len(Way(fs, w)) = Len(w) /\ \A i \in 1..Len(w) : Way(fs, w)[i] = e(i)
    BY <1>1, <1>3, <1>4
  <1> QED BY <1>5 DEF e

\* A frame put on the wire comes last.
LEMMA WayPut ==
  ASSUME NEW fs \in Seq(Frame), NEW w \in Seq(1..Len(fs)), NEW f \in Frame
  PROVE  Way(Append(fs, f), Append(w, Len(fs) + 1))
           = Append(Way(fs, w), [n |-> Len(fs) + 1, len |-> f.len])
  <1> DEFINE gs == Append(fs, f)
             v  == Append(w, Len(fs) + 1)
             e  == [n |-> Len(fs) + 1, len |-> f.len]
             p  == Way(gs, v)
             q  == Way(fs, w)
  <1>1. /\ gs \in Seq(Frame) /\ Len(gs) = Len(fs) + 1
        /\ gs[Len(fs) + 1] = f /\ \A i \in 1..Len(fs) : gs[i] = fs[i]
        /\ Len(v) = Len(w) + 1 /\ v[Len(w) + 1] = Len(fs) + 1
        /\ \A i \in 1..Len(w) : v[i] = w[i]
    OBVIOUS
  <1>2. Len(w) \in Nat /\ Len(fs) \in Nat /\ \A i \in 1..Len(w) : w[i] \in 1..Len(fs)
    OBVIOUS
  <1>3. v \in Seq(1..Len(gs))
    BY <1>1, <1>2, AppendsNext
  <1>4. e \in Item
    BY <1>2 DEF Item, Frame
  <1> HIDE DEF gs, v
  <1>5. /\ p \in Seq(Item) /\ Len(p) = Len(v)
        /\ \A i \in 1..Len(v) : p[i] = [n |-> v[i], len |-> gs[v[i]].len]
    BY <1>1, <1>3, WayIsSeq
  <1>6. /\ q \in Seq(Item) /\ Len(q) = Len(w)
        /\ \A i \in 1..Len(w) : q[i] = [n |-> w[i], len |-> fs[w[i]].len]
    BY WayIsSeq
  <1>7. p[Len(w) + 1] = e
    <2>1. Len(w) + 1 \in 1..Len(v)
      BY <1>1, <1>2
    <2> QED BY <1>1, <1>5, <2>1
  <1>8. ASSUME NEW i \in 1..Len(w) PROVE p[i] = q[i]
    <2>1. i \in 1..Len(v) /\ v[i] = w[i] /\ gs[v[i]] = fs[w[i]]
      BY <1>1, <1>2
    <2> QED BY <1>5, <1>6, <2>1
  <1> HIDE DEF p, q, e
  <1>9. /\ Append(q, e) \in Seq(Item) /\ Len(Append(q, e)) = Len(w) + 1
        /\ \A i \in 1..Len(w) : Append(q, e)[i] = q[i]
        /\ Append(q, e)[Len(w) + 1] = e
    BY <1>4, <1>6, AppendProperties
  <1>10. \A i \in 1..Len(p) : p[i] = Append(q, e)[i]
    <2> SUFFICES ASSUME NEW i \in 1..Len(p) PROVE p[i] = Append(q, e)[i]
      OBVIOUS
    <2>1. i \in 1..Len(w) \/ i = Len(w) + 1
      BY <1>1, <1>2, <1>5
    <2> QED BY <1>7, <1>8, <1>9, <2>1
  <1>11. Len(p) = Len(Append(q, e))
    BY <1>1, <1>5, <1>9
  <1>12. p = Append(q, e)
    BY <1>5, <1>9, <1>10, <1>11, SeqEqual
  <1> QED BY <1>12 DEF p, q, e, gs, v

\* A frame that is done leaves from the front.
LEMMA WayTail ==
  ASSUME NEW fs \in Seq(Frame), NEW w \in Seq(1..Len(fs)), w # <<>>
  PROVE  /\ Way(fs, w) # <<>> /\ Way(fs, Tail(w)) = Tail(Way(fs, w))
         /\ Head(Way(fs, w)) = [n |-> Head(w), len |-> fs[Head(w)].len]
  <1> DEFINE q == Way(fs, w)
             v == Tail(w)
             p == Way(fs, v)
  <1>1. Len(w) \in Nat /\ Len(w) >= 1 /\ Head(w) = w[1]
    OBVIOUS
  <1>2. v \in Seq(1..Len(fs)) /\ Len(v) = Len(w) - 1 /\ \A i \in 1..Len(v) : v[i] = w[i + 1]
    BY HeadTailProperties
  <1> HIDE DEF v
  <1>3. /\ q \in Seq(Item) /\ Len(q) = Len(w)
        /\ \A i \in 1..Len(w) : q[i] = [n |-> w[i], len |-> fs[w[i]].len]
    BY WayIsSeq
  <1>4. /\ p \in Seq(Item) /\ Len(p) = Len(v)
        /\ \A i \in 1..Len(v) : p[i] = [n |-> v[i], len |-> fs[v[i]].len]
    BY <1>2, WayIsSeq
  <1>5. ASSUME NEW i \in 1..Len(v) PROVE p[i] = q[i + 1]
    <2>1. i + 1 \in 1..Len(w) /\ v[i] = w[i + 1]
      BY <1>1, <1>2
    <2> QED BY <1>3, <1>4, <2>1
  <1>6. q[1] = [n |-> w[1], len |-> fs[w[1]].len]
    BY <1>1, <1>3
  <1> HIDE DEF p, q
  <1>7. q # <<>> /\ Head(q) = q[1]
    BY <1>1, <1>3
  <1>8. /\ Tail(q) \in Seq(Item) /\ Len(Tail(q)) = Len(v)
        /\ \A i \in 1..Len(v) : Tail(q)[i] = q[i + 1]
    BY <1>2, <1>3, <1>7, HeadTailProperties
  <1>9. p = Tail(q)
    BY <1>4, <1>5, <1>8, SeqEqual
  <1> QED BY <1>1, <1>6, <1>7, <1>9 DEF p, q, v

LEMMA WayNone == ASSUME NEW fs PROVE Way(fs, <<>>) = <<>>
  BY DEF Way

\* A piece hears a frame, skips one that does not fit, or changes nothing.
LEMMA ReceivesLinks == ASSUME AInv, Receives PROVE [Link!LinkNext]_(Link!linkVars)
  <1>1. /\ wire # <<>> /\ frames' = frames
        /\ \/ wire' = wire /\ handled' = handled
           \/ /\ wire' = Tail(wire) /\ handled' = Append(handled, Incoming)
              /\ frames[Incoming].len <= RxCap
           \/ /\ wire' = Tail(wire) /\ handled' = handled
              /\ frames[Incoming].len > RxCap
    BY PieceOutcome
  <1>2. frames \in Seq(Frame) /\ wire \in Seq(1..Len(frames))
    BY DEF AInv, HInv, WsTypeOK
  <1>3. Underway = Way(frames, wire) /\ Underway' = Way(frames', wire')
    BY DEF Underway, Way
  <1>4. /\ Underway # <<>> /\ Way(frames, Tail(wire)) = Tail(Underway)
        /\ Head(Underway) = [n |-> Incoming, len |-> frames[Incoming].len]
    BY <1>1, <1>2, <1>3, WayTail DEF Incoming
  <1>5. Head(Underway).n = Incoming /\ Head(Underway).len = frames[Incoming].len
    BY <1>4
  <1>6. CASE wire' = wire /\ handled' = handled
    BY <1>1, <1>3, <1>6 DEF Link!linkVars
  <1>7. CASE /\ wire' = Tail(wire) /\ handled' = Append(handled, Incoming)
             /\ frames[Incoming].len <= RxCap
    <2>1. Underway' = Tail(Underway)
      BY <1>1, <1>3, <1>4, <1>7
    <2>2. Link!Hear
      BY <1>1, <1>4, <1>5, <1>7, <2>1 DEF Link!Hear
    <2> QED BY <2>2 DEF Link!LinkNext
  <1>8. CASE /\ wire' = Tail(wire) /\ handled' = handled
             /\ frames[Incoming].len > RxCap
    <2>1. Underway' = Tail(Underway)
      BY <1>1, <1>3, <1>4, <1>8
    <2>2. Link!Skip
      BY <1>1, <1>4, <1>5, <1>8, <2>1 DEF Link!Skip
    <2> QED BY <2>2 DEF Link!LinkNext
  <1> QED BY <1>1, <1>6, <1>7, <1>8

\* Putting a frame on the wire sends it.
LEMMA PutsLinks == ASSUME AInv, NEW f \in Frame, Puts(f) PROVE Link!LinkNext
  <1>1. frames \in Seq(Frame) /\ wire \in Seq(1..Len(frames))
    BY DEF AInv, HInv, WsTypeOK
  <1>2. /\ frames' = Append(frames, f) /\ wire' = Append(wire, Len(frames) + 1)
        /\ handled' = handled
    BY DEF Puts
  <1>3. Underway = Way(frames, wire) /\ Underway' = Way(frames', wire')
    BY DEF Underway, Way
  <1>4. Underway' = Append(Underway, [n |-> Len(frames) + 1, len |-> f.len])
    BY <1>1, <1>2, <1>3, WayPut
  <1>5. Len(frames') = Len(frames) + 1
    BY <1>1, <1>2
  <1>6. Link!Send(f.len) /\ f.len \in 1..MaxLen
    BY <1>2, <1>4, <1>5 DEF Link!Send, Frame
  <1> QED BY <1>6 DEF Link!LinkNext

LEMMA StepLinks == AInv /\ [WsNext]_wsVars => [Link!LinkNext]_(Link!linkVars)
  <1> SUFFICES ASSUME AInv, [WsNext]_wsVars PROVE [Link!LinkNext]_(Link!linkVars)
    OBVIOUS
  <1>1. CASE UNCHANGED <<frames, wire, handled>>
    BY <1>1 DEF Link!linkVars, Underway
  <1>2. CASE Disconnects
    <2>1. wire' = <<>> /\ UNCHANGED <<frames, handled>>
      BY <1>2 DEF Disconnects
    <2>2. Underway' = Way(frames', wire')
      BY DEF Underway, Way
    <2>3. Underway' = <<>>
      BY <2>1, <2>2, WayNone
    <2> QED BY <2>1, <2>3 DEF Link!Cut, Link!LinkNext
  <1>3. CASE ServerAcks
    <2>1. [len |-> AckLen, ack |-> TRUE] \in Frame
      BY WsAssumption DEF Frame
    <2> QED BY <1>3, <2>1, PutsLinks DEF ServerAcks
  <1>4. ASSUME NEW len \in 1..MaxLen, ServerSends(len) PROVE Link!LinkNext
    <2>1. [len |-> len, ack |-> FALSE] \in Frame
      BY DEF Frame
    <2> QED BY <1>4, <2>1, PutsLinks DEF ServerSends
  <1>5. CASE UNCHANGED wsVars
    BY <1>1, <1>5 DEF wsVars
  <1>6. CASE Starts \/ Connects \/ SendChecks \/ SendEnds
    BY <1>1, <1>6 DEF Starts, Connects, SendChecks, SendEnds
  <1>7. CASE Receives
    BY <1>7, ReceivesLinks
  <1> QED BY <1>2, <1>3, <1>4, <1>5, <1>6, <1>7 DEF WsNext

\* The client implements the link: whatever the sizes of buffer, frames and pieces, each
\* frame is handled whole, once and in order, and missed only if it is larger than the
\* buffer or its connection was lost.
THEOREM LinkImplemented == WsSpec => ImplementsLink
  <1>1. WsInit => Link!LinkInit
    BY DEF WsInit, Link!LinkInit, Underway
  <1> QED BY <1>1, AInvAlways, StepLinks, PTL DEF WsSpec, ImplementsLink, Link!LinkSpec
=============================================================================
