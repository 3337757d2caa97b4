----------------------------- MODULE WsClient -----------------------------
(***************************************************************************)
(* The unit's WebSocket client (components/ws_client/ws_client.c) below    *)
(* the events: connecting and hello, the session bit, the best-effort      *)
(* sends of main, and the assembly of the server's frames from the pieces  *)
(* the transport delivers.  What the events do is in TtsTurn.  A byte is   *)
(* its frame's number and its place in the frame, so that a lost, repeated *)
(* or foreign byte shows.                                                  *)
(***************************************************************************)
EXTENDS Naturals, Sequences

CONSTANTS
  RxCap,     (* RX_ASSEMBLY_BYTES                                          *)
  AckLen,    (* the length of a hello_ack                                  *)
  MaxLen,    (* bound: the length of a frame                               *)
  MaxFrames, (* bound: frames before which the server sends events          *)
  MaxConns   (* bound: connections                                         *)

ASSUME WsAssumption ==
  /\ RxCap \in Nat \ {0} /\ AckLen \in 1..RxCap /\ MaxLen \in Nat \ {0}
  /\ AckLen <= MaxLen /\ MaxFrames \in Nat /\ MaxConns \in Nat

VARIABLES
  client,    (* s_client: none yet, started, or failed for good            *)
  conn,      (* the transport: "down" or "up"                              *)
  conns,     (* bound                                                      *)
  frames,    (* the server's frames so far: length, and whether an ack     *)
  wire,      (* the numbers of those under way on this connection          *)
  off,       (* payload_offset: how much of the first has been delivered   *)
  asm,       (* s_rx_assembly, up to s_rx_assembly_len                     *)
  expected,  (* s_rx_expected_len                                          *)
  handled,   (* history: the frames _handle_server_event could parse       *)
  session,   (* BIT_CONNECTED                                              *)
  acked,     (* the server has answered this connection's hello            *)
  first,     (* the first frame the server got on this connection          *)
  sender,    (* main, in one of the ws_client_send functions               *)
  tested     (* history: the connection that send found a session on, or 0 *)

wsVars == <<client, conn, conns, frames, wire, off, asm, expected, handled, session, acked, first, sender, tested>>

Frame == [len : 1..MaxLen, ack : BOOLEAN]
Byte  == (Nat \ {0}) \X (1..MaxLen)

WsTypeOK ==
  /\ client \in {"none", "started", "failed"}
  /\ conn \in {"down", "up"} /\ conns \in 0..MaxConns
  /\ frames \in Seq(Frame)
  /\ wire \in Seq(1..Len(frames)) /\ (conn = "down" => wire = <<>>)
  /\ off \in Nat /\ (wire = <<>> => off = 0)
  /\ wire # <<>> => off < frames[Head(wire)].len
  /\ asm \in Seq(Byte) /\ Len(asm) <= RxCap /\ expected \in 0..MaxLen
  /\ handled \in Seq(1..Len(frames))
  /\ session \in BOOLEAN /\ acked \in BOOLEAN
  /\ first \in {"none", "hello", "other"} /\ sender \in {"idle", "sending"}
  /\ tested \in 0..MaxConns

WsInit ==
  /\ client = "none"
  /\ conn = "down" /\ conns = 0 /\ frames = <<>> /\ wire = <<>> /\ off = 0
  /\ asm = <<>> /\ expected = 0 /\ handled = <<>>
  /\ session = FALSE /\ acked = FALSE /\ first = "none" /\ sender = "idle" /\ tested = 0

-----------------------------------------------------------------------------
(* Connections.                                                             *)

\* ws_client_start; after a failure main goes on, and its sends do nothing.
Starts ==
  /\ client = "none" /\ client' \in {"started", "failed"}
  /\ UNCHANGED <<conn, conns, frames, wire, off, asm, expected, handled, session, acked, first, sender, tested>>

\* The event CONNECTED sends hello.  A hello that cannot be sent is not repeated on
\* this connection; neither is it heard if a send of main gets in before it.
Connects ==
  /\ client = "started" /\ conn = "down" /\ conns < MaxConns
  /\ conn' = "up" /\ conns' = conns + 1 /\ acked' = FALSE
  /\ first' \in {"hello", "none"}
  /\ UNCHANGED <<client, frames, wire, off, asm, expected, handled, session, sender, tested>>

\* Mutant: the session bit survives the connection.
KeepsSession == UNCHANGED session

EndsSession == session' = FALSE

\* The events DISCONNECTED and CLOSED; what is under way is lost, what was assembled
\* stays in the buffer.
Disconnects ==
  /\ conn = "up" /\ conn' = "down"
  /\ EndsSession
  /\ wire' = <<>> /\ off' = 0
  /\ UNCHANGED <<client, conns, frames, asm, expected, handled, acked, first, sender, tested>>

-----------------------------------------------------------------------------
(* The server.                                                              *)
Puts(f) ==
  /\ conn = "up" /\ first = "hello"
  /\ frames' = Append(frames, f)
  /\ wire' = Append(wire, Len(frames) + 1)
  /\ UNCHANGED <<client, conn, conns, off, asm, expected, handled, session, first, sender, tested>>

ServerAcks == ~acked /\ acked' = TRUE /\ Puts([len |-> AckLen, ack |-> TRUE])

\* A registered unit may be sent an event before its ack.
ServerSends(len) ==
  Len(frames) < MaxFrames /\ Puts([len |-> len, ack |-> FALSE]) /\ UNCHANGED acked

-----------------------------------------------------------------------------
(* The pieces: _ws_event_handler on WEBSOCKET_EVENT_DATA.                   *)
Incoming == Head(wire)
Piece(d) == [i \in 1..d |-> <<Incoming, off + i>>]

\* Mutant: a new frame is appended to what is there.
StartsAppended == asm

\* The first piece of a frame starts the assembly over.
Started     == IF off = 0 THEN <<>> ELSE asm
ExpectedNow == IF off = 0 THEN frames[Incoming].len ELSE expected

\* The transport delivers d more bytes of the first frame.
Delivers(d) ==
  /\ conn = "up" /\ wire # <<>>
  /\ IF off + d = frames[Incoming].len
     THEN wire' = Tail(wire) /\ off' = 0
     ELSE UNCHANGED wire /\ off' = off + d
  /\ UNCHANGED <<client, conn, conns, frames, acked, first, sender, tested>>

\* Mutant: off by one at the end of the buffer.
FitsOneMore(d) == Len(Started) + d <= RxCap + 1

Fits(d) == Len(Started) + d <= RxCap

\* Mutant: a frame is complete when there is more than was announced.
CompleteLate(len) == ExpectedNow = 0 \/ len > ExpectedNow

\* Once an overflow has made the length unknown, each piece counts as a frame.
Complete(len) == ExpectedNow = 0 \/ len >= ExpectedNow

\* What cJSON finds at the front of the buffer; it does not mind what follows.
Parsed(buf) ==
  {n \in 1..Len(frames) :
     /\ frames[n].len <= Len(buf)
     /\ \A i \in 1..frames[n].len : buf[i] = <<n, i>>}

Handle(buf) ==
  \/ \E n \in Parsed(buf) :
       handled' = Append(handled, n) /\ session' = (session \/ frames[n].ack)
  \/ Parsed(buf) = {} /\ UNCHANGED <<handled, session>>

PieceKept(d) ==
  /\ Delivers(d) /\ Fits(d) /\ ~Complete(Len(Started) + d)
  /\ asm' = Started \o Piece(d) /\ expected' = ExpectedNow
  /\ UNCHANGED <<handled, session>>

FrameHandled(d) ==
  /\ Delivers(d) /\ Fits(d) /\ Complete(Len(Started) + d)
  /\ Handle(Started \o Piece(d))
  /\ asm' = <<>> /\ expected' = 0

PieceOverflows(d) ==
  /\ Delivers(d) /\ ~Fits(d)
  /\ asm' = <<>> /\ expected' = 0
  /\ UNCHANGED <<handled, session>>

Receives ==
  /\ wire # <<>>
  /\ \E d \in 1..frames[Incoming].len - off :
       PieceKept(d) \/ FrameHandled(d) \/ PieceOverflows(d)

-----------------------------------------------------------------------------
(* main: ws_client_send_state and ws_client_send_wake.                      *)

\* Without a session a send does nothing.
SendChecks ==
  /\ client = "started" /\ sender = "idle" /\ session /\ sender' = "sending"
  /\ tested' = conns
  /\ UNCHANGED <<client, conn, conns, frames, wire, off, asm, expected, handled, session, acked, first>>

\* The session may have ended since; the frame is dropped then, or for lack of time, or
\* goes out on whatever connection there is by now.
SendEnds ==
  /\ sender = "sending" /\ sender' = "idle" /\ tested' = 0
  /\ \/ UNCHANGED first
     \/ conn = "up" /\ first' = IF first = "none" THEN "other" ELSE first
  /\ UNCHANGED <<client, conn, conns, frames, wire, off, asm, expected, handled, session, acked>>

WsNext ==
  \/ Starts \/ Connects \/ Disconnects \/ ServerAcks \/ (\E len \in 1..MaxLen : ServerSends(len))
  \/ Receives \/ SendChecks \/ SendEnds

\* The network delivers what it was given, and the server answers a hello.
WsFair == WF_wsVars(ServerAcks) /\ WF_wsVars(Receives)

WsSpec     == WsInit /\ [][WsNext]_wsVars
WsFairSpec == WsSpec /\ WsFair

-----------------------------------------------------------------------------
(* Properties.                                                              *)

\* An event of main is never the first thing the server gets on the connection whose
\* session it was sent for: no session outlives its connection, and none is there
\* before the hello, even if hello failed.  Only a send that found the session of an
\* earlier connection (_send_text tests the bit and then sends) can come before the
\* hello of the next; it would have to take longer, 0.2 s, than connecting again, 3 s.
HelloFirst == [][first = "none" /\ first' = "other" => tested # conns]_wsVars

\* The frames under way, as the link knows them.
Underway == [i \in 1..Len(wire) |-> [n |-> wire[i], len |-> frames[wire[i]].len]]

Link == INSTANCE FrameLink WITH
          Cap <- RxCap, Lengths <- 1..MaxLen,
          sent <- Len(frames), queue <- Underway, heard <- handled

\* The client implements the link: however the transport splits the frames, and
\* wherever it was cut before, each frame is handled whole, once and in order, and
\* missed only if it is larger than the buffer.
ImplementsLink == Link!LinkSpec

\* A unit whose hello reached the server has its session, or loses the connection.
SessionComesUp == (first = "hello" /\ conn = "up") ~> (session \/ conn = "down")
=============================================================================
